--------------------------- MODULE DNSPropagation ---------------------------
(***************************************************************************)
(* The check that stands between a DNS record and the readiness of a       *)
(* DOCluster (util/dns/dns.go), the resolver it uses                       *)
(* (util/dns/resolver/resolver.go) and the DNS around it: the recursive    *)
(* servers of /etc/resolv.conf with their negative caches, and the         *)
(* authoritative servers of DigitalOcean, which take over a record one by  *)
(* one.  One name; its record is created once and moves when the load      *)
(* balancer is replaced.                                                   *)
(*                                                                         *)
(* A check is cut at every exchange.  An address is the number of the load *)
(* balancer it belongs to.  The resolver with canned answers that the      *)
(* package starts with is replaced before any controller runs (main.go).   *)
(***************************************************************************)
EXTENDS Integers, Sequences

CONSTANTS
  Servers,       \* the authoritative servers
  Primary,       \* the one the SOA record names
  Local,         \* the servers of resolv.conf, in order
  OtherLookups,  \* whether other processes look the name up
  MaxAddresses   \* bound: number of addresses the record ever has

ASSUME DNSAssumption ==
  /\ Primary \in Servers
  /\ Len(Local) \in Nat \ {0}
  /\ OtherLookups \in BOOLEAN
  /\ MaxAddresses \in Nat

VARIABLES
  record,     \* the address in the DigitalOcean API
  zone,       \* the address every authoritative server answers
  negative,   \* whether a local server remembers that the name does not exist
  health,     \* of every server: it answers, it only fails, or it is silent
  pc,         \* whom the check asks next
  next,       \* index of the local server that is asked
  ip,         \* the address the check looks for
  verdict,    \* outcome of the last check that came to its end
  checked     \* the address it looked for

vars == <<record, zone, negative, health, pc, next, ip, verdict, checked>>
world == <<record, zone, negative, health>>

NoAddress == 0
Addresses == 1..MaxAddresses
Locals == {Local[i] : i \in 1..Len(Local)}
Health == {"up", "lame", "silent"}
Verdicts == {"none", "error", "waiting", "propagated"}

Init ==
  /\ record = NoAddress
  /\ zone = [s \in Servers |-> NoAddress]
  /\ negative = [l \in Locals |-> FALSE]
  /\ health = [s \in Servers \union Locals |-> "up"]
  /\ pc = "idle" /\ next = 1 /\ ip = NoAddress
  /\ verdict = "none" /\ checked = NoAddress

-----------------------------------------------------------------------------
(* DNS.                                                                    *)

\* The controller writes the record, and writes it again for the address of
\* a new load balancer.
Upsert ==
  /\ record < MaxAddresses
  /\ record' = record + 1
  /\ UNCHANGED <<zone, negative, health, pc, next, ip, verdict, checked>>

\* An authoritative server takes over the record.
ZoneProgress(s) ==
  /\ zone[s] # record
  /\ zone' = [zone EXCEPT ![s] = record]
  /\ UNCHANGED <<record, negative, health, pc, next, ip, verdict, checked>>

CacheExpires(l) ==
  /\ negative[l]
  /\ negative' = [negative EXCEPT ![l] = FALSE]
  /\ UNCHANGED <<record, zone, health, pc, next, ip, verdict, checked>>

\* Another process of the node looks the name up.
OthersAsk(l) ==
  /\ OtherLookups
  /\ ~negative[l]
  /\ \E s \in Servers : health[s] = "up" /\ zone[s] = NoAddress
  /\ negative' = [negative EXCEPT ![l] = TRUE]
  /\ UNCHANGED <<record, zone, health, pc, next, ip, verdict, checked>>

HealthChanges(s) ==
  /\ \E h \in Health \ {health[s]} : health' = [health EXCEPT ![s] = h]
  /\ UNCHANGED <<record, zone, negative, pc, next, ip, verdict, checked>>

-----------------------------------------------------------------------------
(* CheckDNSPropagated.                                                     *)

\* reconcile asks whether the record it has just verified is propagated.
StartCheck ==
  /\ pc = "idle"
  /\ record # NoAddress
  /\ pc' = "local" /\ next' = 1 /\ ip' = record
  /\ UNCHANGED <<world, verdict, checked>>

EndCheck(v) ==
  /\ verdict' = v /\ checked' = ip
  /\ pc' = "idle" /\ next' = 1 /\ ip' = NoAddress

\* Mutant: an error code of a server ends the query.
NextServerNever ==
  EndCheck("error")

\* (*resolver).Query: any other error code moves on to the next server.
NextServer ==
  \/ /\ next < Len(Local)
     /\ next' = next + 1
     /\ UNCHANGED <<pc, ip, verdict, checked>>
  \/ next = Len(Local) /\ EndCheck("error")

\* LookupAuthoritativeServer has an answer with the SOA in its authority
\* section, be it that the name exists or that it does not.
HaveAuthority ==
  /\ pc' = "authority"
  /\ UNCHANGED <<next, ip, verdict, checked>>

\* (*resolver).Query returns an NXDOMAIN to its caller.
NameError == HaveAuthority

\* A local server that works asks an authoritative one unless it remembers
\* that the name does not exist; it will remember that for every type.
Recurse(l) ==
  \/ negative[l] /\ NameError /\ UNCHANGED negative
  \/ /\ ~negative[l]
     /\ \E s \in Servers :
          /\ health[s] = "up"
          /\ \/ /\ zone[s] = NoAddress /\ NameError
                /\ negative' = [negative EXCEPT ![l] = TRUE]
             \/ zone[s] # NoAddress /\ HaveAuthority /\ UNCHANGED negative
  \/ /\ ~negative[l]
     /\ \A s \in Servers : health[s] # "up"
     /\ NextServer /\ UNCHANGED negative

\* The question for the SOA goes to the servers of resolv.conf in turn.  No
\* answer at all ends the query.
LocalQuery ==
  /\ pc = "local"
  /\ LET l == Local[next]
     IN  \/ health[l] = "up" /\ Recurse(l)
         \/ health[l] = "lame" /\ NextServer /\ UNCHANGED negative
         \/ health[l] = "silent" /\ EndCheck("error") /\ UNCHANGED negative
  /\ UNCHANGED <<record, zone, health>>

\* Mutant: any address will do.
AnswerHasAny(answer) == answer # NoAddress

\* CheckDNSPropagated: one of the A records of the answer is the address.
AnswerHas(answer) == answer = ip

\* The question for the address goes to the server the SOA names, only.
Query ==
  /\ pc = "authority"
  /\ \/ /\ health[Primary] = "up"
        /\ EndCheck(IF AnswerHas(zone[Primary]) THEN "propagated" ELSE "waiting")
     \/ health[Primary] # "up" /\ EndCheck("error")
  /\ UNCHANGED world

-----------------------------------------------------------------------------
Check == StartCheck \/ LocalQuery \/ Query

Next ==
  \/ Check \/ Upsert
  \/ \E s \in Servers : ZoneProgress(s)
  \/ \E l \in Locals : CacheExpires(l) \/ OthersAsk(l)
  \/ \E s \in Servers \union Locals : HealthChanges(s)

Spec == Init /\ [][Next]_vars

\* A reconciliation that waits or fails is repeated, and the authoritative
\* servers take over records.  No cache needs to expire.
Fairness ==
  /\ WF_vars(Check)
  /\ \A s \in Servers : WF_vars(ZoneProgress(s))

FairSpec == Spec /\ Fairness

-----------------------------------------------------------------------------
TypeOK ==
  /\ record \in 0..MaxAddresses
  /\ zone \in [Servers -> 0..MaxAddresses]
  /\ negative \in [Locals -> BOOLEAN]
  /\ health \in [Servers \union Locals -> Health]
  /\ pc \in {"idle", "local", "authority"}
  /\ next \in 1..Len(Local)
  /\ ip \in 0..MaxAddresses
  /\ verdict \in Verdicts /\ checked \in 0..MaxAddresses

\* A positive verdict on the present record is true: the primary serves that
\* address, also when the record moved while a check was under way
\* (CheckDNSPropagated compares with the address it was called with).
PropagatedMeansServed ==
  verdict = "propagated" /\ checked = record => zone[Primary] = record

\* The primary works, and so does the i-th server of resolv.conf; those
\* before it may fail but are not silent.
Usable(i) ==
  /\ health[Primary] = "up" /\ health[Local[i]] = "up"
  /\ \A j \in 1..(i - 1) : health[Local[j]] # "silent"

\* While DNS is usable the check finds out that the last record has been
\* propagated, even if every server of resolv.conf has cached that the name
\* does not exist and never forgets it, and although servers fail before one
\* answers (NXDOMAIN is an answer, other codes try the next server).
PropagationDetected ==
  (\E i \in 1..Len(Local) : <>[]Usable(i))
    => <>[](record # NoAddress => verdict = "propagated" /\ checked = record)

\* controllers/docluster_controller.go:194-196: "This propagation check works
\* around the DNS cache problem by directly making DNS queries and not going
\* through system resolvers."  If so, a check that finds the record has left
\* no trace in the negative caches of the system resolvers.
SystemCachesUntouched ==
  verdict = "propagated" => \A l \in Locals : ~negative[l]
=============================================================================
