------------------------------- MODULE Janitor -------------------------------
(***************************************************************************)
(* do-janitor (hack/do-janitor), the program that deletes what is twelve   *)
(* hours old from the DigitalOcean account of the tests.  For each kind of *)
(* resource it lists all pages and then deletes one by one, while tests    *)
(* that still run create and delete resources.  CI starts it periodically. *)
(*                                                                         *)
(* DigitalOcean is external.  It lists the newest resource first; pages    *)
(* are cut from the list as it is when a page is asked for.  It refuses to *)
(* delete a volume that is attached to a droplet.                          *)
(***************************************************************************)
EXTENDS Integers, Sequences

CONSTANTS
  Droplets, LBs, Volumes,   \* resources that may be created
  PageSize,                 \* number of resources on a page
  MaxDeletes                \* bound: number of resources deleted by tests

Resources == Droplets \union LBs \union Volumes

ASSUME JanitorAssumption ==
  /\ Droplets \intersect LBs = {}
  /\ (Droplets \union LBs) \intersect Volumes = {}
  /\ PageSize \in Nat \ {0} /\ MaxDeletes \in Nat

VARIABLES
  account,   \* the resources of every kind, newest first
  age,       \* of every resource: "unborn", "young", "old" or "gone"
  attached,  \* volumes that are attached to a droplet
  pc,        \* "idle", "list" or "delete"
  kind,      \* the kind of resource the program is at
  page,      \* the page it asks for
  list,      \* what it has listed and not looked at yet
  owed,      \* history: what was due for deletion when the program started
  excused,   \* history: a call failed, or a page was shifted, since then
  completed, \* the last run came to its end
  deletes    \* number of resources deleted by tests

vars == <<account, age, attached, pc, kind, page, list, owed, excused,
          completed, deletes>>
cloud == <<account, age, attached>>
program == <<pc, kind, page, list, owed, excused, completed>>

Kinds == {"droplet", "lb", "volume"}
KindOf(r) == IF r \in Droplets THEN "droplet" ELSE IF r \in LBs THEN "lb" ELSE "volume"

Present(r) == age[r] \in {"young", "old"}

\* What the janitor is for.
Due(r) == age[r] = "old" /\ r \notin attached

Init ==
  /\ account = [k \in Kinds |-> <<>>]
  /\ age = [r \in Resources |-> "unborn"]
  /\ attached = {}
  /\ pc = "idle" /\ kind = "droplet" /\ page = 1 /\ list = <<>>
  /\ owed = {} /\ excused = FALSE /\ completed = FALSE
  /\ deletes = 0

-----------------------------------------------------------------------------
(* DigitalOcean and the tests.                                             *)

\* A test creates a resource; a volume may be attached to a droplet.
Create(r) ==
  /\ age[r] = "unborn"
  /\ age' = [age EXCEPT ![r] = "young"]
  /\ account' = [account EXCEPT ![KindOf(r)] = <<r>> \o @]
  /\ \/ UNCHANGED attached
     \/ r \in Volumes /\ attached' = attached \union {r}
  /\ UNCHANGED <<program, deletes>>

\* Twelve hours pass.
Age(r) ==
  /\ age[r] = "young"
  /\ age' = [age EXCEPT ![r] = "old"]
  /\ UNCHANGED <<account, attached, program, deletes>>

\* The droplet that a volume is attached to goes away.
Detach(v) ==
  /\ v \in attached
  /\ attached' = attached \ {v}
  /\ UNCHANGED <<account, age, program, deletes>>

Without(s, r) ==
  LET n == CHOOSE i \in 1..Len(s) : s[i] = r
  IN  SubSeq(s, 1, n - 1) \o SubSeq(s, n + 1, Len(s))

Gone(r) ==
  /\ Present(r) /\ r \notin attached
  /\ age' = [age EXCEPT ![r] = "gone"]
  /\ account' = [account EXCEPT ![KindOf(r)] = Without(@, r)]
  /\ UNCHANGED attached

\* A test deletes one of its resources.  Between two pages of a listing that
\* moves the first resource of the next page to the one already read.
TestDeletes(r) ==
  /\ deletes < MaxDeletes
  /\ deletes' = deletes + 1
  /\ Gone(r)
  /\ excused' = (excused \/ (pc = "list" /\ kind = KindOf(r) /\ page > 1))
  /\ UNCHANGED <<pc, kind, page, list, owed, completed>>

-----------------------------------------------------------------------------
(* The program.                                                            *)

Start ==
  /\ pc = "idle"
  /\ pc' = "list"
  /\ owed' = {r \in Resources : Due(r)}
  /\ excused' = FALSE /\ completed' = FALSE
  /\ UNCHANGED <<kind, page, list, cloud, deletes>>

Exit(done) ==
  /\ pc' = "idle" /\ kind' = "droplet" /\ page' = 1 /\ list' = <<>>
  /\ completed' = done
  /\ UNCHANGED <<owed, excused>>

IsLastPage(k, p) == p * PageSize >= Len(account[k])

\* The resources on a page, and whether a droplet is attached to them.
Page(k, p) ==
  LET first == (p - 1) * PageSize
      length == IF IsLastPage(k, p) THEN Len(account[k]) - first ELSE PageSize
  IN  [i \in 1..length |-> [id |-> account[k][first + i],
                            attached |-> account[k][first + i] \in attached]]

\* Mutant: the first page is taken for the whole list.
ListPageFirst ==
  /\ pc = "list"
  /\ list' = list \o Page(kind, page)
  /\ pc' = "delete" /\ page' = 1
  /\ UNCHANGED <<kind, owed, excused, completed, cloud, deletes>>

\* dropletList, lbList and volumeList, one page at a time.  For volumes the
\* number of the next page is written through ListVolumeParams.ListOptions,
\* a pointer that nothing sets: the program panics.
ListPage ==
  /\ pc = "list"
  /\ \/ /\ IsLastPage(kind, page)
        /\ list' = list \o Page(kind, page)
        /\ pc' = "delete" /\ page' = 1
        /\ UNCHANGED <<kind, owed, excused, completed>>
     \/ /\ ~IsLastPage(kind, page) /\ kind # "volume"
        /\ list' = list \o Page(kind, page)
        /\ page' = page + 1
        /\ UNCHANGED <<pc, kind, owed, excused, completed>>
     \/ ~IsLastPage(kind, page) /\ kind = "volume" /\ Exit(FALSE)
  /\ UNCHANGED <<cloud, deletes>>

\* A listing that fails ends the program.
ListFails ==
  /\ pc = "list"
  /\ Exit(FALSE)
  /\ UNCHANGED <<cloud, deletes>>

\* The age is that of the moment, the attachment that of the listing.
Selected(item) == age[item.id] # "young" /\ ~item.attached

Skip ==
  /\ pc = "delete" /\ list # <<>> /\ ~Selected(Head(list))
  /\ list' = Tail(list)
  /\ UNCHANGED <<pc, kind, page, owed, excused, completed, cloud, deletes>>

Delete ==
  /\ pc = "delete" /\ list # <<>> /\ Selected(Head(list))
  /\ Gone(Head(list).id)
  /\ list' = Tail(list)
  /\ UNCHANGED <<pc, kind, page, owed, excused, completed, deletes>>

\* The creation time of a droplet or a load balancer is a string: when it does
\* not parse, the program ends.
ParseFails ==
  /\ pc = "delete" /\ list # <<>> /\ kind # "volume"
  /\ Exit(FALSE)
  /\ UNCHANGED <<cloud, deletes>>

\* Mutant: a failed deletion ends the program.
DeleteFailsFatal ==
  /\ pc = "delete" /\ list # <<>> /\ Selected(Head(list))
  /\ Exit(FALSE)
  /\ UNCHANGED <<cloud, deletes>>

\* A deletion that fails, as that of a resource that is attached or gone
\* must, is logged and the program goes on.
DeleteFails ==
  /\ pc = "delete" /\ list # <<>> /\ Selected(Head(list))
  /\ list' = Tail(list)
  /\ excused' = TRUE
  /\ UNCHANGED <<pc, kind, page, owed, completed, cloud, deletes>>

\* main: droplets, then load balancers, then volumes.
NextKind ==
  /\ pc = "delete" /\ list = <<>>
  /\ \/ /\ kind # "volume"
        /\ kind' = IF kind = "droplet" THEN "lb" ELSE "volume"
        /\ pc' = "list"
        /\ UNCHANGED <<page, list, owed, excused, completed>>
     \/ kind = "volume" /\ Exit(TRUE)
  /\ UNCHANGED <<cloud, deletes>>

Program ==
  \/ Start \/ ListPage \/ ListFails \/ NextKind
  \/ Skip \/ ParseFails \/ Delete \/ DeleteFails

Tests ==
  \E r \in Resources : Create(r) \/ Age(r) \/ Detach(r) \/ TestDeletes(r)

Next == Program \/ Tests

Spec == Init /\ [][Next]_vars

\* CI starts the program again and again, and it runs to its end.
FairSpec == Spec /\ WF_vars(Program)

-----------------------------------------------------------------------------
TypeOK ==
  /\ account \in [Kinds -> Seq(Resources)]
  /\ age \in [Resources -> {"unborn", "young", "old", "gone"}]
  /\ attached \subseteq Volumes
  /\ pc \in {"idle", "list", "delete"} /\ kind \in Kinds /\ page \in Nat \ {0}
  /\ list \in Seq([id: Resources, attached: BOOLEAN])
  /\ owed \subseteq Resources /\ excused \in BOOLEAN /\ completed \in BOOLEAN
  /\ deletes \in 0..MaxDeletes

\* A run of the janitor that comes to its end has deleted everything that was
\* due when it started, however many pages that was and whatever was created
\* meanwhile, unless a deletion failed or a test deleted something between
\* two pages of the listing (dropletList, lbList, volumeList, main).
CompletedMeansClean ==
  completed /\ ~excused => \A r \in owed : age[r] = "gone"

\* DigitalOcean never stops refusing: the listings, or the deletion of r; or it
\* never stops naming creation times that the program cannot read.
RefusedForEver(r) ==
  \/ []<><<ListFails /\ ~ListPage>>_vars
  \/ []<><<ParseFails /\ ~DeleteFails>>_vars
  \/ []<><<DeleteFails /\ Head(list).id = r>>_vars

\* Everything that is due goes in the end, also when the deletion of other
\* resources fails for ever or a page was missed; volumes only as long as
\* there is no more than one page of them.
DueIsReclaimed ==
  \A r \in Resources :
    RefusedForEver(r) \/
    (Due(r) ~> (\/ age[r] = "gone"
                \/ r \in Volumes /\ Len(account["volume"]) > PageSize))

\* Makefile:512: "Cleanup old resources in the DO account"
OldResourcesCleaned ==
  \A r \in Resources : RefusedForEver(r) \/ (Due(r) ~> age[r] = "gone")
=============================================================================
