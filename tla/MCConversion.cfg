SPECIFICATION Spec
CONSTANTS
  Values = {v1, v2}
  Nil = Nil
  Garbage = Garbage
  Absent = Absent
  MaxWrites = 3
  Chars = {"a", "c", "e", "m", "n", "s", "-", ".", "/", ":"}
  NameDigitalOceanProviderPrefix <- Prefix
  APIServerRoleTagValue <- APIServer
  NodeRoleTagValue <- Node
INVARIANTS LastWriteIsRead HubHasNoConversionData ReadThenWriteAccepted
  TemplateNamesNoDroplet VolumeNamesApart BackendTagsApart
PROPERTY ImmutableInEveryVersion
