----------------------------- MODULE MCSchema -----------------------------
EXTENDS SchemaEvolution

CONSTANTS o1, o2

MCSpelling == ("Paris" :> "paris") @@ ("Atlantis" :> "atlantis")
MCGeocode == "paris" :> "2.35 48.86"
MCCommands == (o1 :> {"head", "-1", "base"}) @@ (o2 :> {"head"})
=============================================================================
