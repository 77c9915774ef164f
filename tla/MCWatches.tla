------------------------------ MODULE MCWatches -------------------------------
(***************************************************************************)
(* Instances of Watches: one object in the watched namespace and one       *)
(* outside it.                                                             *)
(***************************************************************************)
EXTENDS Watches

MCObjects == {"a", "b"}
MCContents == {"old", "new"}
MCFirstSpec == [o \in MCObjects |-> IF o = "a" THEN "old" ELSE "new"]
MCNamespaces == {"default", "other"}
OneInEach == [o \in MCObjects |-> IF o = "a" THEN "default" ELSE "other"]
===============================================================================
