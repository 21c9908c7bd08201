--------------------------- MODULE MCProjectInbox ---------------------------
(* Two proposals of one device. *)
EXTENDS ProjectInbox, TLC

CONSTANT d1

AuthorOf == 1 :> d1 @@ 2 :> d1
NameOf == 1 :> "a" @@ 2 :> "b"
=============================================================================
