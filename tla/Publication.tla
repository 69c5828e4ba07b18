----------------------------- MODULE Publication -----------------------------
(***************************************************************************)
(* What publishing promises its users: a session is published at most      *)
(* once, in one step, as a complete album, and the album never changes.    *)
(***************************************************************************)
EXTENDS Integers

CONSTANTS
    Sessions,   \* the sessions a work can be published from
    Clients,    \* the images a work can have
    MaxOrder,   \* bound on the position of an image
    None

VARIABLE album  \* the published album of a session, None before that

Images(order) == {c \in Clients : order[c] > 0}

(* The images are numbered 1, 2, ... without a gap or a repetition, and    *)
(* the cover is one of them.                                               *)
IsAlbum(a) ==
    /\ a.cover \in Images(a.order)
    /\ \A c, d \in Images(a.order) : c # d => a.order[c] # a.order[d]
    /\ \E n \in 1..MaxOrder : {a.order[c] : c \in Images(a.order)} = 1..n

Albums == {a \in [order : [Clients -> 0..MaxOrder], cover : Clients] : IsAlbum(a)}

Init == album = [s \in Sessions |-> None]

PublishAlbum(s) ==
    /\ album[s] = None
    /\ \E a \in Albums : album' = [album EXCEPT ![s] = a]

Next == \E s \in Sessions : PublishAlbum(s)

Spec == Init /\ [][Next]_album
=============================================================================
