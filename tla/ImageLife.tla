------------------------------ MODULE ImageLife ------------------------------
(***************************************************************************)
(* What the server promises about uploaded images, whatever fails and      *)
(* whatever names clients use: the file of an image is stored before its   *)
(* name is listed or told, a name that has been told is not listed any     *)
(* more, and a name comes off the list of temporary images only because a  *)
(* product uses it.  A product may use any name, stored or not.            *)
(***************************************************************************)
CONSTANT Images
VARIABLES stored, temporary, told, used

lifeVars == <<stored, temporary, told, used>>

LifeInit == stored = {} /\ temporary = {} /\ told = {} /\ used = {}

Store(i) ==
    /\ i \notin stored
    /\ stored' = stored \cup {i}
    /\ UNCHANGED <<temporary, told, used>>

\* The name is listed, or the attempt has failed; an upload that ends with it
\* tells its client the names S.
List(i, S) ==
    /\ i \in stored \ told /\ S \subseteq stored
    /\ temporary' \in {temporary, temporary \cup {i}}
    /\ told' = told \cup S
    /\ UNCHANGED <<stored, used>>

\* A product is created with the images S.
Use(S) == used' = used \cup S /\ UNCHANGED <<stored, temporary, told>>

TakeOff(i) ==
    /\ i \in used
    /\ temporary' = temporary \ {i}
    /\ UNCHANGED <<stored, told, used>>

LifeNext ==
    \/ \E i \in Images : Store(i) \/ TakeOff(i)
    \/ \E i \in Images, S \in SUBSET Images : List(i, S)
    \/ \E S \in SUBSET Images : Use(S)

LifeSpec == LifeInit /\ [][LifeNext]_lifeVars
=============================================================================
