---------------------------- MODULE ObjectStore ----------------------------
(* What the guest heap promises the program that calls it, without addresses, *)
(* blocks or headers: a store of named objects.  An object put into the store *)
(* has the length asked for, when that is one the store honours; its owner    *)
(* fills it, and finds its contents unchanged until it resizes it or drops    *)
(* it, whatever becomes of the others.  A resized object keeps what it had up *)
(* to the shorter length.  A call the store refuses changes nothing.          *)
EXTENDS Integers

CONSTANTS
  Objects,      \* the names of what is stored
  Requests,     \* the lengths that may be asked for
  Honoured      \* the requests the store means; any other gets nothing

VARIABLES
  held,         \* the objects in the store
  text          \* object -> its contents, one value for each place

svars == <<held, text>>

Places(n) == IF n \in Honoured THEN 0 .. n - 1 ELSE {}
Blank == [i \in {} |-> 0]

StoreInit ==
  /\ held = {}
  /\ text = [o \in Objects |-> Blank]

Put(o, n) ==
  /\ o \notin held
  /\ held' = held \cup {o}
  /\ text' = [text EXCEPT ![o] = [i \in Places(n) |-> o]]

Resize(o, n) ==
  /\ o \in held
  /\ held' = held
  /\ text' = [text EXCEPT ![o] =
       [i \in Places(n) |-> IF i \in DOMAIN text[o] THEN text[o][i] ELSE o]]

Drop(o) ==
  /\ o \in held
  /\ held' = held \ {o}
  /\ text' = [text EXCEPT ![o] = Blank]

StoreNext ==
  \/ \E o \in Objects, n \in Requests : Put(o, n) \/ Resize(o, n)
  \/ \E o \in Objects : Drop(o)

StoreSpec == StoreInit /\ [][StoreNext]_svars
=============================================================================
