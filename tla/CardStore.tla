----------------------------- MODULE CardStore -----------------------------
(***************************************************************************)
(* What the memory card of slot 1 promises, without files: the card in the *)
(* slot (mem) and the card on the shelf (store).  A write changes the card *)
(* in the slot; a save copies all of it, at once, to the shelf; after a    *)
(* restart the card in the slot is the one on the shelf.  A loss of power  *)
(* may bring back an earlier card (past), never a mixture of two.          *)
(***************************************************************************)
CONSTANTS Sectors, Contents, Blank, NoCard, Foreign

Images == [Sectors -> Contents]

VARIABLES mem, store, past

svars == <<mem, store, past>>

Init == /\ store \in Images \cup {NoCard, Foreign}
        /\ mem = NoCard /\ past = {store}

(* The card on the shelf, or a formatted one if there is none, is inserted;*)
(* what is not a card (Foreign) stays where it is.                         *)
Insert == /\ mem = NoCard /\ store # Foreign
          /\ mem' = IF store = NoCard THEN [s \in Sectors |-> Blank] ELSE store
          /\ UNCHANGED <<store, past>>

Write(s, c) == /\ mem # NoCard
               /\ mem' = [mem EXCEPT ![s] = c]
               /\ UNCHANGED <<store, past>>

Save == /\ mem # NoCard
        /\ store' = mem
        /\ past' = past \cup {mem}
        /\ UNCHANGED mem

Remove == mem' = NoCard /\ UNCHANGED <<store, past>>

(* The older cards can no longer come back.                                *)
Settle == past' = {store} /\ UNCHANGED <<mem, store>>

PowerLoss == /\ mem' = NoCard
             /\ store' \in past
             /\ past' = {store'}

Next == \/ Insert \/ Save \/ Remove \/ Settle \/ PowerLoss
        \/ \E s \in Sectors, c \in Contents : Write(s, c)

Spec == Init /\ [][Next]_svars
=============================================================================
