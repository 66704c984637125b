---------------------------- MODULE AtomicStore -----------------------------
(***************************************************************************)
(* What DataStore::insert promises to the logger: a batch enters the table *)
(* whole or not at all, batches enter in the order of the calls, insert    *)
(* returns true only for a batch that is in the table and false only for   *)
(* one that is not, and what is in the table stays there.                  *)
(***************************************************************************)
EXTENDS Naturals, Sequences

CONSTANT Size   \* the b-th batch has Size[b] records

Batches == 1 .. Len(Size)

VARIABLES
  committed,  \* the table: rows in order of id
  latest,     \* the last batch the logger handed over
  acked,      \* batches whose insert returned true
  refused     \* batches whose insert returned false

storeVars == <<committed, latest, acked, refused>>

RowsOf(b) == [k \in 1 .. Size[b] |-> [batch |-> b, part |-> k]]

Stored(b) == \E i \in 1 .. Len(committed) : committed[i].batch = b

Init ==
  /\ committed = << >>
  /\ latest = 0
  /\ acked = {}
  /\ refused = {}

Call ==
  /\ latest + 1 \in Batches
  /\ latest' = latest + 1
  /\ UNCHANGED <<committed, acked, refused>>

Store ==
  /\ latest \in Batches \ refused
  /\ ~Stored(latest)
  /\ committed' = committed \o RowsOf(latest)
  /\ UNCHANGED <<latest, acked, refused>>

Acknowledge ==
  /\ Stored(latest)
  /\ acked' = acked \union {latest}
  /\ UNCHANGED <<committed, latest, refused>>

Refuse ==
  /\ latest \in Batches /\ ~Stored(latest)
  /\ refused' = refused \union {latest}
  /\ UNCHANGED <<committed, latest, acked>>

Next == Call \/ Store \/ Acknowledge \/ Refuse

Spec == Init /\ [][Next]_storeVars
=============================================================================
