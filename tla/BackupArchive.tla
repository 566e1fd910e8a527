---------------------------- MODULE BackupArchive ---------------------------
(***************************************************************************)
(* The NATSARC1 stream archive as package backup sees it: a sequence of    *)
(* entries, each a header and a body.  What the decoder must accept is     *)
(* stated here without reference to how it decides.                        *)
(***************************************************************************)
EXTENDS Integers, Sequences

CONSTANT MaxSeq   \* the largest value of an unsigned sequence number

ASSUME MaxSeqAssumption == MaxSeq \in Nat \ {0}

Sequence == 0 .. MaxSeq

\* x - 1 on unsigned integers.
Pred(x) == IF x = 0 THEN MaxSeq ELSE x - 1

(* A header's name is state.json, consumers/<name> or a subject; zero says  *)
(* that its timestamp and sizes are all 0; ok that its body can be read and *)
(* parsed as what the name promises.  first and consumers are first_seq and *)
(* consumer_count of a state.json body, msgs the message total it declares. *)
Entry == [name : {"state", "consumer", "subject"}, seq : Sequence, zero : BOOLEAN,
          ok : BOOLEAN, first : Sequence, consumers : Int, msgs : Sequence]

StateEntry(first, consumers, msgs) ==
    [name |-> "state", seq |-> 0, zero |-> FALSE, ok |-> TRUE,
     first |-> first, consumers |-> consumers, msgs |-> msgs]

ConsumerEntry ==
    [name |-> "consumer", seq |-> 0, zero |-> FALSE, ok |-> TRUE,
     first |-> 0, consumers |-> 0, msgs |-> 0]

MessageEntry(seq) ==
    [name |-> "subject", seq |-> seq, zero |-> FALSE, ok |-> TRUE,
     first |-> 0, consumers |-> 0, msgs |-> 0]

Sentinel ==
    [name |-> "subject", seq |-> 0, zero |-> TRUE, ok |-> TRUE,
     first |-> 0, consumers |-> 0, msgs |-> 0]

IsState(e)    == e.name = "state" /\ e.ok /\ e.consumers >= 0
IsConsumer(e) == e.name = "consumer" /\ e.ok
IsMessage(e)  == e.seq # 0
IsEnd(e)      == e.seq = 0 /\ e.zero

\* The entries of the archive a that hold its messages, when it ends at n.
MessageRange(a, n) == a[1].consumers + 2 .. n - 1

(* What a restore relies on: state.json first, exactly consumer_count       *)
(* consumers, message sequences that ascend strictly from first_seq, and    *)
(* the sentinel.  Whatever follows the sentinel is not read.                *)
RestorableAt(a, n) ==
    /\ n \in 2 .. Len(a)
    /\ IsState(a[1])
    /\ a[1].consumers + 2 <= n
    /\ \A i \in 2 .. a[1].consumers + 1 : IsConsumer(a[i])
    /\ \A i \in MessageRange(a, n) :
          /\ IsMessage(a[i])
          /\ a[1].first > 0
          /\ a[i].seq >= a[1].first
    /\ \A i, j \in MessageRange(a, n) : i < j => a[i].seq < a[j].seq
    /\ IsEnd(a[n])

Restorable(a) == \E n \in DOMAIN a : RestorableAt(a, n)
=============================================================================
