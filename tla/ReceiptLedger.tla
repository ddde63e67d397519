--------------------------- MODULE ReceiptLedger ---------------------------
(***************************************************************************)
(* What a mesh of kited daemons promises, seen from the callers of          *)
(* submit_intent and from the receipt stores: each conversation is asked   *)
(* for once, its task runs at most once, and the answers and the rows on   *)
(* disk can be trusted whatever daemons stop in between.                   *)
(***************************************************************************)
EXTENDS Naturals

CONSTANT Conv               \* conversation ids

VARIABLES
    ask,                    \* ask[c]: what the caller of c has been told
    runs,                   \* runs[c]: how often c's task was executed
    requester_rows,         \* conversations with a row at the requester
    provider_rows           \* conversations with a row at the provider

ledger == <<ask, runs, requester_rows, provider_rows>>
-----------------------------------------------------------------------------
Init ==
    /\ ask = [c \in Conv |-> "unsent"]
    /\ runs = [c \in Conv |-> 0]
    /\ requester_rows = {}
    /\ provider_rows = {}

Submit(c) ==
    /\ ask[c] = "unsent"
    /\ ask' = [ask EXCEPT ![c] = "waiting"]
    /\ UNCHANGED <<runs, requester_rows, provider_rows>>

\* The provider may run the task of a caller that is gone.
Execute(c) ==
    /\ ask[c] \in {"waiting", "dropped"}
    /\ runs[c] = 0
    /\ runs' = [runs EXCEPT ![c] = 1]
    /\ UNCHANGED <<ask, requester_rows, provider_rows>>

RecordProvider(c) ==
    /\ runs[c] = 1
    /\ provider_rows' = provider_rows \cup {c}
    /\ UNCHANGED <<ask, runs, requester_rows>>

\* The outcome and the requester's row appear together.
Complete(c) ==
    /\ ask[c] = "waiting"
    /\ runs[c] = 1
    /\ ask' = [ask EXCEPT ![c] = "ok"]
    /\ requester_rows' = requester_rows \cup {c}
    /\ UNCHANGED <<runs, provider_rows>>

NoMatch(c) ==
    /\ ask[c] = "waiting"
    /\ runs[c] = 0
    /\ ask' = [ask EXCEPT ![c] = "no_match"]
    /\ UNCHANGED <<runs, requester_rows, provider_rows>>

\* A daemon stops: the callers D lose their answer, and the row being written
\* is kept or not, at the requester (R) or at the provider (P).
Halt(D, R, P) ==
    /\ \A c \in D : ask[c] = "waiting"
    /\ R \subseteq D
    /\ \A c \in R \cup P : runs[c] = 1
    /\ ask' = [c \in Conv |-> IF c \in D THEN "dropped" ELSE ask[c]]
    /\ requester_rows' = requester_rows \cup R
    /\ provider_rows' = provider_rows \cup P
    /\ UNCHANGED runs

Next ==
    \/ \E c \in Conv : \/ Submit(c) \/ Execute(c) \/ RecordProvider(c)
                       \/ Complete(c) \/ NoMatch(c)
    \/ \E D, R, P \in SUBSET Conv : Halt(D, R, P)

Spec == Init /\ [][Next]_ledger
-----------------------------------------------------------------------------
\* An answer can be trusted: an outcome has its row on disk and an execution
\* behind it, "no matching capability" was said of a task that never ran, and
\* a row of either side stands for one execution.
Trustworthy ==
    /\ \A c \in Conv :
          /\ ask[c] = "ok" => c \in requester_rows
          /\ ask[c] = "no_match" => runs[c] = 0
    /\ \A c \in requester_rows \cup provider_rows : runs[c] = 1
=============================================================================
