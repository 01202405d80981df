----------------------------- MODULE SharedLog ------------------------------
(***************************************************************************)
(* What the shared log promises its users, whatever replicas, consensus    *)
(* log and shards do: an append takes its place in one log at a moment     *)
(* between its call and its return, and a reader is handed that log in     *)
(* order, each entry once.                                                 *)
(***************************************************************************)
EXTENDS Sequences, Naturals

CONSTANTS
    Clients,      \* who appends, one call at a time
    Entries       \* what they append

VARIABLES
    log,          \* the entries, in the order of their indexes
    calls,        \* of each client: the entry it is appending, or none
    delivered     \* the entries handed to the reader

None == <<>>

Init ==
    /\ log = <<>>
    /\ calls = [c \in Clients |-> None]
    /\ delivered = <<>>

Call(c) ==
    /\ calls[c] = None
    /\ \E e \in Entries : calls' = [calls EXCEPT ![c] = <<"called", e>>]
    /\ UNCHANGED <<log, delivered>>

TakePlace(c) ==
    /\ calls[c] # None /\ calls[c][1] = "called"
    /\ log' = Append(log, calls[c][2])
    /\ calls' = [calls EXCEPT ![c] = <<"placed", calls[c][2]>>]
    /\ UNCHANGED delivered

Return(c) ==
    /\ calls[c] # None /\ calls[c][1] = "placed"
    /\ calls' = [calls EXCEPT ![c] = None]
    /\ UNCHANGED <<log, delivered>>

Deliver ==
    /\ Len(delivered) < Len(log)
    /\ delivered' = Append(delivered, log[Len(delivered) + 1])
    /\ UNCHANGED <<log, calls>>

Next == (\E c \in Clients : Call(c) \/ TakePlace(c) \/ Return(c)) \/ Deliver

Spec == Init /\ [][Next]_<<log, calls, delivered>>

=============================================================================
