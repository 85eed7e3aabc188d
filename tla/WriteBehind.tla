---------------------------- MODULE WriteBehind -----------------------------
(***************************************************************************)
(* What Hive's boxes and SharedPreferences promise, apart from what is     *)
(* kept in them: the memory changes at the call, the device follows in the *)
(* order of the calls, and a crash loses the writes it has not come to.    *)
(*                                                                         *)
(* Wishlist is shown to implement this.                                    *)
(***************************************************************************)
EXTENDS Naturals, Sequences

CONSTANTS
    Key,     \* what is written separately: objects of a box, preferences
    Value    \* what may be written

VARIABLES
    mem,     \* mem[k]: the value that the app reads
    device,  \* device[k]: the value that a restart finds
    log      \* the writes on their way, oldest first

storeVars == <<mem, device, log>>

Entry == [key : Key, val : Value]

\* A write of k is among ws.
In(k, ws) == \E n \in DOMAIN ws : ws[n].key = k

\* ws[n] is the last entry of ws for its key.
IsLast(n, ws) == \A m \in DOMAIN ws : m > n => ws[m].key # ws[n].key

Init ==
    /\ mem \in [Key -> Value]
    /\ device = mem
    /\ log = <<>>

\* One handler: it may write several keys, or one key more than once.
Call(ws) ==
    /\ ws \in Seq(Entry) /\ ws # <<>>
    /\ log' = log \o ws
    /\ mem' \in [Key -> Value]
    /\ \A n \in DOMAIN ws : IsLast(n, ws) => mem'[ws[n].key] = ws[n].val
    /\ \A k \in Key : ~In(k, ws) => mem'[k] = mem[k]
    /\ UNCHANGED device

\* The oldest write is done.  A key that will be written again may pass
\* through any value: Hive encodes an object when its turn comes.
Flush ==
    /\ log # <<>>
    /\ log' = Tail(log)
    /\ device' \in [Key -> Value]
    /\ \A k \in Key : k # Head(log).key => device'[k] = device[k]
    /\ ~In(Head(log).key, log') => device'[Head(log).key] = Head(log).val
    /\ UNCHANGED mem

\* The process dies and the app is started again.
Crash ==
    /\ mem' = device
    /\ log' = <<>>
    /\ UNCHANGED device

Next ==
    \/ Call(SubSeq(log', Len(log) + 1, Len(log')))
    \/ Flush
    \/ Crash

Spec == Init /\ [][Next]_storeVars

\* A key that no pending write is for is on the device as the app reads it.
Durable == \A k \in Key : ~In(k, log) => device[k] = mem[k]
=============================================================================
