------------------------- MODULE WriteBehindProofs --------------------------
(***************************************************************************)
(* What a write-behind store owes its users, for any keys and values.      *)
(***************************************************************************)
EXTENDS WriteBehind, TLAPS

StoreTypes ==
    /\ mem \in [Key -> Value]
    /\ device \in [Key -> Value]
    /\ log \in Seq(Entry)

\* The last pending write of a key is of the value that the app reads: this is
\* what makes Durable inductive, for Flush moves that value to the device.
Heading == \A n \in DOMAIN log : IsLast(n, log) => log[n].val = mem[log[n].key]

StoreInv == StoreTypes /\ Durable /\ Heading

\* The entries of a longer log: those of the old one, then the new ones.
LEMMA Appended ==
    ASSUME NEW old \in Seq(Entry), NEW ws \in Seq(Entry)
    PROVE  /\ old \o ws \in Seq(Entry)
           /\ DOMAIN (old \o ws) = 1 .. (Len(old) + Len(ws))
           /\ \A n \in DOMAIN old : (old \o ws)[n] = old[n] /\ old[n] \in Entry
           /\ \A n \in DOMAIN ws : (old \o ws)[Len(old) + n] = ws[n]
           /\ DOMAIN old = 1 .. Len(old) /\ DOMAIN ws = 1 .. Len(ws)
           /\ Len(old) \in Nat /\ Len(ws) \in Nat
OBVIOUS

\* The entries of a log without its first one.
LEMMA Rest ==
    ASSUME NEW ws \in Seq(Entry), ws # <<>>
    PROVE  /\ Tail(ws) \in Seq(Entry)
           /\ Head(ws) = ws[1] /\ ws[1] \in Entry
           /\ DOMAIN ws = 1 .. Len(ws) /\ Len(ws) \in Nat \ {0}
           /\ DOMAIN Tail(ws) = 1 .. (Len(ws) - 1)
           /\ \A n \in DOMAIN Tail(ws) : Tail(ws)[n] = ws[n + 1]
OBVIOUS

\* A handler's writes are pending, its memory agrees with the last of them.
LEMMA CallKeeps ==
    ASSUME StoreInv, NEW ws, Call(ws)
    PROVE  StoreInv'
<1>1. /\ ws \in Seq(Entry) /\ log \in Seq(Entry) /\ log' = log \o ws
      /\ device' = device
  BY DEF StoreInv, StoreTypes, Call
<1>2. StoreTypes'
  BY <1>1, Appended DEF StoreInv, StoreTypes, Call
<1>3. \A k : In(k, log) \/ In(k, ws) => In(k, log')
  <2>1. ASSUME NEW n \in DOMAIN log PROVE n \in DOMAIN log' /\ log'[n] = log[n]
    BY <1>1, <2>1, Appended
  <2>2. ASSUME NEW n \in DOMAIN ws
        PROVE  Len(log) + n \in DOMAIN log' /\ log'[Len(log) + n] = ws[n]
    BY <1>1, <2>2, Appended
  <2> QED BY <2>1, <2>2 DEF In
<1>4. Durable'
  BY <1>1, <1>3 DEF StoreInv, Durable, Call
<1>5. ASSUME NEW n \in DOMAIN log', IsLast(n, log')
      PROVE  log'[n].val = mem'[log'[n].key]
  <2>1. CASE n \in DOMAIN log
    <3>1. log'[n] = log[n]
      BY <1>1, <2>1, Appended
    <3>2. log[n].key \in Key
      <4>1. log[n] \in Entry
        BY <1>1, <2>1, Appended
      <4> QED BY <4>1 DEF Entry
    <3>3. IsLast(n, log)
      <4>1. ASSUME NEW m \in DOMAIN log, m > n
            PROVE  log[m].key # log[n].key
        <5>1. m \in DOMAIN log' /\ log'[m] = log[m]
          BY <1>1, <4>1, Appended
        <5> QED BY <5>1, <4>1, <3>1, <1>5 DEF IsLast
      <4> QED BY <4>1 DEF IsLast
    <3>4. ~In(log[n].key, ws)
      <4>1. ASSUME NEW m \in DOMAIN ws PROVE ws[m].key # log[n].key
        <5>1. Len(log) + m \in DOMAIN log' /\ Len(log) + m > n
          BY <1>1, <2>1, <4>1, Appended
        <5>2. log'[Len(log) + m] = ws[m]
          BY <1>1, <4>1, Appended
        <5> QED BY <5>1, <5>2, <3>1, <1>5 DEF IsLast
      <4> QED BY <4>1 DEF In
    <3> QED BY <3>1, <3>2, <3>3, <3>4, <2>1 DEF StoreInv, Heading, Call
  <2>2. CASE n \notin DOMAIN log
    <3>1. PICK m \in DOMAIN ws : n = Len(log) + m
      <4>1. /\ n \in 1 .. (Len(log) + Len(ws)) /\ n \notin 1 .. Len(log)
            /\ Len(log) \in Nat /\ Len(ws) \in Nat /\ DOMAIN ws = 1 .. Len(ws)
        BY <1>1, <1>5, <2>2, Appended
      <4>2. n - Len(log) \in DOMAIN ws /\ n = Len(log) + (n - Len(log))
        BY ONLY <4>1
      <4> QED BY <4>2
    <3>2. log'[n] = ws[m]
      BY <1>1, <3>1, Appended
    <3>3. ASSUME NEW l \in DOMAIN ws, l > m PROVE ws[l].key # ws[m].key
      <4>1. /\ Len(log) + l \in DOMAIN log' /\ Len(log) + l > n
            /\ log'[Len(log) + l] = ws[l]
        BY <1>1, <3>1, <3>3, Appended
      <4> QED BY <4>1, <3>2, <1>5 DEF IsLast
    <3> QED BY <3>2, <3>3 DEF IsLast, Call
  <2> QED BY <2>1, <2>2
<1> QED BY <1>2, <1>4, <1>5 DEF StoreInv, Heading

\* The device takes the oldest write.
LEMMA FlushKeeps ==
    ASSUME StoreInv, Flush
    PROVE  StoreInv'
<1> DEFINE h == Head(log).key
<1>1. /\ log \in Seq(Entry) /\ log # <<>> /\ log' = Tail(log) /\ mem' = mem
      /\ device' \in [Key -> Value]
  BY DEF StoreInv, StoreTypes, Flush
<1>2. StoreTypes'
  BY <1>1, Rest DEF StoreInv, StoreTypes
<1>3. ASSUME NEW k \in Key, ~In(k, log') PROVE device'[k] = mem'[k]
  <2>1. ASSUME NEW n \in DOMAIN log, n # 1 PROVE log[n].key # k
    <3>1. n - 1 \in DOMAIN log' /\ log'[n - 1] = log[n]
      BY <1>1, <2>1, Rest
    <3> QED BY <3>1, <1>3 DEF In
  <2>2. CASE k = h
    <3>1. 1 \in DOMAIN log /\ log[1].key = k
      BY <1>1, <2>2, Rest
    <3>2. IsLast(1, log)
      BY <2>1, <3>1 DEF IsLast
    <3>3. log[1].val = mem[k]
      BY <3>1, <3>2 DEF StoreInv, Heading
    <3>4. device'[k] = Head(log).val
      BY <1>3, <2>2 DEF Flush
    <3> QED BY <3>3, <3>4, <1>1, Rest
  <2>3. CASE k # h
    <3>1. ~In(k, log)
      BY <2>1, <2>3, <1>1, Rest DEF In
    <3> QED BY <3>1, <2>3, <1>1 DEF StoreInv, Durable, Flush
  <2> QED BY <2>2, <2>3
<1>4. ASSUME NEW n \in DOMAIN log', IsLast(n, log')
      PROVE  log'[n].val = mem'[log'[n].key]
  <2>1. n + 1 \in DOMAIN log /\ log'[n] = log[n + 1] /\ n \in Nat
    BY <1>1, <1>4, Rest
  <2>2. ASSUME NEW m \in DOMAIN log, m > n + 1
        PROVE  log[m].key # log[n + 1].key
    <3>1. m - 1 \in DOMAIN log' /\ m - 1 > n /\ log'[m - 1] = log[m]
      BY <1>1, <2>1, <2>2, Rest
    <3> QED BY <3>1, <2>1, <1>4 DEF IsLast
  <2> QED BY <2>1, <2>2, <1>1 DEF IsLast, StoreInv, Heading
<1> QED BY <1>2, <1>3, <1>4 DEF StoreInv, Durable, Heading

\* After a crash nothing is pending and the app reads the device.
LEMMA CrashKeeps ==
    ASSUME StoreInv, Crash
    PROVE  StoreInv'
BY DEF StoreInv, StoreTypes, Durable, Heading, IsLast, Crash

\* A value whose write has returned survives every crash: for any keys, any
\* values and any number of pending writes, what no write is under way for is
\* on the device as the app has it.
THEOREM StoreDurable == Spec => []Durable
<1>1. Init => StoreInv
  BY DEF Init, StoreInv, StoreTypes, Durable, Heading, IsLast
<1>2. StoreInv /\ [Next]_storeVars => StoreInv'
  <2> SUFFICES ASSUME StoreInv, [Next]_storeVars PROVE StoreInv'
    OBVIOUS
  <2>1. CASE Call(SubSeq(log', Len(log) + 1, Len(log')))
    BY <2>1, CallKeeps
  <2>2. CASE Flush
    BY <2>2, FlushKeeps
  <2>3. CASE Crash
    BY <2>3, CrashKeeps
  <2>4. CASE UNCHANGED storeVars
    BY <2>4 DEF storeVars, StoreInv, StoreTypes, Durable, Heading, IsLast, In
  <2> QED BY <2>1, <2>2, <2>3, <2>4 DEF Next
<1>3. StoreInv => Durable
  BY DEF StoreInv
<1> QED BY <1>1, <1>2, <1>3, PTL DEF Spec
=============================================================================
