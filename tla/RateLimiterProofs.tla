------------------------- MODULE RateLimiterProofs -------------------------
(***************************************************************************)
(* The limiter's guarantees for every number of keys, window and limit.    *)
(* The records of a key are the accepted requests less a prefix that is    *)
(* out of the window (Suffix); with the order of the accepted times        *)
(* (Ordered) this is inductive and gives both directions of the limit.     *)
(***************************************************************************)
EXTENDS RateLimiter, TLAPS

\* The accepted times of a key do not decrease and are not in the future.
Ordered(k) ==
  /\ \A i \in 1..Len(accepted[k]) : accepted[k][i] <= now
  /\ \A i, j \in 1..Len(accepted[k]) :
       i <= j => accepted[k][i] <= accepted[k][j]

\* The records of k are its accepted times from n + 1 on.
From(k, n) ==
  /\ Len(records[k]) = Len(accepted[k]) - n
  /\ \A i \in 1..Len(records[k]) : records[k][i] = accepted[k][n + i]

\* The first n accepted times of k are out of the window.
Gone(k, n) == \A i \in 1..n : accepted[k][i] < now - Window

Suffix(k) == \E n \in 0..Len(accepted[k]) : From(k, n) /\ Gone(k, n)

LimiterInv ==
  /\ TypeOK
  /\ \A k \in Key : Ordered(k)
  /\ \A k \in Key : Suffix(k)
  /\ WindowNeverExceeded
  /\ EntriesCanBeCleaned

-----------------------------------------------------------------------------
(* What Live and Append do to a sequence of times. *)

\* Dropping n records leaves the others in order.
LEMMA LiveFacts ==
  ASSUME NEW recs \in Seq(Nat), NEW n \in 0..Len(recs)
  PROVE  /\ Live(recs, n) \in Seq(Nat)
         /\ Len(Live(recs, n)) = Len(recs) - n
         /\ \A i \in 1..(Len(recs) - n) : Live(recs, n)[i] = recs[n + i]
  BY DEF Live

\* Recording a time adds it behind the others.
LEMMA AppendFacts ==
  ASSUME NEW recs \in Seq(Nat), NEW t \in Nat
  PROVE  /\ Append(recs, t) \in Seq(Nat)
         /\ Len(Append(recs, t)) = Len(recs) + 1
         /\ \A i \in 1..Len(recs) : Append(recs, t)[i] = recs[i]
         /\ Append(recs, t)[Len(recs) + 1] = t
  OBVIOUS

\* The state before any request satisfies the invariant.
LEMMA InitInv == Init => LimiterInv
<1> SUFFICES ASSUME Init PROVE LimiterInv
  OBVIOUS
<1>1. /\ \A k \in Key : records[k] = <<>> /\ accepted[k] = <<>>
      /\ TypeOK /\ EntriesCanBeCleaned
  BY DEF Init, TypeOK, EntriesCanBeCleaned
<1>2. \A k \in Key : Ordered(k)
  <2> TAKE k \in Key
  <2>1. 1..Len(accepted[k]) = {}
    BY <1>1
  <2> QED BY <2>1 DEF Ordered
<1>3. \A k \in Key : Suffix(k)
  <2> TAKE k \in Key
  <2>1. From(k, 0) /\ Gone(k, 0) /\ 0 \in 0..Len(accepted[k])
    BY <1>1 DEF From, Gone
  <2> QED BY <2>1 DEF Suffix
<1>4. WindowNeverExceeded
  BY <1>1 DEF WindowNeverExceeded
<1> QED BY <1>1, <1>2, <1>3, <1>4 DEF LimiterInv

-----------------------------------------------------------------------------
\* Dropping the expired head of a key's records keeps Suffix: what the loop of
\* Allow drops is out of the window too.
LEMMA DropKeepsSuffix ==
  ASSUME LimiterInv, NEW k \in Key, NEW n \in 0..Len(records[k]),
         Expired(records[k], n, now - Window)
  PROVE  \E m \in 0..Len(accepted[k]) :
           /\ Gone(k, m)
           /\ Len(Live(records[k], n)) = Len(accepted[k]) - m
           /\ \A i \in 1..Len(Live(records[k], n)) :
                Live(records[k], n)[i] = accepted[k][m + i]
           /\ m < Len(accepted[k]) => accepted[k][m + 1] >= now - Window
<1> USE LimiterAssumption
<1>0. /\ now \in Nat /\ records[k] \in Seq(Nat) /\ accepted[k] \in Seq(Nat)
      /\ Len(records[k]) \in Nat /\ Len(accepted[k]) \in Nat
  BY DEF LimiterInv, TypeOK
<1>1. PICK p \in 0..Len(accepted[k]) : From(k, p) /\ Gone(k, p)
  BY DEF LimiterInv, Suffix
<1> DEFINE m == p + n
<1>2. m \in 0..Len(accepted[k]) /\ Len(records[k]) = Len(accepted[k]) - p
  BY <1>0, <1>1 DEF From
<1>3. Len(Live(records[k], n)) = Len(accepted[k]) - m
  <2>1. Len(Live(records[k], n)) = Len(records[k]) - n
    BY <1>0, LiveFacts
  <2> QED BY <1>0, <1>2, <2>1
<1>4. Gone(k, m)
  <2> SUFFICES ASSUME NEW i \in 1..m PROVE accepted[k][i] < now - Window
    BY DEF Gone
  <2>1. CASE i <= p
    BY <1>1, <2>1 DEF Gone
  <2>2. CASE i > p
    <3>1. i - p \in 1..n /\ i - p \in 1..Len(records[k])
      BY <1>0, <2>2
    <3>2. records[k][i - p] < now - Window
      BY <3>1 DEF Expired
    <3>3. records[k][i - p] = accepted[k][p + (i - p)]
      BY <1>1, <3>1 DEF From
    <3>4. p + (i - p) = i
      OBVIOUS
    <3> QED BY <3>2, <3>3, <3>4
  <2> QED BY <2>1, <2>2
<1>5. \A i \in 1..Len(Live(records[k], n)) :
        Live(records[k], n)[i] = accepted[k][m + i]
  <2> SUFFICES ASSUME NEW i \in 1..Len(Live(records[k], n))
               PROVE  Live(records[k], n)[i] = accepted[k][m + i]
    OBVIOUS
  <2>1. i \in 1..(Len(records[k]) - n) /\ n + i \in 1..Len(records[k])
    BY <1>0, <1>2, <1>3
  <2>2. Live(records[k], n)[i] = records[k][n + i]
    BY <1>0, <2>1, LiveFacts
  <2>3. records[k][n + i] = accepted[k][p + (n + i)] /\ p + (n + i) = m + i
    BY <1>1, <2>1 DEF From
  <2> QED BY <2>2, <2>3
<1>6. m < Len(accepted[k]) => accepted[k][m + 1] >= now - Window
  <2> SUFFICES ASSUME m < Len(accepted[k])
               PROVE  accepted[k][m + 1] >= now - Window
    OBVIOUS
  <2>1. n < Len(records[k]) /\ n + 1 \in 1..Len(records[k])
    BY <1>0, <1>2
  <2>2. records[k][n + 1] >= now - Window
    BY <2>1 DEF Expired
  <2>3. records[k][n + 1] = accepted[k][p + (n + 1)] /\ p + (n + 1) = m + 1
    BY <1>1, <2>1 DEF From
  <2> QED BY <2>2, <2>3
<1> QED BY <1>2, <1>3, <1>4, <1>5, <1>6

\* Under the invariant a refused request finds the window full.
LEMMA RefusalIsDue == LimiterInv => RefusedOnlyWhenFull
<1> USE LimiterAssumption
<1> SUFFICES ASSUME LimiterInv, NEW k \in Key, NEW n \in 0..Len(records[k]),
                    Expired(records[k], n, now - Window),
                    Full(Live(records[k], n))
             PROVE  /\ Len(accepted[k]) >= MaxRequests
                    /\ accepted[k][Len(accepted[k]) - MaxRequests + 1]
                         >= now - Window
  BY DEF RefusedOnlyWhenFull
<1>0. /\ now \in Nat /\ accepted[k] \in Seq(Nat) /\ Len(accepted[k]) \in Nat
      /\ \A i \in 1..Len(accepted[k]) : accepted[k][i] \in Nat
  BY DEF LimiterInv, TypeOK
<1>1. PICK m \in 0..Len(accepted[k]) :
        /\ Len(Live(records[k], n)) = Len(accepted[k]) - m
        /\ m < Len(accepted[k]) => accepted[k][m + 1] >= now - Window
  BY DropKeepsSuffix
<1> DEFINE first == Len(accepted[k]) - MaxRequests + 1
<1>2. /\ Len(accepted[k]) - m >= MaxRequests
      /\ m < Len(accepted[k]) /\ m + 1 <= first
      /\ m + 1 \in 1..Len(accepted[k]) /\ first \in 1..Len(accepted[k])
  BY <1>0, <1>1 DEF Full
<1>3. accepted[k][m + 1] <= accepted[k][first]
  BY <1>2 DEF LimiterInv, Ordered
<1>4. accepted[k][m + 1] \in Nat /\ accepted[k][first] \in Nat
  BY <1>0, <1>2
<1>5. accepted[k][first] >= now - Window
  <2> HIDE DEF first
  <2>1. accepted[k][m + 1] >= now - Window /\ now - Window \in Int
    BY <1>0, <1>1, <1>2
  <2> QED BY <1>3, <1>4, <2>1
<1>6. Len(accepted[k]) >= MaxRequests
  BY <1>0, <1>2
<1> QED BY <1>5, <1>6

-----------------------------------------------------------------------------
\* Where an index of the rebuilt record falls in the history: among the kept
\* entries, or at the entry the request appended (rate_limiter.go:42-55).
LEMMA IndexShift ==
  ASSUME NEW l \in Nat, NEW h \in Nat, NEW m \in 0..h, l = h - m,
         NEW i \in 1..(l + 1)
  PROVE  \/ i \in 1..l /\ m + i \in 1..h
         \/ i = l + 1 /\ m + i = h + 1
OBVIOUS

\* Every step of the limiter and of the clock keeps the invariant.
LEMMA NextInv == LimiterInv /\ [Next]_vars => LimiterInv'
<1> USE LimiterAssumption
<1> SUFFICES ASSUME LimiterInv, [Next]_vars PROVE LimiterInv'
  OBVIOUS
<1>0. /\ now \in Nat /\ known \subseteq Key
      /\ \A k \in Key : records[k] \in Seq(Nat) /\ accepted[k] \in Seq(Nat)
      /\ \A k \in Key : Len(records[k]) \in Nat /\ Len(accepted[k]) \in Nat
      /\ \A k \in Key : \A i \in 1..Len(accepted[k]) : accepted[k][i] \in Nat
  BY DEF LimiterInv, TypeOK
<1>1. CASE Tick
  <2>1. TypeOK' /\ WindowNeverExceeded' /\ EntriesCanBeCleaned'
    BY <1>0, <1>1 DEF Tick, LimiterInv, TypeOK, WindowNeverExceeded,
                      EntriesCanBeCleaned
  <2>2. \A k \in Key : Ordered(k)'
    BY <1>0, <1>1 DEF Tick, LimiterInv, Ordered
  <2>3. \A k \in Key : Suffix(k)'
    <3> TAKE k \in Key
    <3>1. PICK n \in 0..Len(accepted[k]) : From(k, n) /\ Gone(k, n)
      BY DEF LimiterInv, Suffix
    <3>2. From(k, n)' /\ Gone(k, n)' /\ n \in 0..Len(accepted'[k])
      BY <1>0, <1>1, <3>1 DEF Tick, From, Gone
    <3> QED BY <3>2 DEF Suffix
  <2> QED BY <2>1, <2>2, <2>3 DEF LimiterInv
<1>2. ASSUME NEW k \in Key, Allow(k) PROVE LimiterInv'
  <2> USE <1>2
  <2>1. PICK n \in 0..Len(records[k]) :
          /\ Expired(records[k], n, now - Window)
          /\ ~Full(Live(records[k], n))
          /\ known' = known \cup {k}
          /\ records' = [records EXCEPT ![k] =
                           Append(Live(records[k], n), now)]
          /\ accepted' = [accepted EXCEPT ![k] = Append(@, now)]
          /\ now' = now
    BY DEF Allow
  <2> DEFINE live == Live(records[k], n)
             L == Len(accepted[k])
  <2>2. PICK m \in 0..L :
          /\ Gone(k, m) /\ Len(live) = L - m
          /\ \A i \in 1..Len(live) : live[i] = accepted[k][m + i]
    BY <2>1, DropKeepsSuffix
  <2>3. live \in Seq(Nat) /\ Len(live) \in Nat /\ Len(live) < MaxRequests
    BY <1>0, <2>1, <2>2, LiveFacts DEF Full
  <2> HIDE DEF live
  <2>4. /\ records'[k] = Append(live, now) /\ accepted'[k] = Append(accepted[k], now)
        /\ \A q \in Key \ {k} : records'[q] = records[q] /\ accepted'[q] = accepted[q]
    BY <2>1 DEF LimiterInv, TypeOK, live
  <2>5. /\ accepted'[k] \in Seq(Nat) /\ Len(accepted'[k]) = L + 1
        /\ \A i \in 1..L : accepted'[k][i] = accepted[k][i]
        /\ accepted'[k][L + 1] = now
    BY <1>0, <2>4, AppendFacts
  <2>6. /\ records'[k] \in Seq(Nat) /\ Len(records'[k]) = Len(live) + 1
        /\ \A i \in 1..Len(live) : records'[k][i] = live[i]
        /\ records'[k][Len(live) + 1] = now
    BY <1>0, <2>3, <2>4, AppendFacts
  <2>7. TypeOK'
    BY <1>0, <2>1, <2>5, <2>6, <2>3 DEF TypeOK, LimiterInv, live
  <2>8. EntriesCanBeCleaned'
    <3> SUFFICES ASSUME NEW q \in known' PROVE records'[q] # <<>>
      BY DEF EntriesCanBeCleaned
    <3>1. CASE q = k
      BY <2>3, <2>6, <3>1
    <3>2. CASE q # k
      BY <1>0, <2>1, <2>4, <3>2 DEF LimiterInv, EntriesCanBeCleaned
    <3> QED BY <3>1, <3>2
  <2>9. ASSUME NEW q \in Key PROVE Ordered(q)'
    <3>1. CASE q # k
      BY <2>1, <2>4, <2>9, <3>1 DEF LimiterInv, Ordered
    <3>2. CASE q = k
      <4>1. \A i \in 1..L : accepted[k][i] <= now
        BY DEF LimiterInv, Ordered
      <4>2. \A i, j \in 1..L : i <= j => accepted[k][i] <= accepted[k][j]
        BY DEF LimiterInv, Ordered
      <4>3. \A i \in 1..(L + 1) :
              /\ accepted'[k][i] <= now
              /\ i = L + 1 \/ i \in 1..L
        <5> SUFFICES ASSUME NEW i \in 1..(L + 1)
                     PROVE  /\ accepted'[k][i] <= now
                            /\ i = L + 1 \/ i \in 1..L
          OBVIOUS
        <5>1. L \in Nat /\ now <= now
          BY <1>0
        <5>2. i = L + 1 \/ i \in 1..L
          <6> HIDE DEF L
          <6> QED BY <5>1
        <5> QED BY <2>5, <4>1, <5>1, <5>2
      <4>4. ASSUME NEW i \in 1..(L + 1), NEW j \in 1..(L + 1), i <= j
            PROVE  accepted'[k][i] <= accepted'[k][j]
        <5>1. CASE j = L + 1
          BY <2>5, <4>3, <5>1
        <5>2. CASE j # L + 1
          <6>1. j \in 1..L /\ i \in 1..L
            BY <1>0, <4>3, <4>4, <5>2
          <6> QED BY <2>5, <4>2, <4>4, <6>1
        <5> QED BY <5>1, <5>2
      <4> QED BY <2>1, <2>5, <3>2, <4>3, <4>4 DEF Ordered
    <3> QED BY <3>1, <3>2
  <2>10. ASSUME NEW q \in Key PROVE Suffix(q)'
    <3>1. CASE q # k
      <4>1. PICK p \in 0..Len(accepted[q]) : From(q, p) /\ Gone(q, p)
        BY <2>10 DEF LimiterInv, Suffix
      <4>2. From(q, p)' /\ Gone(q, p)' /\ p \in 0..Len(accepted'[q])
        BY <2>1, <2>4, <2>10, <3>1, <4>1 DEF From, Gone
      <4> QED BY <4>2 DEF Suffix
    <3>2. CASE q = k
      <4>1. Gone(k, m)'
        BY <1>0, <2>1, <2>2, <2>5 DEF Gone
      <4>2. From(k, m)'
        <5>1. Len(records'[k]) = Len(accepted'[k]) - m
          BY <1>0, <2>2, <2>5, <2>6
        <5>2. ASSUME NEW i \in 1..Len(records'[k])
              PROVE  records'[k][i] = accepted'[k][m + i]
          <6>0. /\ i \in 1..(Len(live) + 1) /\ L \in Nat /\ Len(live) \in Nat
                /\ Len(live) = L - m
            BY <1>0, <2>2, <2>3, <2>6, <5>2
          <6> HIDE DEF L
          <6>1. \/ i \in 1..Len(live) /\ m + i \in 1..L
                \/ i = Len(live) + 1 /\ m + i = L + 1
            BY ONLY <6>0, IndexShift
          <6>2. CASE i \in 1..Len(live) /\ m + i \in 1..L
            BY <2>2, <2>5, <2>6, <6>2
          <6>3. CASE i = Len(live) + 1 /\ m + i = L + 1
            BY <2>5, <2>6, <6>3
          <6> QED BY <6>1, <6>2, <6>3
        <5> QED BY <5>1, <5>2 DEF From
      <4>3. m \in 0..Len(accepted'[k])
        BY <1>0, <2>5
      <4> QED BY <3>2, <4>1, <4>2, <4>3 DEF Suffix
    <3> QED BY <3>1, <3>2
  <2>11. WindowNeverExceeded'
    <3> SUFFICES ASSUME NEW q \in Key, NEW i \in 1..Len(accepted'[q]),
                        i + MaxRequests <= Len(accepted'[q])
                 PROVE  accepted'[q][i + MaxRequests] - accepted'[q][i] > Window
      BY DEF WindowNeverExceeded
    <3>1. CASE q # k
      BY <2>4, <3>1 DEF LimiterInv, WindowNeverExceeded
    <3>2. CASE q = k /\ i + MaxRequests <= L
      <4>1. i \in 1..L /\ i + MaxRequests \in 1..L
        BY <1>0, <3>2
      <4>2. accepted[k][i + MaxRequests] - accepted[k][i] > Window
        BY <4>1, <3>2 DEF LimiterInv, WindowNeverExceeded
      <4> QED BY <2>5, <3>2, <4>1, <4>2
    <3>3. CASE q = k /\ ~(i + MaxRequests <= L)
      <4>0. L \in Nat /\ i \in 1..(L + 1) /\ i + MaxRequests <= L + 1
        BY <1>0, <2>5, <3>3
      <4>1. i + MaxRequests = L + 1 /\ i \in 1..L /\ i \in 1..m
        <5> HIDE DEF L
        <5> QED BY <2>2, <2>3, <3>3, <4>0
      <4>2. accepted[k][i] < now - Window
        BY <2>2, <4>1 DEF Gone
      <4>3. /\ accepted'[k][i + MaxRequests] = now
            /\ accepted'[k][i] = accepted[k][i] /\ accepted[k][i] \in Nat
        BY <1>0, <2>5, <4>1
      <4> QED BY <1>0, <3>3, <4>2, <4>3
    <3> QED BY <1>0, <3>1, <3>2, <3>3
  <2> QED BY <2>7, <2>8, <2>9, <2>10, <2>11 DEF LimiterInv
<1>3. ASSUME NEW k \in Key, Refuse(k) PROVE LimiterInv'
  <2> USE <1>3
  <2>1. PICK n \in 0..Len(records[k]) :
          /\ Expired(records[k], n, now - Window)
          /\ Full(Live(records[k], n))
          /\ known' = known \cup {k}
          /\ records' = [records EXCEPT ![k] = Live(records[k], n)]
          /\ now' = now /\ accepted' = accepted
    BY DEF Refuse
  <2>2. PICK m \in 0..Len(accepted[k]) :
          /\ Gone(k, m) /\ Len(Live(records[k], n)) = Len(accepted[k]) - m
          /\ \A i \in 1..Len(Live(records[k], n)) :
               Live(records[k], n)[i] = accepted[k][m + i]
    BY <2>1, DropKeepsSuffix
  <2>3. /\ records'[k] = Live(records[k], n) /\ records'[k] \in Seq(Nat)
        /\ \A q \in Key \ {k} : records'[q] = records[q]
        /\ Len(records'[k]) >= MaxRequests
    BY <1>0, <2>1, LiveFacts DEF LimiterInv, TypeOK, Full
  <2>4. TypeOK'
    BY <1>0, <2>1, <2>3 DEF TypeOK, LimiterInv
  <2>5. EntriesCanBeCleaned'
    BY <1>0, <2>1, <2>3 DEF LimiterInv, EntriesCanBeCleaned
  <2>6. (\A q \in Key : Ordered(q)') /\ WindowNeverExceeded'
    BY <2>1 DEF LimiterInv, Ordered, WindowNeverExceeded
  <2>7. ASSUME NEW q \in Key PROVE Suffix(q)'
    <3>1. CASE q # k
      <4>1. PICK p \in 0..Len(accepted[q]) : From(q, p) /\ Gone(q, p)
        BY <2>7 DEF LimiterInv, Suffix
      <4>2. From(q, p)' /\ Gone(q, p)' /\ p \in 0..Len(accepted'[q])
        BY <2>1, <2>3, <2>7, <3>1, <4>1 DEF From, Gone
      <4> QED BY <4>2 DEF Suffix
    <3>2. CASE q = k
      <4>1. From(k, m)' /\ Gone(k, m)' /\ m \in 0..Len(accepted'[k])
        BY <2>1, <2>2, <2>3 DEF From, Gone
      <4> QED BY <3>2, <4>1 DEF Suffix
    <3> QED BY <3>1, <3>2
  <2> QED BY <2>4, <2>5, <2>6, <2>7 DEF LimiterInv
<1>4. CASE Cleanup
  <2> USE <1>4
  <2>1. /\ known' = {k \in known : ~Idle(k)} /\ now' = now /\ accepted' = accepted
        /\ \A k \in Key : records'[k] = IF Idle(k) THEN <<>> ELSE records[k]
        /\ records' \in [Key -> Seq(Nat)]
    BY <1>0 DEF Cleanup
  <2>2. TypeOK' /\ EntriesCanBeCleaned'
    BY <1>0, <2>1 DEF LimiterInv, TypeOK, EntriesCanBeCleaned
  <2>3. (\A q \in Key : Ordered(q)') /\ WindowNeverExceeded'
    BY <2>1 DEF LimiterInv, Ordered, WindowNeverExceeded
  <2>4. ASSUME NEW q \in Key PROVE Suffix(q)'
    <3>1. PICK p \in 0..Len(accepted[q]) : From(q, p) /\ Gone(q, p)
      BY <2>4 DEF LimiterInv, Suffix
    <3>2. CASE ~Idle(q)
      <4>1. From(q, p)' /\ Gone(q, p)' /\ p \in 0..Len(accepted'[q])
        BY <2>1, <2>4, <3>1, <3>2 DEF From, Gone
      <4> QED BY <4>1 DEF Suffix
    <3>3. CASE Idle(q)
      <4> DEFINE L == Len(accepted[q])
      <4>0. /\ L \in Nat /\ Len(records[q]) \in Nat /\ Len(records[q]) # 0
            /\ Len(records[q]) = L - p
        BY <1>0, <2>4, <3>1, <3>3 DEF Idle, From
      <4>1. /\ Len(records[q]) \in 1..Len(records[q])
            /\ Len(records[q]) = L - p /\ p + Len(records[q]) = L /\ L \in 1..L
        <5> HIDE DEF L
        <5> QED BY <4>0
      <4>2. accepted[q][L] < now - 2 * Window
        BY <3>1, <3>3, <4>1 DEF Idle, From
      <4>3. Gone(q, L)
        <5> SUFFICES ASSUME NEW i \in 1..L PROVE accepted[q][i] < now - Window
          BY DEF Gone
        <5>1. accepted[q][i] <= accepted[q][L]
          BY <1>0, <2>4, <4>1 DEF LimiterInv, Ordered
        <5>2. accepted[q][i] \in Nat /\ accepted[q][L] \in Nat /\ now \in Nat
          BY <1>0, <2>4, <4>1
        <5> HIDE DEF L
        <5> QED BY <4>2, <5>1, <5>2
      <4>4. Gone(q, L)' /\ From(q, L)' /\ L \in 0..Len(accepted'[q])
        BY <1>0, <2>1, <2>4, <3>3, <4>3 DEF Gone, From
      <4> QED BY <2>1, <4>4 DEF Suffix
    <3> QED BY <3>2, <3>3
  <2> QED BY <2>2, <2>3, <2>4 DEF LimiterInv
<1>5. CASE UNCHANGED vars
  BY <1>5 DEF vars, LimiterInv, TypeOK, Ordered, Suffix, From, Gone,
              WindowNeverExceeded, EntriesCanBeCleaned
<1> QED BY <1>1, <1>2, <1>3, <1>4, <1>5 DEF Next

-----------------------------------------------------------------------------
\* The records are the part of the accepted requests that still matters.
THEOREM LimiterInvariant == Spec => []LimiterInv
<1>1. Init => LimiterInv
  BY InitInv
<1>2. LimiterInv /\ [Next]_vars => LimiterInv'
  BY NextInv
<1> QED BY <1>1, <1>2, PTL DEF Spec

\* The clock and the records are what they should be, whatever the limits.
THEOREM LimiterTyped == Spec => []TypeOK
<1>1. LimiterInv => TypeOK
  BY DEF LimiterInv
<1> QED BY <1>1, LimiterInvariant, PTL

\* No window of any key ever holds more than MaxRequests accepted requests.
THEOREM LimitHolds == Spec => []WindowNeverExceeded
<1>1. LimiterInv => WindowNeverExceeded
  BY DEF LimiterInv
<1> QED BY <1>1, LimiterInvariant, PTL

\* Nobody is refused while the window has room.
THEOREM RefusalsAreDue == Spec => []RefusedOnlyWhenFull
<1>1. LimiterInv => RefusedOnlyWhenFull
  BY RefusalIsDue
<1> QED BY <1>1, LimiterInvariant, PTL

\* Every entry of the limiter can be removed by cleanup.
THEOREM EntriesAreCleanable == Spec => []EntriesCanBeCleaned
<1>1. LimiterInv => EntriesCanBeCleaned
  BY DEF LimiterInv
<1> QED BY <1>1, LimiterInvariant, PTL
=============================================================================
