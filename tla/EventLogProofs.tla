--------------------------- MODULE EventLogProofs ---------------------------
(***************************************************************************)
(* The event log for any number of archives and any configurations:        *)
(* WithinLimits, EveryDecisionCounted and, while no prune fails,           *)
(* OldestFirst, by the inductive invariant LogInv. First what the file     *)
(* operations keep of the records' order, then what writer and             *)
(* reconfiguration are composed of, then one lemma per action.             *)
(***************************************************************************)
EXTENDS EventLog, FiniteSetTheorems, TLAPS

-----------------------------------------------------------------------------
\* Records and their order

\* A record is a place in a file that is not torn; its age is a number.
LEMMA RecordPlaces ==
    ASSUME NEW F \in Files
    PROVE  /\ \A r \in Records(F) :
                 /\ r = <<r[1], r[2]>>
                 /\ r[1] \in 0 .. Top /\ F[r[1]] # None
                 /\ F[r[1]] \in Seq(0 .. MaxAge \cup {Torn})
                 /\ r[2] \in 1 .. Len(F[r[1]]) /\ F[r[1]][r[2]] # Torn
                 /\ Age(F, r) \in 0 .. MaxAge
           /\ \A i \in 0 .. Top : \A j \in 1 .. Len(F[i]) :
                 F[i] # None /\ F[i][j] # Torn => <<i, j>> \in Records(F)
<1>1. ASSUME NEW r \in Records(F)
      PROVE  /\ r = <<r[1], r[2]>>
             /\ r[1] \in 0 .. Top /\ F[r[1]] # None
             /\ F[r[1]] \in Seq(0 .. MaxAge \cup {Torn})
             /\ r[2] \in 1 .. Len(F[r[1]]) /\ F[r[1]][r[2]] # Torn
             /\ Age(F, r) \in 0 .. MaxAge
    <2>1. PICK i \in 0 .. Top :
            /\ F[i] # None
            /\ r \in {<<i, j>> : j \in {k \in DOMAIN F[i] : F[i][k] # Torn}}
        BY <1>1 DEF Records
    <2>2. PICK j \in DOMAIN F[i] : F[i][j] # Torn /\ r = <<i, j>>
        BY <2>1
    <2>3. F[i] \in Seq(0 .. MaxAge \cup {Torn})
        BY <2>1 DEF Files
    <2>4. j \in 1 .. Len(F[i]) /\ F[i][j] \in 0 .. MaxAge \cup {Torn}
        BY <2>2, <2>3
    <2>5. r[1] = i /\ r[2] = j
        BY <2>2
    <2> QED BY <2>1, <2>2, <2>3, <2>4, <2>5 DEF Age
<1>2. ASSUME NEW i \in 0 .. Top, NEW j \in 1 .. Len(F[i]),
             F[i] # None, F[i][j] # Torn
      PROVE  <<i, j>> \in Records(F)
    <2>1. F[i] \in Seq(0 .. MaxAge \cup {Torn})
        BY <1>2 DEF Files
    <2>2. j \in DOMAIN F[i]
        BY <2>1
    <2> QED BY <1>2, <2>2 DEF Records
<1> QED BY <1>1, <1>2

\* Files that are moved without overtaking each other keep the order of their
\* records, and none is missing in it if none that is newer is dropped.
LEMMA MovedInOrder ==
    ASSUME NEW F \in Files, NEW G \in Files, NEW o \in [0 .. Top -> 0 .. Top],
           \A i \in 0 .. Top : G[i] # None => G[i] = F[o[i]],
           \A i, k \in 0 .. Top :
              G[i] # None /\ G[k] # None /\ i < k => o[i] < o[k]
    PROVE  /\ Ordered(F) => Ordered(G)
           /\ (\A i, m \in 0 .. Top :
                 G[i] # None /\ F[m] # None /\ m < o[i] =>
                    \E k \in 0 .. Top : G[k] # None /\ o[k] = m)
              => (Followed(F) => Followed(G))
<1>0. Top \in Nat /\ MaxAge \in Nat
    BY EventLogAssumption
<1>00. \A i \in 0 .. Top : i \in Nat /\ o[i] \in Nat
    <2> TAKE i \in 0 .. Top
    <2>1. o[i] \in 0 .. Top
        OBVIOUS
    <2> QED BY <1>0, <2>1
<1> DEFINE From(r) == <<o[r[1]], r[2]>>
<1>1. \A r \in Records(G) :
        /\ From(r) \in Records(F) /\ Age(F, From(r)) = Age(G, r)
        /\ r[1] \in 0 .. Top /\ G[r[1]] # None /\ r[2] \in Nat
        /\ Age(G, r) \in 0 .. MaxAge
    <2> TAKE r \in Records(G)
    <2>1. /\ r[1] \in 0 .. Top /\ G[r[1]] # None
          /\ G[r[1]] \in Seq(0 .. MaxAge \cup {Torn})
          /\ r[2] \in 1 .. Len(G[r[1]]) /\ G[r[1]][r[2]] # Torn
          /\ Age(G, r) \in 0 .. MaxAge
        BY RecordPlaces
    <2>2. G[r[1]] = F[o[r[1]]] /\ o[r[1]] \in 0 .. Top
        BY <2>1
    <2>3. <<o[r[1]], r[2]>> \in Records(F)
        BY <2>1, <2>2, RecordPlaces
    <2>4. Age(F, From(r)) = Age(G, r)
        BY <2>2 DEF Age
    <2> QED BY <2>1, <2>2, <2>3, <2>4
<1>2. \A r, s \in Records(G) : Before(r, s) => Before(From(r), From(s))
    <2> TAKE r, s \in Records(G)
    <2>1. /\ r[1] \in 0 .. Top /\ G[r[1]] # None /\ r[2] \in Nat
          /\ s[1] \in 0 .. Top /\ G[s[1]] # None /\ s[2] \in Nat
        BY <1>1
    <2>2. s[1] < r[1] => o[s[1]] < o[r[1]]
        BY <2>1
    <2>3. o[r[1]] \in Nat /\ o[s[1]] \in Nat
        BY <1>00, <2>1
    <2> QED BY <2>1, <2>2, <2>3 DEF Before
<1>3. Ordered(F) => Ordered(G)
    <2> HIDE DEF From
    <2> SUFFICES ASSUME Ordered(F), NEW r \in Records(G), NEW s \in Records(G),
                        Before(r, s)
                 PROVE  \/ Age(G, s) < Age(G, r)
                        \/ Age(G, s) = MaxAge /\ Age(G, r) = MaxAge
        BY DEF Ordered
    <2>1. Before(From(r), From(s))
        BY <1>2
    <2> QED BY <1>1, <2>1 DEF Ordered
<1>4. ASSUME \A i, m \in 0 .. Top :
                 G[i] # None /\ F[m] # None /\ m < o[i] =>
                    \E k \in 0 .. Top : G[k] # None /\ o[k] = m,
             Followed(F), NEW r \in Records(G), Age(G, r) # 0
      PROVE  \E s \in Records(G) :
                Before(r, s) /\ Age(G, r) = Aged(Age(G, s))
    <2>1. PICK t \in Records(F) :
             Before(From(r), t) /\ Age(G, r) = Aged(Age(F, t))
        BY <1>1, <1>4 DEF Followed
    <2>0. t[1] \in Nat /\ t[2] \in Nat
        BY <1>0, RecordPlaces
    <2>2. /\ t = <<t[1], t[2]>> /\ t[1] \in 0 .. Top /\ F[t[1]] # None
          /\ t[2] \in 1 .. Len(F[t[1]]) /\ F[t[1]][t[2]] # Torn
          /\ F[t[1]] \in Seq(0 .. MaxAge \cup {Torn})
        BY RecordPlaces
    <2>3. r[1] \in 0 .. Top /\ G[r[1]] # None /\ r[2] \in Nat
          /\ o[r[1]] \in 0 .. Top
        BY <1>1
    <2>4. o[r[1]] > t[1] \/ (o[r[1]] = t[1] /\ r[2] < t[2])
        BY <2>1 DEF Before
    <2>5. PICK k \in 0 .. Top :
             /\ G[k] # None /\ o[k] = t[1]
             /\ k < r[1] \/ (k = r[1] /\ r[2] < t[2])
        <3>1. CASE o[r[1]] > t[1]
            <4>0. t[1] < o[r[1]] /\ o[r[1]] \in Nat
                BY <1>0, <2>0, <2>3, <3>1
            <4>1. PICK k \in 0 .. Top : G[k] # None /\ o[k] = t[1]
                BY <1>4, <2>2, <2>3, <4>0
            <4>2. k # r[1] /\ ~ (r[1] < k)
                <5>1. r[1] < k => o[r[1]] < o[k]
                    BY <2>3, <4>1
                <5> QED BY <2>0, <4>0, <4>1, <5>1
            <4>3. k < r[1]
                BY <1>00, <2>3, <4>2
            <4> QED BY <4>1, <4>3
        <3>2. CASE o[r[1]] = t[1] /\ r[2] < t[2]
            BY <2>3, <3>2
        <3> QED BY <2>4, <3>1, <3>2
    <2>6. G[k] = F[t[1]]
        BY <2>5
    <2>7. <<k, t[2]>> \in Records(G)
        BY <2>2, <2>5, <2>6, RecordPlaces
    <2>8. Age(G, <<k, t[2]>>) = Age(F, t) /\ Before(r, <<k, t[2]>>)
        BY <2>3, <2>5, <2>6 DEF Age, Before
    <2> QED BY <2>1, <2>7, <2>8
<1>5. (\A i, m \in 0 .. Top :
                 G[i] # None /\ F[m] # None /\ m < o[i] =>
                    \E k \in 0 .. Top : G[k] # None /\ o[k] = m)
              => (Followed(F) => Followed(G))
    BY <1>4 DEF Followed
<1> QED BY <1>3, <1>5

-----------------------------------------------------------------------------
\* File operations

\* A rotation that stops before any of its steps keeps the order, and with no
\* archive beyond the ring it discards the oldest one.
LEMMA RotatedFiles ==
    ASSUME NEW F \in Files, NEW n \in 0 .. Top, NEW steps \in 0 .. n + 1
    PROVE  LET G == Rotated(F, n, steps) IN
           /\ G \in Files /\ G[0] \in {None, F[0]}
           /\ steps = n + 1 => G[0] = None
           /\ Ordered(F) => Ordered(G)
           /\ Within(F, n) => Within(G, n) /\ (Followed(F) => Followed(G))
<1> DEFINE G == Rotated(F, n, steps)
           Moved(i) == i \in 1 .. n /\ n - steps < i - 1 /\ i - 1 < n
                          /\ F[i - 1] # None
           o == [i \in 0 .. Top |-> IF Moved(i) THEN i - 1 ELSE i]
<1>0. Top \in Nat /\ n \in Nat /\ steps \in Nat /\ n <= Top /\ steps <= n + 1
    BY EventLogAssumption
<1>1. \A i \in 0 .. Top : i \in Nat
    BY <1>0
<1>2. /\ G \in [0 .. Top -> {None} \cup {F[i] : i \in 0 .. Top}]
      /\ \A i \in 0 .. Top : Moved(i) => G[i] = F[i - 1]
      /\ \A i \in 0 .. Top :
            ~ Moved(i) =>
               G[i] = IF \/ n - steps < i /\ i < n
                         \/ i = n /\ steps > 0
                      THEN None ELSE F[i]
    <2>1. CASE n = 0 /\ steps > 0
        BY <1>0, <2>1 DEF Rotated, Files
    <2>2. CASE ~ (n = 0 /\ steps > 0)
        <3>1. G = [i \in 0 .. Top |->
                     IF Moved(i) THEN F[i - 1]
                     ELSE IF \/ n - steps < i /\ i < n
                             \/ i = n /\ steps > 0
                          THEN None ELSE F[i]]
            BY <2>2 DEF Rotated
        <3>2. \A i \in 0 .. Top : Moved(i) => i - 1 \in 0 .. Top
            BY <1>0
        <3> QED BY <3>1, <3>2
    <2> QED BY <2>1, <2>2
<1>3. G \in Files
    <2>1. \A i \in 0 .. Top : F[i] \in {None} \cup Seq(0 .. MaxAge \cup {Torn})
        BY DEF Files
    <2> QED BY <1>2, <2>1 DEF Files
<1>4. /\ o \in [0 .. Top -> 0 .. Top]
      /\ \A i \in 0 .. Top : o[i] = IF Moved(i) THEN i - 1 ELSE i
    BY <1>0
<1> HIDE DEF o, G
<1>5. \A i \in 0 .. Top : G[i] # None => G[i] = F[o[i]]
    BY <1>2, <1>4
<1>6. \A i, k \in 0 .. Top :
         G[i] # None /\ G[k] # None /\ i < k => o[i] < o[k]
    <2> SUFFICES ASSUME NEW i \in 0 .. Top, NEW k \in 0 .. Top,
                        G[i] # None, G[k] # None, i < k, ~ (o[i] < o[k])
                 PROVE  FALSE
        OBVIOUS
    <2>1. Moved(k) /\ ~ Moved(i) /\ k = i + 1
        BY <1>1, <1>4
    <2>2. n - steps < i /\ i < n
        BY <1>1, <2>1
    <2> QED BY <1>2, <2>1, <2>2
<1>7. Ordered(F) => Ordered(G)
    BY <1>3, <1>4, <1>5, <1>6, MovedInOrder
<1>8. ASSUME Within(F, n)
      PROVE  Within(G, n) /\ (Followed(F) => Followed(G))
    <2>1. \A i \in 1 .. Top : G[i] # None => i <= n
        <3> TAKE i \in 1 .. Top
        <3>1. i \in 0 .. Top
            BY <1>0
        <3>2. Moved(i) => i <= n
            BY <1>0
        <3>3. ~ Moved(i) /\ G[i] # None => F[i] # None
            BY <1>2, <3>1
        <3> QED BY <1>8, <3>2, <3>3 DEF Within
    <2>2. ASSUME NEW i \in 0 .. Top, NEW m \in 0 .. Top,
                 G[i] # None, F[m] # None, m < o[i]
          PROVE  \E k \in 0 .. Top : G[k] # None /\ o[k] = m
        <3>1. o[i] <= n
            <4>1. CASE Moved(i)
                BY <1>0, <1>1, <1>4, <4>1
            <4>2. CASE ~ Moved(i)
                <5>1. i = 0 \/ i <= n
                    BY <1>1, <2>1, <2>2
                <5> QED BY <1>0, <1>4, <4>2, <5>1
            <4> QED BY <4>1, <4>2
        <3>2. m < n /\ m \in Nat
            BY <1>0, <1>1, <1>4, <2>2, <3>1
        <3>3. CASE n - steps < m
            <4>1. m + 1 \in 0 .. Top /\ Moved(m + 1)
                BY <1>0, <2>2, <3>2, <3>3
            <4>2. G[m + 1] = F[m] /\ o[m + 1] = m
                BY <1>2, <1>4, <3>2, <4>1
            <4> QED BY <2>2, <4>1, <4>2
        <3>4. CASE ~ (n - steps < m)
            <4>1. ~ Moved(m)
                BY <1>0, <3>2, <3>4
            <4>2. G[m] = F[m] /\ o[m] = m
                BY <1>0, <1>2, <1>4, <3>2, <3>4, <4>1
            <4> QED BY <2>2, <4>2
        <3> QED BY <3>3, <3>4
    <2>3. \A i, m \in 0 .. Top :
             G[i] # None /\ F[m] # None /\ m < o[i] =>
                \E k \in 0 .. Top : G[k] # None /\ o[k] = m
        BY <2>2
    <2>4. Followed(F) => Followed(G)
        BY <1>3, <1>4, <1>5, <1>6, <2>3, MovedInOrder
    <2> QED BY <2>1, <2>4 DEF Within
<1>9. /\ G[0] \in {None, F[0]}
      /\ steps = n + 1 => G[0] = None
    <2>1. 0 \in 0 .. Top /\ ~ Moved(0)
        BY <1>0
    <2>2. steps = n + 1 =>
             \/ n - steps < 0 /\ 0 < n
             \/ 0 = n /\ steps > 0
        BY <1>0
    <2> QED BY <1>2, <2>1, <2>2
<1> QED BY <1>3, <1>7, <1>8, <1>9 DEF G

\* A prune that stops anywhere keeps the order; one that ends leaves no
\* archive beyond the ring, and what it leaves is as complete as it was.
LEMMA PrunedFiles ==
    ASSUME NEW F \in Files, NEW n \in 0 .. Top, NEW steps \in 0 .. Top - n
    PROVE  LET G == Pruned(F, n, steps) IN
           /\ G \in Files /\ G[0] = F[0]
           /\ Ordered(F) => Ordered(G)
           /\ \A m \in Nat : Within(F, m) => Within(G, m)
           /\ steps = Top - n =>
                 Within(G, n) /\ (Followed(F) => Followed(G))
<1> DEFINE G == Pruned(F, n, steps)
           o == [i \in 0 .. Top |-> i]
<1>0. Top \in Nat /\ n \in Nat /\ steps \in Nat /\ n <= Top
      /\ n + steps <= Top
    BY EventLogAssumption
<1>1. /\ G \in Files
      /\ \A i \in 0 .. Top :
            G[i] = IF i > n /\ i <= n + steps THEN None ELSE F[i]
    BY DEF Pruned, Files
<1>2. /\ o \in [0 .. Top -> 0 .. Top] /\ \A i \in 0 .. Top : o[i] = i
    OBVIOUS
<1> HIDE DEF o, G
<1>3. /\ \A i \in 0 .. Top : G[i] # None => G[i] = F[o[i]]
      /\ \A i, k \in 0 .. Top :
            G[i] # None /\ G[k] # None /\ i < k => o[i] < o[k]
    BY <1>1, <1>2
<1>4. Ordered(F) => Ordered(G)
    BY <1>1, <1>2, <1>3, MovedInOrder
<1>5. \A i \in 1 .. Top : G[i] # None => F[i] # None
    BY <1>0, <1>1
<1>6. ASSUME steps = Top - n
      PROVE  Within(G, n) /\ (Followed(F) => Followed(G))
    <2>1. \A i \in 1 .. Top : G[i] # None => i <= n
        BY <1>0, <1>1, <1>6
    <2>2. ASSUME NEW i \in 0 .. Top, NEW m \in 0 .. Top,
                 G[i] # None, F[m] # None, m < o[i]
          PROVE  \E k \in 0 .. Top : G[k] # None /\ o[k] = m
        <3>1. i <= n
            BY <1>0, <2>1, <2>2
        <3>2. m < i
            BY <1>2, <2>2
        <3>3. G[m] = F[m]
            BY <1>0, <1>1, <3>1, <3>2
        <3> QED BY <1>2, <2>2, <3>3
    <2>3. \A i, m \in 0 .. Top :
             G[i] # None /\ F[m] # None /\ m < o[i] =>
                \E k \in 0 .. Top : G[k] # None /\ o[k] = m
        BY <2>2
    <2>4. Followed(F) => Followed(G)
        BY <1>1, <1>2, <1>3, <2>3, MovedInOrder
    <2> QED BY <2>1, <2>4 DEF Within
<1>7. G[0] = F[0]
    BY <1>0, <1>1
<1> QED BY <1>1, <1>4, <1>5, <1>6, <1>7 DEF G, Within

-----------------------------------------------------------------------------
\* A file that is created has no records.
LEMMA OpenedFiles ==
    ASSUME NEW F \in Files
    PROVE  /\ Opened(F) \in Files /\ Opened(F)[0] # None
           /\ Opened(F)[0] = IF F[0] = None THEN <<>> ELSE F[0]
           /\ Len(Opened(F)[0]) \in Nat
           /\ Ordered(F) => Ordered(Opened(F))
           /\ Followed(F) => Followed(Opened(F))
           /\ \A n : Within(F, n) => Within(Opened(F), n)
<1> DEFINE G == Opened(F)
<1>0. Top \in Nat /\ 0 \in 0 .. Top
    BY EventLogAssumption
<1>1. <<>> \in Seq(0 .. MaxAge \cup {Torn}) /\ <<>> # None
    <2>1. <<>> \in Seq(Nat \cup {Torn})
        OBVIOUS
    <2>2. None \notin Seq(Nat \cup {Torn})
        BY EventLogAssumption
    <2>3. <<>> # None
        BY <2>1, <2>2, Zenon
    <2>4. <<>> \in Seq(0 .. MaxAge \cup {Torn})
        OBVIOUS
    <2> QED BY <2>3, <2>4
<1>2. /\ G \in Files /\ G[0] = IF F[0] = None THEN <<>> ELSE F[0]
      /\ \A i \in 0 .. Top : i # 0 => G[i] = F[i]
    BY <1>0, <1>1 DEF Opened, Files
<1>3. G[0] # None /\ Len(G[0]) \in Nat
    <2>1. G[0] \in {None} \cup Seq(0 .. MaxAge \cup {Torn})
        BY <1>0, <1>2 DEF Files
    <2>2. G[0] # None
        BY <1>1, <1>2
    <2> QED BY <2>1, <2>2
<1> HIDE DEF G
<1>4. Records(G) = Records(F)
    <2>1. ASSUME NEW r \in Records(G) PROVE r \in Records(F)
        <3>1. /\ r = <<r[1], r[2]>> /\ r[1] \in 0 .. Top /\ G[r[1]] # None
              /\ r[2] \in 1 .. Len(G[r[1]]) /\ G[r[1]][r[2]] # Torn
            BY <1>2, RecordPlaces
        <3>2. F[r[1]] = G[r[1]]
            <4>1. r[1] = 0 /\ F[0] = None => r[2] \in 1 .. 0
                BY <1>2, <3>1
            <4> QED BY <1>2, <3>1, <4>1
        <3> QED BY <3>1, <3>2, RecordPlaces
    <2>2. ASSUME NEW r \in Records(F) PROVE r \in Records(G)
        <3>1. /\ r = <<r[1], r[2]>> /\ r[1] \in 0 .. Top /\ F[r[1]] # None
              /\ r[2] \in 1 .. Len(F[r[1]]) /\ F[r[1]][r[2]] # Torn
            BY RecordPlaces
        <3>2. F[r[1]] = G[r[1]]
            BY <1>2, <3>1
        <3> QED BY <1>2, <3>1, <3>2, RecordPlaces
    <2> QED BY <2>1, <2>2
<1>5. \A r \in Records(G) : Age(G, r) = Age(F, r)
    <2> TAKE r \in Records(G)
    <2>1. r[1] \in 0 .. Top /\ F[r[1]] # None
        BY <1>4, RecordPlaces
    <2> QED BY <1>2, <2>1 DEF Age
<1>6. /\ Ordered(F) => Ordered(G)
      /\ Followed(F) => Followed(G)
    BY <1>4, <1>5 DEF Ordered, Followed
<1>7. \A n : Within(F, n) => Within(G, n)
    BY <1>0, <1>2 DEF Within
<1> QED BY <1>2, <1>3, <1>6, <1>7 DEF G

\* Ages grow by one until they are alike.
LEMMA Ages ==
    /\ \A a \in 0 .. MaxAge \cup {Torn} :
          /\ Aged(a) \in 0 .. MaxAge \cup {Torn}
          /\ Aged(a) = Torn <=> a = Torn
    /\ \A a \in 0 .. MaxAge :
          /\ Aged(a) \in 1 .. MaxAge
          /\ Aged(a) = IF a < MaxAge THEN a + 1 ELSE MaxAge
BY EventLogAssumption DEF Aged

\* A record that is accepted is the newest one, and all others age; a part of
\* one is no record.
LEMMA AppendedFiles ==
    ASSUME NEW F \in Files, F[0] # None
    PROVE  LET G == [Older(F) EXCEPT ![0] = Append(@, 0)]
               T == [F EXCEPT ![0] = Append(@, Torn)]
           IN /\ G \in Files /\ G[0] # None
              /\ Whole(G) = Whole(F) \cup {Len(F[0]) + 1}
              /\ Ordered(F) => Ordered(G)
              /\ Followed(F) => Followed(G)
              /\ \A n : Within(F, n) => Within(G, n)
              /\ T \in Files /\ T[0] # None /\ Whole(T) = Whole(F)
              /\ Ordered(F) => Ordered(T)
              /\ Followed(F) => Followed(T)
              /\ \A n : Within(F, n) => Within(T, n)
<1> DEFINE G == [Older(F) EXCEPT ![0] = Append(@, 0)]
           T == [F EXCEPT ![0] = Append(@, Torn)]
           last == Len(F[0]) + 1
           new == <<0, last>>
           Parts == 0 .. MaxAge \cup {Torn}
<1>0. /\ Top \in Nat /\ 0 \in 0 .. Top /\ MaxAge \in Nat \ {0}
      /\ 0 \in Parts /\ Torn \in Parts /\ 0 # Torn
      /\ None \notin Seq(Parts)
    <2>1. Seq(Parts) \subseteq Seq(Nat \cup {Torn})
        <3>1. Parts \subseteq Nat \cup {Torn}
            BY EventLogAssumption
        <3> QED BY <3>1
    <2> QED BY <2>1, EventLogAssumption
<1>1. /\ F[0] \in Seq(Parts) /\ Len(F[0]) \in Nat
      /\ \A i \in 0 .. Top : F[i] # None => F[i] \in Seq(Parts)
    BY <1>0 DEF Files
<1>2. Older(F) \in Files
      /\ \A i \in 0 .. Top :
            /\ F[i] = None <=> Older(F)[i] = None
            /\ F[i] # None =>
                 /\ Len(Older(F)[i]) = Len(F[i])
                 /\ \A j \in 1 .. Len(F[i]) : Older(F)[i][j] = Aged(F[i][j])
    <2>1. \A i \in 0 .. Top :
            Older(F)[i] = IF F[i] = None THEN None
                          ELSE [j \in DOMAIN F[i] |-> Aged(F[i][j])]
        BY DEF Older
    <2>2. ASSUME NEW i \in 0 .. Top, F[i] # None
          PROVE  /\ Older(F)[i] \in Seq(Parts) /\ Older(F)[i] # None
                 /\ Len(Older(F)[i]) = Len(F[i])
                 /\ \A j \in 1 .. Len(F[i]) :
                       Older(F)[i][j] = Aged(F[i][j])
        <3>1. /\ F[i] \in Seq(Parts) /\ Len(F[i]) \in Nat
              /\ DOMAIN F[i] = 1 .. Len(F[i])
              /\ \A j \in 1 .. Len(F[i]) : F[i][j] \in Parts
            BY <1>1, <2>2
        <3>2. Older(F)[i] = [j \in 1 .. Len(F[i]) |-> Aged(F[i][j])]
            BY <2>1, <2>2, <3>1
        <3>3. Older(F)[i] \in [1 .. Len(F[i]) -> Parts]
            BY <3>1, <3>2, Ages
        <3>4. Older(F)[i] \in Seq(Parts) /\ Len(Older(F)[i]) = Len(F[i])
            BY <3>1, <3>3
        <3> QED BY <1>0, <3>2, <3>4
    <2>3. \A i \in 0 .. Top : Older(F)[i] \in {None} \cup Seq(Parts)
        BY <2>1, <2>2
    <2>4. Older(F) \in Files
        BY <2>3 DEF Older, Files
    <2> QED BY <2>1, <2>2, <2>4
<1>3. /\ G[0] = Append(Older(F)[0], 0) /\ T[0] = Append(F[0], Torn)
      /\ \A i \in 0 .. Top : i # 0 => G[i] = Older(F)[i] /\ T[i] = F[i]
      /\ G = [i \in 0 .. Top |-> G[i]] /\ T = [i \in 0 .. Top |-> T[i]]
    BY <1>0, <1>2 DEF Files
<1>4. Older(F)[0] \in Seq(Parts)
    BY <1>0, <1>2 DEF Files
<1> HIDE DEF G, T, Parts
<1>5. /\ G[0] \in Seq(Parts) /\ Len(G[0]) = last
      /\ G[0][last] = 0
      /\ \A j \in 1 .. Len(F[0]) : G[0][j] = Aged(F[0][j])
      /\ T[0] \in Seq(Parts) /\ Len(T[0]) = last
      /\ T[0][last] = Torn
      /\ \A j \in 1 .. Len(F[0]) : T[0][j] = F[0][j]
    <2>1. Len(Older(F)[0]) = Len(F[0])
        BY <1>0, <1>2
    <2>2. \A j \in 1 .. Len(F[0]) : Older(F)[0][j] = Aged(F[0][j])
        BY <1>0, <1>2
    <2>3. /\ G[0] \in Seq(Parts) /\ Len(G[0]) = last
          /\ G[0][last] = 0
          /\ \A j \in 1 .. Len(F[0]) : G[0][j] = Older(F)[0][j]
        BY <1>0, <1>1, <1>3, <1>4, <2>1
    <2>4. /\ T[0] \in Seq(Parts) /\ Len(T[0]) = last
          /\ T[0][last] = Torn
          /\ \A j \in 1 .. Len(F[0]) : T[0][j] = F[0][j]
        BY <1>0, <1>1, <1>3
    <2> QED BY <2>2, <2>3, <2>4
<1>6. G \in Files /\ T \in Files /\ G[0] # None /\ T[0] # None
    <2>1. \A i \in 0 .. Top : /\ G[i] \in {None} \cup Seq(Parts)
                              /\ T[i] \in {None} \cup Seq(Parts)
        BY <1>2, <1>3, <1>5 DEF Files, Parts
    <2> QED BY <1>0, <1>3, <1>5, <2>1 DEF Files, Parts
<1>7. /\ \A i \in 0 .. Top : G[i] = None <=> F[i] = None
      /\ \A i \in 0 .. Top : T[i] = None <=> F[i] = None
      /\ \A i \in 0 .. Top : F[i] # None =>
            \A j \in 1 .. Len(F[i]) :
                /\ j \in 1 .. Len(G[i]) /\ G[i][j] = Aged(F[i][j])
                /\ j \in 1 .. Len(T[i]) /\ T[i][j] = F[i][j]
      /\ \A i \in 0 .. Top : F[i] # None =>
            /\ \A j \in 1 .. Len(G[i]) :
                  j \in 1 .. Len(F[i]) \/ (i = 0 /\ j = last)
            /\ \A j \in 1 .. Len(T[i]) :
                  j \in 1 .. Len(F[i]) \/ (i = 0 /\ j = last)
    <2>1. ASSUME NEW i \in 0 .. Top, i # 0
          PROVE  /\ G[i] = None <=> F[i] = None
                 /\ T[i] = F[i]
                 /\ F[i] # None => /\ Len(G[i]) = Len(F[i])
                                   /\ \A j \in 1 .. Len(F[i]) :
                                         G[i][j] = Aged(F[i][j])
        BY <1>2, <1>3, <2>1
    <2> QED BY <1>1, <1>5, <1>6, <2>1
<1>8. Records(T) = Records(F) /\ Records(G) = Records(F) \cup {new}
    <2>1. ASSUME NEW r \in Records(F) PROVE r \in Records(T) /\ r \in Records(G)
        <3>1. /\ r = <<r[1], r[2]>> /\ r[1] \in 0 .. Top /\ F[r[1]] # None
              /\ r[2] \in 1 .. Len(F[r[1]]) /\ F[r[1]][r[2]] # Torn
              /\ F[r[1]][r[2]] \in Parts
            BY <1>1, RecordPlaces DEF Parts
        <3>2. Aged(F[r[1]][r[2]]) # Torn
            BY <3>1, Ages DEF Parts
        <3>3. /\ G[r[1]] # None /\ r[2] \in 1 .. Len(G[r[1]])
              /\ G[r[1]][r[2]] # Torn
              /\ T[r[1]] # None /\ r[2] \in 1 .. Len(T[r[1]])
              /\ T[r[1]][r[2]] # Torn
            BY <1>7, <3>1, <3>2
        <3> QED BY <1>6, <3>1, <3>3, RecordPlaces
    <2>2. new \in Records(G)
        <3>1. last \in 1 .. Len(G[0]) /\ G[0][last] # Torn
            BY <1>0, <1>1, <1>5
        <3> QED BY <1>0, <1>6, <3>1, RecordPlaces
    <2>3. ASSUME NEW r \in Records(G) PROVE r \in Records(F) \cup {new}
        <3>1. /\ r = <<r[1], r[2]>> /\ r[1] \in 0 .. Top /\ G[r[1]] # None
              /\ r[2] \in 1 .. Len(G[r[1]]) /\ G[r[1]][r[2]] # Torn
            BY <1>6, RecordPlaces
        <3>2. CASE r[1] = 0 /\ r[2] = last
            BY <3>1, <3>2
        <3>3. CASE F[r[1]] # None /\ r[2] \in 1 .. Len(F[r[1]])
            <4>1. F[r[1]][r[2]] \in Parts
                BY <1>1, <3>1, <3>3
            <4>2. F[r[1]][r[2]] # Torn
                BY <1>7, <3>1, <3>3, <4>1, Ages DEF Parts
            <4> QED BY <3>1, <3>3, <4>2, RecordPlaces
        <3> QED BY <1>7, <3>1, <3>2, <3>3
    <2>4. ASSUME NEW r \in Records(T) PROVE r \in Records(F)
        <3>1. /\ r = <<r[1], r[2]>> /\ r[1] \in 0 .. Top /\ T[r[1]] # None
              /\ r[2] \in 1 .. Len(T[r[1]]) /\ T[r[1]][r[2]] # Torn
            BY <1>6, RecordPlaces
        <3>2. ~ (r[1] = 0 /\ r[2] = last)
            BY <1>5, <3>1
        <3>3. F[r[1]] # None /\ r[2] \in 1 .. Len(F[r[1]])
            BY <1>7, <3>1, <3>2
        <3>4. F[r[1]][r[2]] # Torn
            BY <1>7, <3>1, <3>3
        <3> QED BY <3>1, <3>3, <3>4, RecordPlaces
    <2> QED BY <2>1, <2>2, <2>3, <2>4
<1>9. /\ \A r \in Records(F) :
            /\ Age(T, r) = Age(F, r) /\ Age(G, r) = Aged(Age(F, r))
            /\ Age(F, r) \in 0 .. MaxAge
            /\ r[1] \in Nat /\ r[2] \in Nat /\ (r[1] = 0 => r[2] < last)
      /\ Age(G, new) = 0
    <2>1. ASSUME NEW r \in Records(F)
          PROVE  /\ Age(T, r) = Age(F, r) /\ Age(G, r) = Aged(Age(F, r))
                 /\ Age(F, r) \in 0 .. MaxAge
                 /\ r[1] \in Nat /\ r[2] \in Nat /\ (r[1] = 0 => r[2] < last)
        <3>1. /\ r[1] \in 0 .. Top /\ F[r[1]] # None
              /\ r[2] \in 1 .. Len(F[r[1]]) /\ Age(F, r) \in 0 .. MaxAge
              /\ Len(F[r[1]]) \in Nat
            BY <1>1, RecordPlaces
        <3>2. Age(T, r) = Age(F, r) /\ Age(G, r) = Aged(Age(F, r))
            BY <1>7, <3>1 DEF Age
        <3> QED BY <1>0, <1>1, <3>1, <3>2
    <2> QED BY <1>5, <2>1 DEF Age
<1> HIDE DEF last
<1>10. (Ordered(F) => Ordered(T)) /\ (Followed(F) => Followed(T))
    BY <1>8, <1>9 DEF Ordered, Followed
<1>11. last \in Nat /\ new[1] = 0 /\ new[2] = last
    BY <1>1 DEF last
<1>12. \A r \in Records(F) : Before(r, new) /\ ~ Before(new, r)
    <2> TAKE r \in Records(F)
    <2>1. r[1] \in Nat /\ r[2] \in Nat /\ (r[1] = 0 => r[2] < last)
        BY <1>9
    <2> QED BY <1>11, <2>1 DEF Before
<1>13. ~ Before(new, new)
    BY <1>11 DEF Before
<1> HIDE DEF new
<1>14. ASSUME Ordered(F) PROVE Ordered(G)
    <2> SUFFICES ASSUME NEW r \in Records(G), NEW s \in Records(G),
                        Before(r, s)
                 PROVE  \/ Age(G, s) < Age(G, r)
                        \/ Age(G, s) = MaxAge /\ Age(G, r) = MaxAge
        BY DEF Ordered
    <2>1. r \in Records(F)
        BY <1>8, <1>12, <1>13
    <2>2. Age(G, r) \in 1 .. MaxAge
        BY <1>9, <2>1, Ages
    <2>3. CASE s = new
        BY <1>9, <2>2, <2>3
    <2>4. CASE s \in Records(F)
        <3>1. \/ Age(F, s) < Age(F, r)
              \/ Age(F, s) = MaxAge /\ Age(F, r) = MaxAge
            BY <1>14, <2>1, <2>4 DEF Ordered
        <3>2. /\ Age(F, s) \in 0 .. MaxAge /\ Age(F, r) \in 0 .. MaxAge
              /\ Age(G, s) = Aged(Age(F, s)) /\ Age(G, r) = Aged(Age(F, r))
            BY <1>9, <2>1, <2>4
        <3> QED BY <1>0, <3>1, <3>2, Ages
    <2> QED BY <1>8, <2>3, <2>4
<1>15. ASSUME Followed(F) PROVE Followed(G)
    <2> SUFFICES ASSUME NEW r \in Records(G), Age(G, r) # 0
                 PROVE  \E s \in Records(G) :
                           Before(r, s) /\ Age(G, r) = Aged(Age(G, s))
        BY DEF Followed
    <2>1. r \in Records(F)
        BY <1>8, <1>9
    <2>2. CASE Age(F, r) = 0
        <3>1. Age(G, r) = Aged(Age(G, new))
            BY <1>9, <2>1, <2>2
        <3> QED BY <1>8, <1>12, <2>1, <3>1
    <2>3. CASE Age(F, r) # 0
        <3>1. PICK s \in Records(F) :
                 Before(r, s) /\ Age(F, r) = Aged(Age(F, s))
            BY <1>15, <2>1, <2>3 DEF Followed
        <3>2. Age(G, r) = Aged(Age(G, s))
            BY <1>9, <2>1, <3>1
        <3> QED BY <1>8, <3>1, <3>2
    <2> QED BY <2>2, <2>3
<1>16. \A n : Within(F, n) => Within(G, n) /\ Within(T, n)
    <2>1. \A i \in 1 .. Top : i \in 0 .. Top
        BY <1>0
    <2> QED BY <1>7, <2>1 DEF Within
<1>17. Whole(G) = Whole(F) \cup {last} /\ Whole(T) = Whole(F)
    <2>1. /\ Whole(F) = {j \in 1 .. Len(F[0]) : F[0][j] # Torn}
          /\ Whole(G) = {j \in 1 .. last : G[0][j] # Torn}
          /\ Whole(T) = {j \in 1 .. last : T[0][j] # Torn}
        BY <1>1, <1>5, <1>6 DEF Whole
    <2>2. \A j : j \in 1 .. last <=> j \in 1 .. Len(F[0]) \/ j = last
        BY <1>1 DEF last
    <2>3. \A j \in 1 .. Len(F[0]) : G[0][j] # Torn <=> F[0][j] # Torn
        <3> TAKE j \in 1 .. Len(F[0])
        <3>1. F[0][j] \in Parts /\ G[0][j] = Aged(F[0][j])
            BY <1>1, <1>5
        <3> QED BY <3>1, Ages DEF Parts
    <2>4. G[0][last] # Torn /\ T[0][last] = Torn
          /\ \A j \in 1 .. Len(F[0]) : T[0][j] = F[0][j]
        BY <1>0, <1>5
    <2> QED BY <2>1, <2>2, <2>3, <2>4
<1> QED BY <1>6, <1>10, <1>14, <1>15, <1>16, <1>17 DEF G, T, last

-----------------------------------------------------------------------------
\* What operations leave

Outcomes ==
    [files : Files, writer : Writers \cup {None}, ok : BOOLEAN, cost : Nat]

\* The whole records of the active file are no more than its length.
LEMMA WholeFinite ==
    ASSUME NEW F \in Files
    PROVE  /\ IsFiniteSet(Whole(F)) /\ Cardinality(Whole(F)) \in Nat
           /\ Size(F) \in Nat /\ Cardinality(Whole(F)) <= Size(F)
           /\ Size(F) = 0 => Whole(F) = {}
           /\ F[0] # None =>
                /\ Len(F[0]) \in Nat /\ Whole(F) \subseteq 1 .. Len(F[0])
                /\ Size(F) = Len(F[0])
                /\ LET torn == {j \in DOMAIN F[0] : F[0][j] = Torn}
                   IN /\ Cardinality(torn) \in Nat
                      /\ Len(F[0]) = Cardinality(Whole(F)) + Cardinality(torn)
<1>0. 0 \in 0 .. Top
    BY EventLogAssumption
<1>1. CASE F[0] = None
    BY <1>1, FS_EmptySet DEF Whole, Size
<1>2. CASE F[0] # None
    <2> DEFINE torn == {j \in DOMAIN F[0] : F[0][j] = Torn}
               all == 1 .. Len(F[0])
    <2>1. Len(F[0]) \in Nat /\ DOMAIN F[0] = all
        BY <1>0, <1>2 DEF Files
    <2>2. IsFiniteSet(all) /\ Cardinality(all) = Len(F[0])
        <3>1. 1 \in Int /\ Len(F[0]) \in Int /\ 1 <= Len(F[0]) + 1
            BY <2>1
        <3>2. /\ IsFiniteSet(1 .. Len(F[0]))
              /\ Cardinality(1 .. Len(F[0])) =
                   IF 1 > Len(F[0]) THEN 0 ELSE Len(F[0]) - 1 + 1
            BY <3>1, FS_Interval
        <3> QED BY <2>1, <3>2
    <2>3. /\ Whole(F) \subseteq all /\ torn \subseteq all
          /\ Whole(F) \cup torn = all /\ Whole(F) \cap torn = {}
        BY <1>2, <2>1 DEF Whole
    <2> HIDE DEF all, torn
    <2>4. IsFiniteSet(Whole(F)) /\ IsFiniteSet(torn)
        BY <2>2, <2>3, FS_Subset
    <2>5. Cardinality(Whole(F)) \in Nat /\ Cardinality(torn) \in Nat
        BY <2>4, FS_CardinalityType
    <2>6. Cardinality(all) = Cardinality(Whole(F)) + Cardinality(torn)
        <3>1. Cardinality(Whole(F) \cup torn) =
                 Cardinality(Whole(F)) + Cardinality(torn)
                    - Cardinality(Whole(F) \cap torn)
            BY <2>4, FS_Union
        <3>2. Cardinality(Whole(F) \cap torn) = 0
            BY <2>3, FS_EmptySet
        <3> QED BY <2>3, <2>5, <3>1, <3>2
    <2>7. Size(F) = Len(F[0])
        BY <1>2 DEF Size
    <2>8. Size(F) = 0 => Whole(F) = {}
        BY <2>1, <2>3, <2>7 DEF all
    <2> QED BY <1>2, <2>1, <2>2, <2>3, <2>4, <2>5, <2>6, <2>7, <2>8
            DEF all, torn
<1> QED BY <1>1, <1>2

\* What a file may hold is a record at least.
LEMMA MostBounds ==
    ASSUME NEW max \in Nat
    PROVE  Most(max) \in Nat /\ max <= Most(max) /\ 1 <= Most(max)
BY DEF Most

\* A larger ring is as tidy.
LEMMA TidyWider ==
    ASSUME NEW F, NEW clean, NEW m \in Nat, NEW n \in Nat, m <= n,
           Tidy(F, clean, m)
    PROVE  Tidy(F, clean, n)
<1>1. Top \in Nat
    BY EventLogAssumption
<1>2. Within(F, m) => Within(F, n)
    BY <1>1 DEF Within
<1> QED BY <1>2 DEF Tidy

\* rotate_files: the active file stays or goes, and goes when it succeeds.
LEMMA RotateFilesHolds ==
    ASSUME NEW F, NEW clean, NEW w \in Writers, NEW n \in 0 .. Top,
           Tidy(F, clean, n), NEW o \in RotateFiles(F, w, n)
    PROVE  /\ o \in Outcomes /\ o.writer = w /\ Tidy(o.files, clean, n)
           /\ o.files[0] \in {None, F[0]} /\ (o.ok => o.files[0] = None)
<1> DEFINE last == RotationSteps(F, n)
<1>0. F \in Files /\ n \in Nat
    BY EventLogAssumption DEF Tidy
<1>1. last \in 0 .. n + 1 /\ (F[0] # None => last = n + 1)
      /\ (F[0] = None => last = 0)
    BY <1>0 DEF RotationSteps
<1> HIDE DEF last
<1>2. PICK k \in 0 .. last :
        \/ k = last /\ o = Outcome(Rotated(F, n, k), w, TRUE, 0)
        \/ k \in 0 .. last - 1 /\ o = Outcome(Rotated(F, n, k), w, FALSE, 1)
    <2>1. \/ o = Outcome(Rotated(F, n, last), w, TRUE, 0)
          \/ \E k \in 0 .. last - 1 :
                o = Outcome(Rotated(F, n, k), w, FALSE, 1)
        BY DEF RotateFiles, Ends, last
    <2>0. last \in 0 .. last /\ \A k \in 0 .. last - 1 : k \in 0 .. last
        BY <1>0, <1>1
    <2>2. CASE o = Outcome(Rotated(F, n, last), w, TRUE, 0)
        BY <2>0, <2>2
    <2>3. CASE \E k \in 0 .. last - 1 :
                o = Outcome(Rotated(F, n, k), w, FALSE, 1)
        BY <2>0, <2>3
    <2> QED BY <2>1, <2>2, <2>3
<1> DEFINE G == Rotated(F, n, k)
<1>3. k \in 0 .. n + 1
    BY <1>0, <1>1
<1>4. /\ G \in Files /\ G[0] \in {None, F[0]}
      /\ k = n + 1 => G[0] = None
      /\ Ordered(F) => Ordered(G)
      /\ Within(F, n) => Within(G, n) /\ (Followed(F) => Followed(G))
    BY <1>0, <1>3, RotatedFiles
<1>a. \/ /\ k = last
         /\ o = [files |-> G, writer |-> w, ok |-> TRUE, cost |-> 0]
      \/ o = [files |-> G, writer |-> w, ok |-> FALSE, cost |-> 1]
    BY <1>2 DEF Outcome
<1> HIDE DEF G
<1>5. /\ o.files = G /\ o.writer = w /\ o.ok \in BOOLEAN
      /\ (o.ok => k = last) /\ o \in Outcomes
    <2>1. w \in Writers \cup {None} /\ 0 \in Nat /\ 1 \in Nat
        OBVIOUS
    <2>2. CASE o = [files |-> G, writer |-> w, ok |-> TRUE, cost |-> 0]
               /\ k = last
        BY <1>4, <2>1, <2>2 DEF Outcomes
    <2>3. CASE o = [files |-> G, writer |-> w, ok |-> FALSE, cost |-> 1]
        BY <1>4, <2>1, <2>3 DEF Outcomes
    <2> QED BY <1>a, <2>2, <2>3
<1>6. Tidy(G, clean, n)
    BY <1>4 DEF Tidy
<1>7. o.ok => G[0] = None
    BY <1>1, <1>4, <1>5
<1> QED BY <1>4, <1>5, <1>6, <1>7

\* prune_archives leaves the active file, and no archive beyond the ring if
\* it succeeds.
LEMMA PruneHolds ==
    ASSUME NEW F, NEW clean, NEW w \in Writers, NEW n \in 0 .. Top,
           NEW m \in 0 .. Top, Tidy(F, clean, m),
           NEW o \in PruneArchives(F, w, n)
    PROVE  /\ o \in Outcomes /\ o.writer = w /\ o.files[0] = F[0]
           /\ Tidy(o.files, clean, IF o.ok THEN n ELSE m)
<1>0. F \in Files /\ n \in Nat /\ m \in Nat /\ Top \in Nat /\ n <= Top
    BY EventLogAssumption DEF Tidy
<1>1. PICK k \in 0 .. Top - n :
        \/ k = Top - n /\ o = Outcome(Pruned(F, n, k), w, TRUE, 0)
        \/ PruneMayStop /\ o = Outcome(Pruned(F, n, k), w, FALSE, 1)
    <2>1. /\ o.ok \/ PruneMayStop
          /\ \/ o = Outcome(Pruned(F, n, Top - n), w, TRUE, 0)
             \/ \E k \in 0 .. Top - n - 1 :
                   o = Outcome(Pruned(F, n, k), w, FALSE, 1)
        BY DEF PruneArchives, Ends
    <2>2. CASE o = Outcome(Pruned(F, n, Top - n), w, TRUE, 0)
        <3>1. Top - n \in 0 .. Top - n
            BY <1>0
        <3> QED BY <2>2, <3>1
    <2>3. CASE \E k \in 0 .. Top - n - 1 :
                   o = Outcome(Pruned(F, n, k), w, FALSE, 1)
        BY <1>0, <2>1, <2>3 DEF Outcome
    <2> QED BY <2>1, <2>2, <2>3
<1> DEFINE G == Pruned(F, n, k)
<1>2. /\ G \in Files /\ G[0] = F[0]
      /\ Ordered(F) => Ordered(G)
      /\ Within(F, m) => Within(G, m)
      /\ k = Top - n => Within(G, n) /\ (Followed(F) => Followed(G))
    BY <1>0, PrunedFiles
<1>a. \/ /\ k = Top - n
         /\ o = [files |-> G, writer |-> w, ok |-> TRUE, cost |-> 0]
      \/ /\ PruneMayStop
         /\ o = [files |-> G, writer |-> w, ok |-> FALSE, cost |-> 1]
    BY <1>1 DEF Outcome
<1> HIDE DEF G
<1>3. /\ o.files = G /\ o.writer = w /\ o \in Outcomes
      /\ \/ o.ok = TRUE /\ k = Top - n
         \/ o.ok = FALSE /\ PruneMayStop
    <2>1. w \in Writers \cup {None} /\ 0 \in Nat /\ 1 \in Nat
        OBVIOUS
    <2>2. CASE /\ k = Top - n
               /\ o = [files |-> G, writer |-> w, ok |-> TRUE, cost |-> 0]
        BY <1>2, <2>1, <2>2 DEF Outcomes
    <2>3. CASE /\ PruneMayStop
               /\ o = [files |-> G, writer |-> w, ok |-> FALSE, cost |-> 1]
        BY <1>2, <2>1, <2>3 DEF Outcomes
    <2> QED BY <1>a, <2>2, <2>3
<1>4. Tidy(G, clean, IF o.ok THEN n ELSE m)
    BY <1>2, <1>3 DEF Tidy
<1> QED BY <1>2, <1>3, <1>4

\* open_active
LEMMA OpenHolds ==
    ASSUME NEW F, NEW clean, NEW n, Tidy(F, clean, n), NEW w \in Writers,
           NEW o \in OpenActive(F, w)
    PROVE  /\ o \in Outcomes /\ o.writer \in Writers
           /\ Tidy(o.files, clean, n)
           /\ Whole(o.files) = Whole(F)
           /\ o.writer.max = w.max /\ o.writer.retained = w.retained
           /\ IF o.ok
              THEN /\ o.writer.open /\ o.files[0] # None
                   /\ o.writer.bytes = Size(F)
              ELSE o.writer = w
<1>0. F \in Files /\ 0 \in 0 .. Top
    BY EventLogAssumption DEF Tidy
<1>1. /\ Opened(F) \in Files /\ Opened(F)[0] # None
      /\ Opened(F)[0] = IF F[0] = None THEN <<>> ELSE F[0]
      /\ Len(Opened(F)[0]) \in Nat
      /\ Tidy(Opened(F), clean, n)
    BY <1>0, OpenedFiles DEF Tidy
<1>2. Whole(Opened(F)) = Whole(F) /\ Len(Opened(F)[0]) = Size(F)
    <2>1. CASE F[0] = None
        <3>1. Whole(Opened(F)) = {}
            BY <1>1, <2>1 DEF Whole
        <3> QED BY <1>1, <2>1, <3>1 DEF Whole, Size
    <2>2. CASE F[0] # None
        BY <1>1, <2>2 DEF Whole, Size
    <2> QED BY <2>1, <2>2
<1>3. CASE o = Outcome(Opened(F), [w EXCEPT !.open = TRUE,
                                            !.bytes = Len(Opened(F)[0])],
                       TRUE, 0)
    BY <1>1, <1>2, <1>3 DEF Outcome, Outcomes, Writers
<1>4. CASE \E G \in {F, Opened(F)} : o = Outcome(G, w, FALSE, 1)
    BY <1>0, <1>1, <1>2, <1>4 DEF Outcome, Outcomes
<1> QED BY <1>3, <1>4 DEF OpenActive

-----------------------------------------------------------------------------
\* The writer

\* Where the active file stays or goes it has no more whole records.
LEMMA WholeShrinks ==
    ASSUME NEW F \in Files, NEW G \in Files, G[0] \in {None, F[0]}
    PROVE  /\ Cardinality(Whole(G)) \in Nat /\ Cardinality(Whole(F)) \in Nat
           /\ Cardinality(Whole(G)) <= Cardinality(Whole(F))
           /\ G[0] = None => Cardinality(Whole(G)) = 0
<1>1. Cardinality(Whole(G)) \in Nat /\ Cardinality(Whole(F)) \in Nat
    BY WholeFinite
<1>2. CASE G[0] = None
    <2>1. Whole(G) = {}
        BY <1>2 DEF Whole
    <2>2. Cardinality(Whole(G)) = 0
        BY <2>1, FS_EmptySet
    <2> QED BY <1>1, <2>2
<1>3. CASE G[0] # None
    BY <1>1, <1>3 DEF Whole
<1> QED BY <1>2, <1>3

\* The failed calls of one operation count for those it is part of.
LEMMA Costlier ==
    ASSUME NEW p \in Outcomes, NEW c \in Nat
    PROVE  LET o == [p EXCEPT !.cost = @ + c] IN
           /\ o \in Outcomes /\ o.files = p.files /\ o.writer = p.writer
           /\ o.ok = p.ok
<1> DEFINE o == [p EXCEPT !.cost = @ + c]
<1>1. p.cost + c \in Nat
    BY DEF Outcomes
<1>2. o = [p EXCEPT !.cost = p.cost + c]
    BY DEF Outcomes
<1> DEFINE d == p.cost + c
<1> HIDE DEF d
<1>3. [p EXCEPT !.cost = d] \in Outcomes
    BY <1>1 DEF Outcomes, d
<1> QED BY <1>2, <1>3 DEF Outcomes, d

LEMMA Costs ==
    ASSUME NEW o \in Outcomes
    PROVE  /\ o.files \in Files /\ o.writer \in Writers \cup {None}
           /\ o.ok \in BOOLEAN /\ o.cost \in Nat
BY DEF Outcomes

\* A writer that keeps its limits and its file.
Keeps(o, clean, max, n) ==
    /\ o \in Outcomes /\ o.writer \in Writers
    /\ o.writer.max = max /\ o.writer.retained = n
    /\ Tidy(o.files, clean, n) /\ Fits(o.files, o.writer)

\* RotatingWriter::rotate: the writer has an empty file if it succeeds.
LEMMA RotateHolds ==
    ASSUME NEW F, NEW clean, NEW w \in Writers, NEW n \in 0 .. Top,
           Tidy(F, clean, n), Cardinality(Whole(F)) <= Most(w.max),
           NEW o \in Rotate(F, w, n)
    PROVE  /\ o \in Outcomes /\ o.writer \in Writers
           /\ o.writer.max = w.max /\ o.writer.retained = w.retained
           /\ Tidy(o.files, clean, n) /\ Fits(o.files, o.writer)
           /\ o.ok => /\ o.writer.open
                      /\ Cardinality(Whole(o.files)) = 0
                      /\ o.writer.bytes = 0
<1> DEFINE closed == [w EXCEPT !.open = FALSE]
<1>0. F \in Files
    BY DEF Tidy
<1>1. /\ closed \in Writers /\ closed.open = FALSE
      /\ closed.max = w.max /\ closed.retained = w.retained
    BY DEF Writers
<1>2. PICK a \in RotateFiles(F, closed, n) :
        \E p \in OpenActive(a.files, closed) :
            o = [p EXCEPT !.ok = @ /\ a.ok, !.cost = @ + a.cost]
    BY DEF Rotate
<1>3. PICK p \in OpenActive(a.files, closed) :
            o = [p EXCEPT !.ok = @ /\ a.ok, !.cost = @ + a.cost]
    BY <1>2
<1> HIDE DEF closed
<1>4. /\ a \in Outcomes /\ a.writer = closed /\ Tidy(a.files, clean, n)
      /\ a.files[0] \in {None, F[0]} /\ (a.ok => a.files[0] = None)
    BY <1>1, RotateFilesHolds
<1>5. /\ p \in Outcomes /\ p.writer \in Writers
      /\ Tidy(p.files, clean, n)
      /\ Whole(p.files) = Whole(a.files)
      /\ p.writer.max = w.max /\ p.writer.retained = w.retained
      /\ IF p.ok
         THEN /\ p.writer.open /\ p.files[0] # None
              /\ p.writer.bytes = Size(a.files)
         ELSE p.writer = closed
    BY <1>1, <1>4, OpenHolds
<1>6. /\ o \in Outcomes /\ o.files = p.files /\ o.writer = p.writer
      /\ o.ok <=> p.ok /\ a.ok
    <2>1. /\ p.ok \in BOOLEAN /\ a.ok \in BOOLEAN
          /\ p.cost \in Nat /\ a.cost \in Nat
        BY <1>4, <1>5, Costs
    <2> DEFINE q == [p EXCEPT !.ok = p.ok /\ a.ok]
    <2>2. /\ q \in Outcomes /\ q.files = p.files /\ q.writer = p.writer
          /\ q.ok = (p.ok /\ a.ok) /\ q.cost = p.cost
        BY <1>5, <2>1 DEF Outcomes
    <2>3. o = [q EXCEPT !.cost = @ + a.cost]
        BY <1>3, <1>5, <2>1 DEF Outcomes
    <2> HIDE DEF q
    <2> QED BY <2>1, <2>2, <2>3, Costlier
<1>7. /\ a.files \in Files /\ Cardinality(Whole(a.files)) \in Nat
      /\ Cardinality(Whole(F)) \in Nat
      /\ Cardinality(Whole(a.files)) <= Cardinality(Whole(F))
      /\ a.ok => Cardinality(Whole(a.files)) = 0
    BY <1>0, <1>4, WholeShrinks DEF Tidy
<1>8. /\ Cardinality(Whole(a.files)) <= Size(a.files)
      /\ a.ok => Size(a.files) = 0
    BY <1>4, <1>7, WholeFinite DEF Size
<1>9. Fits(o.files, o.writer)
    <2>1. Most(w.max) \in Nat
        BY MostBounds DEF Writers
    <2>2. Cardinality(Whole(p.files)) <= Most(w.max)
        BY <1>5, <1>7, <2>1
    <2>3. p.writer.open => p.ok
        BY <1>1, <1>5
    <2> QED BY <1>5, <1>6, <1>8, <2>2, <2>3 DEF Fits
<1> QED BY <1>5, <1>6, <1>7, <1>8, <1>9

\* RotatingWriter::open_with_limits: a new writer keeps its limits, or there
\* is none.
LEMMA OpenWithLimitsHolds ==
    ASSUME NEW F, NEW clean, NEW m \in 0 .. Top, NEW n \in 0 .. Top, n <= m,
           Tidy(F, clean, m), NEW max \in Nat,
           NEW o \in OpenWithLimits(F, max, n)
    PROVE  /\ o \in Outcomes
           /\ IF o.ok THEN Keeps(o, clean, max, n) /\ o.writer.open
              ELSE o.writer = None /\ Tidy(o.files, clean, m)
           /\ Cardinality(Whole(o.files)) <= Cardinality(Whole(F))
<1> DEFINE new == [open |-> FALSE, bytes |-> 0, max |-> max, retained |-> n]
           Shorten(b) == IF Size(b.files) > max
                         THEN RotateFiles(b.files, new, n) ELSE {b}
           Open(b) == OpenActive(b.files, new)
           Good(b) == /\ b \in Outcomes /\ Tidy(b.files, clean, m)
                      /\ b.files[0] \in {None, F[0]}
                      /\ b.ok => Tidy(b.files, clean, n)
<1>0. /\ Top \in Nat /\ m \in Nat /\ n \in Nat
      /\ Most(max) \in Nat /\ max <= Most(max)
    BY EventLogAssumption, MostBounds
<1>1. new \in Writers /\ new.max = max /\ new.retained = n /\ new.open = FALSE
    BY DEF Writers
<1>2. PICK x :
         /\ x \in Then(Then(PruneArchives(F, new, n), Shorten), Open)
         /\ o = IF x.ok THEN x ELSE [x EXCEPT !.writer = None]
    BY DEF OpenWithLimits
<1> HIDE DEF new
<1>3. ASSUME NEW a \in PruneArchives(F, new, n)
      PROVE  Good(a)
    <2>1. /\ a \in Outcomes /\ Tidy(a.files, clean, IF a.ok THEN n ELSE m)
          /\ a.files[0] = F[0]
        BY <1>1, PruneHolds
    <2> QED BY <1>0, <2>1, TidyWider
<1>4. ASSUME NEW b, b \in Then(PruneArchives(F, new, n), Shorten)
      PROVE  /\ Good(b)
             /\ b.ok => Cardinality(Whole(b.files)) <= Most(max)
    <2>1. PICK a \in PruneArchives(F, new, n) :
             \/ ~ a.ok /\ b = a
             \/ /\ a.ok
                /\ \E p \in Shorten(a) : b = [p EXCEPT !.cost = @ + a.cost]
        <3> HIDE DEF Shorten
        <3> QED BY <1>4 DEF Then
    <2>2. Good(a) /\ a.files \in Files /\ a.cost \in Nat
        BY <1>3, Costs
    <2>0. a.ok => Tidy(a.files, clean, n)
        BY <2>2
    <2>3. CASE ~ a.ok /\ b = a
        BY <2>2, <2>3
    <2>4. ASSUME a.ok, NEW p \in Shorten(a), b = [p EXCEPT !.cost = @ + a.cost]
          PROVE  Good(b) /\ (b.ok => Cardinality(Whole(b.files)) <= Most(max))
        <3>1. CASE Size(a.files) > max
            <4>1. /\ p \in Outcomes /\ Tidy(p.files, clean, n)
                  /\ p.files[0] \in {None, a.files[0]}
                  /\ p.ok => p.files[0] = None
                <5>1. /\ Tidy(a.files, clean, n)
                      /\ p \in RotateFiles(a.files, new, n)
                    BY <2>0, <2>4, <3>1
                <5> QED BY <1>1, <5>1, RotateFilesHolds
            <4>2. Tidy(p.files, clean, m)
                BY <1>0, <4>1, TidyWider
            <4>3. /\ b \in Outcomes /\ b.files = p.files /\ b.ok = p.ok
                BY <2>2, <2>4, <4>1, Costlier
            <4>4. b.ok => Cardinality(Whole(b.files)) = 0
                <5>1. b.ok => Whole(b.files) = {}
                    BY <4>1, <4>3 DEF Whole
                <5> QED BY <5>1, FS_EmptySet
            <4> QED BY <1>0, <2>2, <4>1, <4>2, <4>3, <4>4
        <3>2. CASE ~ (Size(a.files) > max)
            <4>1. p = a
                BY <2>4, <3>2
            <4>2. b \in Outcomes /\ b.files = a.files /\ b.ok = a.ok
                <5>1. p \in Outcomes
                    BY <2>2, <4>1
                <5>2. /\ b \in Outcomes /\ b.files = p.files
                      /\ b.ok = p.ok
                    BY <2>2, <2>4, <5>1, Costlier
                <5> QED BY <4>1, <5>2
            <4>3. Cardinality(Whole(a.files)) <= Most(max)
                <5>1. /\ Cardinality(Whole(a.files)) \in Nat
                      /\ Size(a.files) \in Nat
                      /\ Cardinality(Whole(a.files)) <= Size(a.files)
                    BY <2>2, WholeFinite
                <5> QED BY <1>0, <3>2, <5>1
            <4> QED BY <2>2, <4>2, <4>3
        <3> QED BY <3>1, <3>2
    <2> QED BY <2>1, <2>3, <2>4
<1>5. PICK b :
         /\ b \in Then(PruneArchives(F, new, n), Shorten)
         /\ \/ ~ b.ok /\ x = b
            \/ /\ b.ok
               /\ \E p \in Open(b) : x = [p EXCEPT !.cost = @ + b.cost]
    <2> HIDE DEF Shorten, Open
    <2> QED BY <1>2 DEF Then
<1>6. Good(b) /\ (b.ok => Cardinality(Whole(b.files)) <= Most(max))
    BY <1>4, <1>5
<1>10. /\ Cardinality(Whole(b.files)) <= Cardinality(Whole(F))
      /\ F \in Files
    BY <1>6, WholeShrinks DEF Tidy
<1>7. CASE ~ b.ok /\ x = b
    <2>1. /\ o \in Outcomes /\ o.ok = FALSE /\ o.writer = None
          /\ o.files = b.files
        BY <1>2, <1>6, <1>7 DEF Outcomes
    <2> QED BY <1>6, <1>10, <2>1
<1>8. ASSUME b.ok, NEW p \in Open(b), x = [p EXCEPT !.cost = @ + b.cost]
      PROVE  /\ o \in Outcomes
             /\ IF o.ok THEN Keeps(o, clean, max, n) /\ o.writer.open
                ELSE o.writer = None /\ Tidy(o.files, clean, m)
             /\ Cardinality(Whole(o.files)) <= Cardinality(Whole(F))
    <2>1. /\ p \in Outcomes /\ p.writer \in Writers
          /\ Tidy(p.files, clean, n)
          /\ Whole(p.files) = Whole(b.files)
          /\ p.writer.max = max /\ p.writer.retained = n
          /\ p.ok => /\ p.writer.open /\ p.files[0] # None
                     /\ p.writer.bytes = Size(b.files)
        <3>1. Tidy(b.files, clean, n) /\ p \in OpenActive(b.files, new)
            BY <1>6, <1>8
        <3> QED BY <1>1, <3>1, OpenHolds
    <2>2. x \in Outcomes /\ x.files = p.files /\ x.writer = p.writer
          /\ x.ok = p.ok
        BY <1>6, <1>8, <2>1, Costs, Costlier
    <2>3. CASE ~ x.ok
        <3>1. o \in Outcomes /\ o.ok = x.ok /\ o.writer = None
              /\ o.files = p.files
            BY <1>2, <2>2, <2>3 DEF Outcomes
        <3>2. Tidy(o.files, clean, m)
            BY <1>0, <2>1, <3>1, TidyWider
        <3> QED BY <1>10, <2>1, <2>3, <3>1, <3>2
    <2>4. CASE x.ok
        <3>1. o = x
            BY <1>2, <2>4
        <3>2. b.files \in Files /\ Cardinality(Whole(b.files)) <= Size(b.files)
            BY <1>6, WholeFinite DEF Tidy
        <3>3. Fits(o.files, o.writer)
            BY <1>0, <1>6, <1>8, <2>1, <2>2, <2>4, <3>1, <3>2 DEF Fits
        <3> QED BY <1>10, <2>1, <2>2, <2>4, <3>1, <3>3 DEF Keeps
    <2> QED BY <2>3, <2>4
<1> QED BY <1>5, <1>7, <1>8

\* RotatingWriter::write_line
LEMMA WriteLineHolds ==
    ASSUME NEW F, NEW clean, NEW w \in Writers, Tidy(F, clean, w.retained),
           Fits(F, w), NEW o \in WriteLine(F, w)
    PROVE  Keeps(o, clean, w.max, w.retained)
<1> DEFINE n == w.retained
           start == Outcome(F, w, TRUE, 0)
           Room(b) == IF Full(w) THEN Rotate(b.files, b.writer, n) ELSE {b}
           Put(b) == IF b.writer.open THEN Appended(b)
                     ELSE {[b EXCEPT !.ok = FALSE]}
<1>0. /\ n \in 0 .. Top /\ w.max \in Nat /\ w.bytes \in Nat
      /\ F \in Files /\ w.open \in BOOLEAN
      /\ Most(w.max) \in Nat /\ w.max <= Most(w.max) /\ 1 <= Most(w.max)
    BY MostBounds DEF Writers, Tidy
<1>1. /\ start \in Outcomes /\ start.files = F /\ start.writer = w
      /\ start.ok = TRUE /\ start.cost = 0
    BY <1>0 DEF Outcome, Outcomes
<1>2. PICK b :
         /\ b \in Then({start}, Room)
         /\ \/ ~ b.ok /\ o = b
            \/ /\ b.ok
               /\ \E p \in Put(b) : o = [p EXCEPT !.cost = @ + b.cost]
    <2>1. o \in Then(Then({start}, Room), Put)
        BY DEF WriteLine
    <2> HIDE DEF start, Room, Put
    <2> QED BY <2>1 DEF Then
<1>3. PICK a \in Room(start) : b = [a EXCEPT !.cost = @ + start.cost]
    <2> HIDE DEF start, Room, Put
    <2> QED BY <1>1, <1>2 DEF Then
<1> HIDE DEF start
<1>4. /\ Keeps(b, clean, w.max, n)
      /\ b.ok /\ b.writer.open => Cardinality(Whole(b.files)) < Most(w.max)
    <2>1. CASE Full(w)
        <3>1. Cardinality(Whole(F)) <= Most(w.max)
            BY DEF Fits
        <3>2. /\ a \in Outcomes /\ a.writer \in Writers
              /\ a.writer.max = w.max /\ a.writer.retained = w.retained
              /\ Tidy(a.files, clean, n) /\ Fits(a.files, a.writer)
              /\ a.ok => Cardinality(Whole(a.files)) = 0
            <4>1. a \in Rotate(F, w, n)
                BY <1>1, <1>3, <2>1
            <4> QED BY <1>0, <3>1, <4>1, RotateHolds
        <3>3. /\ b \in Outcomes /\ b.files = a.files /\ b.writer = a.writer
              /\ b.ok = a.ok
            BY <1>1, <1>3, <3>2, Costlier
        <3>4. Cardinality(Whole(b.files)) < Most(w.max) \/ ~ b.ok
            BY <1>0, <3>2, <3>3
        <3> QED BY <3>2, <3>3, <3>4 DEF Keeps
    <2>2. CASE ~ Full(w)
        <3>1. a = start
            BY <1>3, <2>2
        <3>2. /\ b \in Outcomes /\ b.files = F /\ b.writer = w
            <4>1. a \in Outcomes /\ a.files = F /\ a.writer = w
                BY <1>1, <3>1
            <4>2. /\ b \in Outcomes /\ b.files = a.files
                  /\ b.writer = a.writer
                BY <1>1, <1>3, <4>1, Costlier
            <4> QED BY <4>1, <4>2
        <3>3. w.open => Cardinality(Whole(F)) <= w.bytes
            BY DEF Fits
        <3>4. w.open => Cardinality(Whole(F)) < Most(w.max)
            <4>1. /\ Cardinality(Whole(F)) \in Nat
                BY <1>0, WholeFinite
            <4> QED BY <1>0, <2>2, <3>3, <4>1 DEF Full
        <3> QED BY <3>2, <3>4 DEF Keeps
    <2> QED BY <2>1, <2>2
<1>5. CASE ~ b.ok /\ o = b
    BY <1>4, <1>5
<1>6. ASSUME b.ok, NEW p \in Put(b), o = [p EXCEPT !.cost = @ + b.cost]
      PROVE  Keeps(o, clean, w.max, n)
    <2>0. /\ b \in Outcomes /\ b.writer \in Writers
          /\ b.writer.max = w.max /\ b.writer.retained = n
          /\ Tidy(b.files, clean, n) /\ Fits(b.files, b.writer)
          /\ b.files \in Files
        BY <1>4 DEF Keeps, Tidy
    <2> SUFFICES Keeps(p, clean, w.max, n)
        <3>1. ASSUME Keeps(p, clean, w.max, n) PROVE Keeps(o, clean, w.max, n)
            <4>1. /\ o \in Outcomes /\ o.files = p.files
                  /\ o.writer = p.writer
                BY <1>6, <2>0, <3>1, Costs, Costlier DEF Keeps
            <4> QED BY <3>1, <4>1 DEF Keeps
        <3> QED BY <3>1
    <2>1. CASE ~ b.writer.open
        <3>1. p = [b EXCEPT !.ok = FALSE]
            BY <1>6, <2>1
        <3>2. p \in Outcomes /\ p.files = b.files /\ p.writer = b.writer
            BY <2>0, <3>1 DEF Outcomes
        <3> QED BY <2>0, <3>2 DEF Keeps
    <2>2. CASE b.writer.open
        <3> DEFINE G == [Older(b.files) EXCEPT ![0] = Append(@, 0)]
                   T == [b.files EXCEPT ![0] = Append(@, Torn)]
                   v == [b.writer EXCEPT !.bytes = @ + 1]
                   last == Len(b.files[0]) + 1
        <3>1. \/ p = Outcome(G, v, TRUE, 0)
              \/ p = Outcome(b.files, b.writer, FALSE, 1)
              \/ p = Outcome(T, b.writer, FALSE, 1)
            BY <1>6, <2>2 DEF Appended
        <3>2. b.files[0] # None
            BY <2>0, <2>2 DEF Fits
        <3>3. /\ G \in Files /\ G[0] # None
              /\ Whole(G) = Whole(b.files) \cup {last}
              /\ Tidy(G, clean, n)
              /\ T \in Files /\ T[0] # None /\ Whole(T) = Whole(b.files)
              /\ Tidy(T, clean, n)
            BY <2>0, <3>2, AppendedFiles DEF Tidy
        <3>4. /\ v \in Writers /\ v.max = w.max /\ v.retained = n
              /\ v.open = b.writer.open /\ v.bytes = b.writer.bytes + 1
              /\ b.writer.bytes \in Nat
            <4>1. b.writer.bytes \in Nat /\ b.writer.bytes + 1 \in Nat
                BY <2>0 DEF Writers
            <4>2. v = [b.writer EXCEPT !.bytes = b.writer.bytes + 1]
                BY <2>0 DEF Writers
            <4> QED BY <2>0, <4>1, <4>2 DEF Writers
        <3> HIDE DEF G, T, v
        <3>5. CASE p = Outcome(G, v, TRUE, 0)
            <4>1. /\ p \in Outcomes /\ p.files = G /\ p.writer = v
                BY <3>3, <3>4, <3>5 DEF Outcome, Outcomes
            <4>2. Cardinality(Whole(G)) <= Cardinality(Whole(b.files)) + 1
                  /\ Cardinality(Whole(G)) \in Nat
                  /\ Cardinality(Whole(b.files)) \in Nat
                <5>1. IsFiniteSet(Whole(b.files))
                      /\ Cardinality(Whole(b.files)) \in Nat
                    BY <2>0, WholeFinite
                <5>2. Cardinality(Whole(G)) =
                        IF last \in Whole(b.files)
                        THEN Cardinality(Whole(b.files))
                        ELSE Cardinality(Whole(b.files)) + 1
                    <6> HIDE DEF last
                    <6>1. Cardinality(Whole(b.files) \cup {last}) =
                            IF last \in Whole(b.files)
                            THEN Cardinality(Whole(b.files))
                            ELSE Cardinality(Whole(b.files)) + 1
                        BY <5>1, FS_AddElement
                    <6> QED BY <3>3, <6>1
                <5>3. Cardinality(Whole(G)) \in Nat
                    BY <3>3, WholeFinite
                <5> QED BY <5>1, <5>2, <5>3
            <4>3. Fits(G, v)
                <5>1. /\ Cardinality(Whole(b.files)) < Most(w.max)
                      /\ Cardinality(Whole(b.files)) <= b.writer.bytes
                    BY <1>4, <1>6, <2>0, <2>2 DEF Fits
                <5>2. /\ Cardinality(Whole(G)) <= Most(w.max)
                      /\ Cardinality(Whole(G)) <= v.bytes
                    BY <1>0, <3>4, <4>2, <5>1
                <5> QED BY <3>3, <3>4, <5>2 DEF Fits
            <4> QED BY <3>3, <3>4, <4>1, <4>3 DEF Keeps
        <3>6. CASE p = Outcome(b.files, b.writer, FALSE, 1)
            <4>1. /\ p \in Outcomes /\ p.files = b.files
                  /\ p.writer = b.writer
                BY <2>0, <3>6 DEF Outcome, Outcomes
            <4> QED BY <2>0, <4>1 DEF Keeps
        <3>7. CASE p = Outcome(T, b.writer, FALSE, 1)
            <4>1. /\ p \in Outcomes /\ p.files = T /\ p.writer = b.writer
                BY <2>0, <3>3, <3>7 DEF Outcome, Outcomes
            <4>2. Fits(T, b.writer)
                BY <2>0, <3>3 DEF Fits
            <4> QED BY <2>0, <3>3, <4>1, <4>2 DEF Keeps
        <3> QED BY <3>1, <3>5, <3>6, <3>7
    <2> QED BY <2>1, <2>2
<1> QED BY <1>2, <1>5, <1>6

-----------------------------------------------------------------------------

\* What it has cost changes nothing else.
LEMMA KeepsCostlier ==
    ASSUME NEW p, NEW clean, NEW max, NEW n, Keeps(p, clean, max, n),
           NEW c \in Nat, NEW o, o = [p EXCEPT !.cost = @ + c]
    PROVE  Keeps(o, clean, max, n) /\ o.ok = p.ok
<1>1. /\ o \in Outcomes /\ o.files = p.files /\ o.writer = p.writer
      /\ o.ok = p.ok
    BY Costlier DEF Keeps
<1> QED BY <1>1 DEF Keeps

\* EventLogger::emit, up to twice.
LEMMA EmittedHolds ==
    ASSUME NEW F, NEW clean, NEW w \in Writers, Tidy(F, clean, w.retained),
           Fits(F, w), NEW count \in 0 .. 2, NEW o \in Emitted(F, w, count)
    PROVE  Keeps(o, clean, w.max, w.retained)
<1>1. CASE count = 0
    <2>1. o = [files |-> F, writer |-> w, ok |-> TRUE, cost |-> 0]
        BY <1>1 DEF Emitted, Outcome
    <2>2. F \in Files
        BY DEF Tidy
    <2>3. o \in Outcomes /\ o.files = F /\ o.writer = w
        BY <2>1, <2>2 DEF Outcomes
    <2> QED BY <2>3 DEF Keeps
<1>2. CASE count = 1
    <2>1. o \in WriteLine(F, w)
        BY <1>2 DEF Emitted
    <2> QED BY <2>1, WriteLineHolds
<1>3. CASE count = 2
    <2>1. PICK a \in WriteLine(F, w) :
             \E p \in WriteLine(a.files, a.writer) :
                 o = [p EXCEPT !.cost = @ + a.cost]
        BY <1>3 DEF Emitted, Whatever
    <2>2. PICK p \in WriteLine(a.files, a.writer) :
             o = [p EXCEPT !.cost = @ + a.cost]
        BY <2>1
    <2>3. Keeps(a, clean, w.max, w.retained)
        BY WriteLineHolds
    <2>4. /\ a.writer \in Writers /\ a.writer.max = w.max
          /\ a.writer.retained = w.retained /\ a.cost \in Nat
          /\ Tidy(a.files, clean, w.retained) /\ Fits(a.files, a.writer)
        BY <2>3, Costs DEF Keeps
    <2>5. Keeps(p, clean, w.max, w.retained)
        BY <2>4, WriteLineHolds
    <2> QED BY <2>2, <2>4, <2>5, KeepsCostlier
<1> QED BY <1>1, <1>2, <1>3

-----------------------------------------------------------------------------
\* Reconfiguration

\* What a rejected reconfiguration leaves of a clean ring.
StillClean(clean, w, c) == clean /\ c.retained <= w.retained

\* A ring that is not clean has any size.
LEMMA TidyScarred ==
    ASSUME NEW F, NEW clean, NEW m, NEW n, Tidy(F, clean, m)
    PROVE  Tidy(F, FALSE, n)
BY DEF Tidy

\* Whatever a rejected reconfiguration to a ring of n has done to the ring
\* that stays in force.
LEMMA TidyEither ==
    ASSUME NEW F, NEW clean \in BOOLEAN, NEW w \in Writers, NEW c \in Configs,
           Tidy(F, clean, c.retained)
    PROVE  Tidy(F, StillClean(clean, w, c), w.retained)
<1>1. Top \in Nat /\ c.retained \in 0 .. Top /\ w.retained \in 0 .. Top
    BY EventLogAssumption DEF Writers
<1>2. CASE c.retained <= w.retained
    <2>1. Tidy(F, clean, w.retained)
        BY <1>1, <1>2, TidyWider
    <2>2. StillClean(clean, w, c) = clean
        BY <1>2 DEF StillClean
    <2> QED BY <2>1, <2>2
<1>3. CASE ~ (c.retained <= w.retained)
    <2>1. StillClean(clean, w, c) = FALSE
        BY <1>3 DEF StillClean
    <2> QED BY <2>1, TidyScarred
<1> QED BY <1>2, <1>3

LEMMA TidyStill ==
    ASSUME NEW F, NEW clean, NEW w, NEW c, NEW n, Tidy(F, clean, n)
    PROVE  Tidy(F, StillClean(clean, w, c), n)
BY DEF Tidy, StillClean

\* RotatingWriter::reconfigure_limits: the limits are adopted or stay.
LEMMA ReconfigureLimitsHolds ==
    ASSUME NEW F, NEW clean \in BOOLEAN, NEW w \in Writers, NEW c \in Configs,
           Tidy(F, clean, w.retained), Fits(F, w),
           NEW o \in ReconfigureLimits(F, w, c)
    PROVE  IF o.ok THEN Keeps(o, clean, c.max, c.retained)
           ELSE /\ Keeps(o, StillClean(clean, w, c), w.max, w.retained)
                /\ Tidy(o.files, clean, Top)
<1> DEFINE measured == [w EXCEPT !.bytes = Size(F)]
           start == Outcome(F, measured, TRUE, 0)
           Prune(b) == IF c.retained < w.retained
                       THEN PruneArchives(b.files, b.writer, c.retained)
                       ELSE {b}
           Shorten(b) == IF b.writer.bytes > c.max
                         THEN Rotate(b.files, b.writer, c.retained) ELSE {b}
           Adopt(b) == {[b EXCEPT !.writer.max = c.max,
                                  !.writer.retained = c.retained]}
           still == StillClean(clean, w, c)
<1>0. /\ w.retained \in 0 .. Top /\ w.max \in Nat /\ w.bytes \in Nat
      /\ c.retained \in 0 .. Top /\ c.max \in Nat /\ Top \in Nat
      /\ F \in Files /\ w.open \in BOOLEAN
      /\ Most(c.max) \in Nat /\ c.max <= Most(c.max)
    BY EventLogAssumption, MostBounds DEF Writers, Tidy
<1>9. /\ w.retained \in Nat /\ w.retained <= Top
      /\ c.retained \in Nat /\ c.retained <= Top
    BY <1>0
<1>1. /\ Size(F) \in Nat /\ Cardinality(Whole(F)) <= Size(F)
      /\ Cardinality(Whole(F)) \in Nat
    BY <1>0, WholeFinite
<1>2. /\ measured \in Writers /\ measured.max = w.max
      /\ measured.retained = w.retained /\ measured.open = w.open
      /\ measured.bytes = Size(F)
    BY <1>0, <1>1 DEF Writers
<1>3. /\ start \in Outcomes /\ start.files = F /\ start.writer = measured
      /\ start.ok = TRUE /\ start.cost = 0
    BY <1>0, <1>2 DEF Outcome, Outcomes
<1> HIDE DEF measured, start
<1>4. CASE \/ o = Outcome(F, w, FALSE, 0)
           \/ o = Outcome(F, w, FALSE, 1)
    <2>1. PICK k \in {0, 1} :
             o = [files |-> F, writer |-> w, ok |-> FALSE, cost |-> k]
        BY <1>4 DEF Outcome
    <2>2. k \in Nat /\ w \in Writers \cup {None}
        BY <2>1
    <2>3. /\ o \in Outcomes /\ o.files = F /\ o.writer = w /\ o.ok = FALSE
        BY <1>0, <2>1, <2>2 DEF Outcomes
    <2>4. Tidy(F, clean, Top)
        BY <1>0, <1>9, TidyWider
    <2> QED BY <2>3, <2>4, TidyStill DEF Keeps
<1>5. ASSUME w.open,
             o \in Then(Then(Then({start}, Prune), Shorten), Adopt)
      PROVE  IF o.ok THEN Keeps(o, clean, c.max, c.retained)
             ELSE /\ Keeps(o, still, w.max, w.retained)
                  /\ Tidy(o.files, clean, Top)
    <2>1. PICK t :
             /\ t \in Then(Then({start}, Prune), Shorten)
             /\ \/ ~ t.ok /\ o = t
                \/ /\ t.ok
                   /\ \E p \in Adopt(t) : o = [p EXCEPT !.cost = @ + t.cost]
        <3> HIDE DEF Prune, Shorten, Adopt
        <3> QED BY <1>5 DEF Then
    <2>2. PICK b :
             /\ b \in Then({start}, Prune)
             /\ \/ ~ b.ok /\ t = b
                \/ /\ b.ok
                   /\ \E p \in Shorten(b) : t = [p EXCEPT !.cost = @ + b.cost]
        <3> HIDE DEF Prune, Shorten, Adopt
        <3> QED BY <2>1 DEF Then
    <2>3. PICK a \in Prune(start) : b = [a EXCEPT !.cost = @ + start.cost]
        <3> HIDE DEF Prune, Shorten, Adopt
        <3> QED BY <1>3, <2>2 DEF Then
    <2>4. /\ a \in Outcomes /\ a.writer = measured /\ a.files[0] = F[0]
          /\ Tidy(a.files, clean, w.retained)
          /\ a.ok => Tidy(a.files, clean, c.retained)
        <3>1. CASE c.retained < w.retained
            <4>1. a \in PruneArchives(F, measured, c.retained)
                BY <1>3, <2>3, <3>1
            <4>2. /\ a \in Outcomes /\ a.writer = measured
                  /\ a.files[0] = F[0]
                  /\ Tidy(a.files, clean,
                          IF a.ok THEN c.retained ELSE w.retained)
                BY <1>0, <1>2, <4>1, PruneHolds
            <4>3. a.ok => Tidy(a.files, clean, w.retained)
                BY <1>0, <3>1, <4>2, TidyWider
            <4> QED BY <4>2, <4>3
        <3>2. CASE ~ (c.retained < w.retained)
            <4>1. a = start
                BY <2>3, <3>2
            <4>2. Tidy(F, clean, c.retained)
                BY <1>0, <3>2, TidyWider
            <4> QED BY <1>3, <4>1, <4>2
        <3> QED BY <3>1, <3>2
    <2>5. /\ b \in Outcomes /\ b.files = a.files /\ b.writer = measured
          /\ b.ok = a.ok
        BY <1>3, <2>3, <2>4, Costlier
    <2>6. /\ Fits(b.files, measured) /\ b.files \in Files
          /\ Cardinality(Whole(b.files)) <= Size(F)
        <3>1. Whole(b.files) = Whole(F)
            BY <2>4, <2>5 DEF Whole
        <3> QED BY <1>1, <1>2, <2>4, <2>5, <3>1 DEF Fits, Tidy
    <2>7. /\ t \in Outcomes /\ t.writer \in Writers /\ t.writer.max = w.max
          /\ t.writer.retained = w.retained /\ Fits(t.files, t.writer)
          /\ Tidy(t.files, still, w.retained) /\ Tidy(t.files, clean, Top)
          /\ t.ok => /\ Tidy(t.files, clean, c.retained)
                     /\ Cardinality(Whole(t.files)) <= Most(c.max)
        <3>0. Tidy(b.files, clean, Top)
            BY <1>0, <1>9, <2>4, <2>5, TidyWider
        <3>1. CASE ~ b.ok /\ t = b
            BY <1>2, <2>4, <2>5, <2>6, <3>0, <3>1, TidyStill
        <3>2. ASSUME b.ok, NEW p \in Shorten(b),
                     t = [p EXCEPT !.cost = @ + b.cost]
              PROVE  /\ t \in Outcomes /\ t.writer \in Writers
                     /\ t.writer.max = w.max
                     /\ t.writer.retained = w.retained
                     /\ Fits(t.files, t.writer)
                     /\ Tidy(t.files, still, w.retained)
                     /\ Tidy(t.files, clean, Top)
                     /\ t.ok => /\ Tidy(t.files, clean, c.retained)
                                /\ Cardinality(Whole(t.files)) <= Most(c.max)
            <4>0. Tidy(b.files, clean, c.retained) /\ b.cost \in Nat
                BY <2>4, <2>5, <3>2, Costs
            <4>1. CASE b.writer.bytes > c.max
                <5>1. p \in Rotate(b.files, measured, c.retained)
                    BY <2>5, <3>2, <4>1
                <5>2. Cardinality(Whole(b.files)) <= Most(measured.max)
                    BY <2>6 DEF Fits
                <5>3. /\ p \in Outcomes /\ p.writer \in Writers
                      /\ p.writer.max = w.max
                      /\ p.writer.retained = w.retained
                      /\ Tidy(p.files, clean, c.retained)
                      /\ Fits(p.files, p.writer)
                      /\ p.ok => Cardinality(Whole(p.files)) = 0
                    BY <1>0, <1>2, <4>0, <5>1, <5>2, RotateHolds
                <5>4. /\ t \in Outcomes /\ t.files = p.files
                      /\ t.writer = p.writer /\ t.ok = p.ok
                    BY <3>2, <4>0, <5>3, Costlier
                <5>5. Tidy(p.files, still, w.retained)
                    BY <5>3, TidyEither
                <5>6. Tidy(p.files, clean, Top)
                    BY <1>0, <1>9, <5>3, TidyWider
                <5> QED BY <1>0, <5>3, <5>4, <5>5, <5>6
            <4>2. CASE ~ (b.writer.bytes > c.max)
                <5>1. p = b
                    BY <3>2, <4>2
                <5>2. /\ t \in Outcomes /\ t.files = b.files
                      /\ t.writer = measured /\ t.ok = b.ok
                    <6>1. p \in Outcomes
                        BY <2>5, <5>1
                    <6>2. /\ t \in Outcomes /\ t.files = p.files
                          /\ t.writer = p.writer /\ t.ok = p.ok
                        BY <3>2, <4>0, <6>1, Costlier
                    <6> QED BY <2>5, <5>1, <6>2
                <5>3. Tidy(b.files, still, w.retained)
                    BY <2>4, <2>5, TidyStill
                <5>4. Cardinality(Whole(b.files)) <= Most(c.max)
                    <6>1. Cardinality(Whole(b.files)) \in Nat
                        BY <2>6, WholeFinite
                    <6>2. Size(F) <= c.max
                        BY <1>0, <1>1, <1>2, <2>5, <4>2
                    <6> QED BY <1>0, <1>1, <2>6, <6>1, <6>2
                <5> QED BY <1>2, <2>6, <3>0, <4>0, <5>2, <5>3, <5>4
            <4> QED BY <4>1, <4>2
        <3> QED BY <2>2, <3>1, <3>2
    <2>8. CASE ~ t.ok /\ o = t
        BY <2>7, <2>8 DEF Keeps
    <2>9. ASSUME t.ok, NEW p, p \in Adopt(t),
                 o = [p EXCEPT !.cost = @ + t.cost]
          PROVE  Keeps(o, clean, c.max, c.retained) /\ o.ok
        <3>1. p = [t EXCEPT !.writer.max = c.max,
                            !.writer.retained = c.retained]
            BY <2>9
        <3> DEFINE v == [t.writer EXCEPT !.max = c.max,
                                         !.retained = c.retained]
        <3>2. /\ v \in Writers /\ v.max = c.max /\ v.retained = c.retained
              /\ v.open = t.writer.open /\ v.bytes = t.writer.bytes
            BY <1>0, <2>7 DEF Writers
        <3>3. p = [t EXCEPT !.writer = v]
            BY <2>7, <3>1 DEF Outcomes, Writers
        <3> HIDE DEF v
        <3>4. /\ p \in Outcomes /\ p.files = t.files /\ p.writer = v
              /\ p.ok = t.ok
            BY <2>7, <3>2, <3>3 DEF Outcomes
        <3>5. Fits(t.files, v)
            BY <2>7, <2>9, <3>2 DEF Fits
        <3>6. Keeps(p, clean, c.max, c.retained)
            BY <2>7, <2>9, <3>2, <3>4, <3>5 DEF Keeps
        <3>7. t.cost \in Nat
            BY <2>7, Costs
        <3>8. Keeps(o, clean, c.max, c.retained) /\ o.ok = p.ok
            <4>1. o = [p EXCEPT !.cost = @ + t.cost]
                BY <2>9
            <4> QED BY <3>6, <3>7, <4>1, KeepsCostlier
        <3> QED BY <2>9, <3>4, <3>8
    <2> QED BY <2>1, <2>8, <2>9
<1>6. \/ o = Outcome(F, w, FALSE, 0)
      \/ o = Outcome(F, w, FALSE, 1)
      \/ w.open /\ o \in Then(Then(Then({start}, Prune), Shorten), Adopt)
    BY DEF ReconfigureLimits, start, measured
<1> QED BY <1>4, <1>5, <1>6

\* RotatingWriter::reconfigure: an old writer that is opened again has its
\* limits.
LEMMA ReconfigureWriterHolds ==
    ASSUME NEW F, NEW clean \in BOOLEAN, NEW w \in Writers, NEW c \in Configs,
           Tidy(F, clean, w.retained), Fits(F, w),
           NEW o \in ReconfigureWriter(F, w, c)
    PROVE  IF o.ok THEN Keeps(o, clean, c.max, c.retained)
           ELSE /\ Keeps(o, StillClean(clean, w, c), w.max, w.retained)
                /\ Tidy(o.files, clean, Top)
<1> DEFINE still == StillClean(clean, w, c)
<1>0. /\ w.retained \in 0 .. Top /\ w.max \in Nat /\ Top \in Nat
      /\ Top \in 0 .. Top /\ w.retained <= Top /\ w.retained \in Nat
      /\ Most(w.max) \in Nat
    BY EventLogAssumption, MostBounds DEF Writers
<1>1. PICK a \in ReconfigureLimits(F, w, c) :
         \/ (a.ok \/ a.writer.open) /\ o = a
         \/ /\ ~ a.ok /\ ~ a.writer.open
            /\ \E p \in OpenWithLimits(a.files, w.max, w.retained) :
                 o = [files |-> p.files, ok |-> FALSE,
                      cost |-> a.cost + p.cost,
                      writer |-> IF p.ok THEN p.writer ELSE a.writer]
    BY DEF ReconfigureWriter
<1>2. IF a.ok THEN Keeps(a, clean, c.max, c.retained)
      ELSE Keeps(a, still, w.max, w.retained) /\ Tidy(a.files, clean, Top)
    BY ReconfigureLimitsHolds
<1>3. CASE o = a
    BY <1>2, <1>3
<1>4. ASSUME ~ a.ok, ~ a.writer.open,
             NEW p \in OpenWithLimits(a.files, w.max, w.retained),
             o = [files |-> p.files, ok |-> FALSE, cost |-> a.cost + p.cost,
                  writer |-> IF p.ok THEN p.writer ELSE a.writer]
      PROVE  /\ Keeps(o, still, w.max, w.retained) /\ ~ o.ok
             /\ Tidy(o.files, clean, Top)
    <2>1. /\ a.writer \in Writers /\ a.writer.max = w.max
          /\ a.writer.retained = w.retained /\ a.cost \in Nat
          /\ Tidy(a.files, still, w.retained) /\ Fits(a.files, a.writer)
        BY <1>2, <1>4, Costs DEF Keeps
    <2>2. /\ p \in Outcomes
          /\ IF p.ok THEN Keeps(p, still, w.max, w.retained)
             ELSE Tidy(p.files, still, w.retained)
          /\ Cardinality(Whole(p.files)) <= Cardinality(Whole(a.files))
        <3>1. w.retained <= w.retained
            BY <1>0
        <3> QED BY <1>0, <2>1, <3>1, OpenWithLimitsHolds
    <2>6. Tidy(p.files, clean, Top)
        <3>1. Tidy(a.files, clean, Top)
            BY <1>2, <1>4
        <3>2. IF p.ok THEN Keeps(p, clean, w.max, w.retained)
              ELSE Tidy(p.files, clean, Top)
            BY <1>0, <3>1, OpenWithLimitsHolds
        <3> QED BY <1>0, <3>2, TidyWider DEF Keeps
    <2>3. p.files \in Files /\ p.cost \in Nat /\ a.cost + p.cost \in Nat
        BY <2>1, <2>2, Costs
    <2>4. CASE p.ok
        <3>1. p.writer \in Writers
            BY <2>2, <2>4 DEF Keeps
        <3>2. /\ o \in Outcomes /\ o.files = p.files /\ o.writer = p.writer
              /\ o.ok = FALSE
            BY <1>4, <2>3, <2>4, <3>1 DEF Outcomes
        <3> QED BY <2>2, <2>4, <2>6, <3>2 DEF Keeps
    <2>5. CASE ~ p.ok
        <3>1. /\ o \in Outcomes /\ o.files = p.files /\ o.writer = a.writer
              /\ o.ok = FALSE
            BY <1>4, <2>1, <2>3, <2>5 DEF Outcomes
        <3>2. /\ Cardinality(Whole(p.files)) \in Nat
              /\ Cardinality(Whole(a.files)) \in Nat
            BY <2>1, <2>3, WholeFinite DEF Tidy
        <3>3. Cardinality(Whole(p.files)) <= Most(w.max)
            BY <1>0, <2>1, <2>2, <3>2 DEF Fits
        <3>4. Fits(p.files, a.writer)
            BY <1>4, <2>1, <3>3 DEF Fits
        <3> QED BY <2>1, <2>2, <2>5, <2>6, <3>1, <3>4 DEF Keeps
    <2> QED BY <2>4, <2>5
<1> QED BY <1>1, <1>2, <1>3, <1>4

-----------------------------------------------------------------------------
\* Actions

Clean == "archive" \notin scars

\* What the log is like under a configuration.
Kept(o, clean, c) ==
    IF c = None \/ c.level = "off"
    THEN o \in Outcomes /\ o.writer = None /\ Tidy(o.files, clean, Top)
    ELSE Keeps(o, clean, c.max, c.retained)

LEMMA KeptCostlier ==
    ASSUME NEW p, NEW clean, NEW c, Kept(p, clean, c), NEW k \in Nat,
           NEW o, o = [p EXCEPT !.cost = @ + k]
    PROVE  Kept(o, clean, c) /\ o.ok = p.ok
<1>1. p \in Outcomes
    BY DEF Kept, Keeps
<1>2. /\ o \in Outcomes /\ o.files = p.files /\ o.writer = p.writer
      /\ o.ok = p.ok
    BY <1>1, Costlier
<1> QED BY <1>2 DEF Kept, Keeps

\* The invariant says so of the log, and nothing else of it.
LEMMA KeptNow ==
    ASSUME LogInv, NEW ok \in BOOLEAN
    PROVE  Kept(Outcome(files, writer, ok, 0), Clean, applied)
<1> DEFINE o == [files |-> files, writer |-> writer, ok |-> ok, cost |-> 0]
<1>1. files \in Files /\ writer \in Writers \cup {None}
    BY DEF LogInv, TypeOK
<1>2. o \in Outcomes /\ o.files = files /\ o.writer = writer
    BY <1>1 DEF Outcomes
<1>3. o = Outcome(files, writer, ok, 0)
    BY DEF Outcome
<1> HIDE DEF o
<1>4. CASE ~ Logging
    <2>1. applied = None \/ applied.level = "off"
        BY <1>4 DEF Logging
    <2>2. writer = None /\ Tidy(files, Clean, Top)
        BY <1>4 DEF LogInv, TypeOK, Clean
    <2> QED BY <1>2, <1>3, <2>1, <2>2 DEF Kept
<1>5. CASE Logging
    <2>1. ~ (applied = None \/ applied.level = "off")
        BY <1>5 DEF Logging
    <2>2. /\ writer \in Writers /\ writer.max = applied.max
          /\ writer.retained = applied.retained
          /\ Tidy(files, Clean, applied.retained) /\ Fits(files, writer)
        BY <1>5 DEF LogInv, TypeOK, Clean
    <2> QED BY <1>2, <1>3, <2>1, <2>2 DEF Kept, Keeps
<1> QED BY <1>4, <1>5

LEMMA KeptThen ==
    ASSUME NEW o, Kept(o, Clean', applied'), files' = o.files,
           writer' = o.writer, applied' \in {None} \cup Configs,
           window' \in 0 .. MaxWindow, faults' \in 0 .. MaxFaults,
           unreported' = window', window' # 0 => Counting'
    PROVE  LogInv'
<1>0. o.files \in Files
    BY Costs DEF Kept, Keeps
<1>1. CASE ~ Logging'
    <2>1. applied' = None \/ applied'.level = "off"
        BY <1>1 DEF Logging
    <2>2. o.writer = None /\ Tidy(o.files, Clean', Top)
        BY <2>1 DEF Kept
    <2> QED BY <1>0, <1>1, <2>2 DEF LogInv, TypeOK, Clean
<1>2. CASE Logging'
    <2>1. ~ (applied' = None \/ applied'.level = "off")
        BY <1>2 DEF Logging
    <2>2. Keeps(o, Clean', applied'.max, applied'.retained)
        BY <2>1 DEF Kept
    <2> QED BY <1>0, <1>2, <2>2 DEF LogInv, TypeOK, Clean, Keeps
<1> QED BY <1>1, <1>2

LEMMA EmittedKept ==
    ASSUME NEW p, NEW clean, NEW c \in Configs, c.level # "off",
           Kept(p, clean, c), NEW count \in 0 .. 2,
           NEW o \in Emitted(p.files, p.writer, count)
    PROVE  Kept(o, clean, c)
<1>1. c # None
    BY EventLogAssumption
<1>2. Keeps(p, clean, c.max, c.retained)
    BY <1>1 DEF Kept
<1>3. /\ p.writer \in Writers /\ p.writer.max = c.max
      /\ p.writer.retained = c.retained
      /\ Tidy(p.files, clean, c.retained) /\ Fits(p.files, p.writer)
    BY <1>2 DEF Keeps
<1>4. Keeps(o, clean, c.max, c.retained)
    BY <1>3, EmittedHolds
<1> QED BY <1>1, <1>4 DEF Kept

\* flush_decision_summary
LEMMA SummaryKept ==
    ASSUME LogInv, NEW o \in Summary(files, writer)
    PROVE  Kept(o, Clean, applied)
<1> DEFINE now == Outcome(files, writer, TRUE, 0)
<1>1. now.files = files /\ now.writer = writer /\ Kept(now, Clean, applied)
    BY KeptNow DEF Outcome
<1> HIDE DEF now
<1>2. CASE Counted > 0
    <2>1. applied \in Configs /\ applied.level # "off"
        BY <1>2 DEF Counted, Counting, LogInv, TypeOK
    <2>2. o \in Emitted(now.files, now.writer, 1)
        BY <1>1, <1>2 DEF Summary
    <2> QED BY <1>1, <2>1, <2>2, EmittedKept
<1>3. CASE ~ (Counted > 0)
    <2>1. o = now
        BY <1>3 DEF Summary, Emitted, now
    <2> QED BY <1>1, <2>1
<1> QED BY <1>2, <1>3

\* EventSink::reconfigure
LEMMA SinkKept ==
    ASSUME LogInv, applied # None, NEW p, Kept(p, Clean, applied),
           NEW c \in Configs, NEW o \in SinkReconfigured(p.files, p.writer, c)
    PROVE  /\ o.ok => Kept(o, Clean, c)
           /\ ~ o.ok => Kept(o, Clean /\ (writer # None =>
                                             c.retained <= writer.retained),
                             applied)
           /\ Tidy(o.files, Clean, Top)
<1> DEFINE still == Clean /\ (writer # None => c.retained <= writer.retained)
<1>0. /\ applied \in Configs /\ c # None /\ Top \in Nat /\ Top \in 0 .. Top
      /\ c.retained \in 0 .. Top /\ c.max \in Nat /\ Clean \in BOOLEAN
      /\ \A d \in Configs : d.retained \in Nat /\ d.retained <= Top
    BY EventLogAssumption DEF LogInv, TypeOK, Clean
<1>1. /\ p \in Outcomes /\ p.files \in Files
      /\ p.writer \in Writers \cup {None}
    BY Costs DEF Kept, Keeps
<1>2. Tidy(p.files, Clean, Top)
    <2>1. CASE applied.level = "off"
        BY <2>1 DEF Kept
    <2>2. CASE applied.level # "off"
        <3>1. Tidy(p.files, Clean, applied.retained)
            BY <1>0, <2>2 DEF Kept, Keeps
        <3> QED BY <1>0, <3>1, TidyWider
    <2> QED BY <2>1, <2>2
<1>3. CASE c = applied
    <2>1. o = [files |-> p.files, writer |-> p.writer, ok |-> TRUE, cost |-> 0]
        BY <1>3 DEF SinkReconfigured, Outcome
    <2>2. /\ o \in Outcomes /\ o.files = p.files /\ o.writer = p.writer
          /\ o.ok = TRUE
        BY <1>1, <2>1 DEF Outcomes
    <2> QED BY <1>2, <1>3, <2>2 DEF Kept, Keeps
<1>4. CASE c # applied /\ c.level = "off"
    <2>1. o = [files |-> p.files, writer |-> None, ok |-> TRUE, cost |-> 0]
        BY <1>4 DEF SinkReconfigured, Outcome
    <2>2. /\ o \in Outcomes /\ o.files = p.files /\ o.writer = None
          /\ o.ok = TRUE
        BY <1>1, <2>1 DEF Outcomes
    <2> QED BY <1>2, <1>4, <2>2 DEF Kept
<1>5. CASE c # applied /\ c.level # "off"
    <2>0. o \in IF p.writer = None
                THEN OpenWithLimits(p.files, c.max, c.retained)
                ELSE ReconfigureWriter(p.files, p.writer, c)
        BY <1>5 DEF SinkReconfigured
    <2>1. CASE applied.level = "off"
        <3>1. p.writer = None /\ writer = None
            BY <2>1 DEF Kept, LogInv, TypeOK, Logging
        <3>2. /\ o \in Outcomes
              /\ IF o.ok THEN Keeps(o, Clean, c.max, c.retained)
                 ELSE o.writer = None /\ Tidy(o.files, Clean, Top)
            <4>1. o \in OpenWithLimits(p.files, c.max, c.retained)
                BY <2>0, <3>1
            <4>2. c.retained <= Top
                BY <1>0
            <4> QED BY <1>0, <1>2, <4>1, <4>2, OpenWithLimitsHolds
        <3>3. still = Clean
            BY <1>0, <3>1
        <3>4. o.ok => Kept(o, Clean, c)
            BY <1>0, <1>5, <3>2 DEF Kept
        <3>5. ~ o.ok => Kept(o, Clean, applied)
            BY <2>1, <3>2 DEF Kept
        <3>6. Tidy(o.files, Clean, Top)
            BY <1>0, <3>2, TidyWider DEF Keeps
        <3> QED BY <3>3, <3>4, <3>5, <3>6
    <2>2. CASE applied.level # "off"
        <3>1. /\ p.writer \in Writers /\ p.writer.max = applied.max
              /\ p.writer.retained = applied.retained
              /\ Tidy(p.files, Clean, applied.retained)
              /\ Fits(p.files, p.writer)
            BY <1>0, <2>2, EventLogAssumption DEF Kept, Keeps
        <3>2. /\ writer \in Writers /\ writer.retained = applied.retained
              /\ writer # None /\ p.writer # None
            BY <2>2, <3>1, EventLogAssumption DEF LogInv, TypeOK, Logging
        <3>3. StillClean(Clean, p.writer, c) = still
            BY <3>1, <3>2 DEF StillClean
        <3>4. IF o.ok THEN Keeps(o, Clean, c.max, c.retained)
              ELSE /\ Keeps(o, still, applied.max, applied.retained)
                   /\ Tidy(o.files, Clean, Top)
            <4>1. o \in ReconfigureWriter(p.files, p.writer, c)
                BY <2>0, <3>2
            <4> HIDE DEF still
            <4> QED BY <1>0, <3>1, <3>3, <4>1, ReconfigureWriterHolds
        <3> HIDE DEF still
        <3>5. o.ok => Kept(o, Clean, c)
            BY <1>0, <1>5, <3>4 DEF Kept
        <3>6. ~ o.ok => Kept(o, still, applied)
            BY <1>0, <2>2, <3>4, EventLogAssumption DEF Kept
        <3>7. Tidy(o.files, Clean, Top)
            BY <1>0, <3>4, TidyWider DEF Keeps
        <3> QED BY <3>5, <3>6, <3>7 DEF still
    <2> QED BY <2>1, <2>2
<1> QED BY <1>3, <1>4, <1>5

\* What the invariant says of the rest of the state.
LEMMA Numbers ==
    ASSUME LogInv
    PROVE  /\ applied \in {None} \cup Configs
           /\ window \in 0 .. MaxWindow /\ window \in Nat
           /\ unreported = window
           /\ Counted = window /\ (window # 0 => Counting)
           /\ faults \in 0 .. MaxFaults /\ MaxFaults \in Nat
           /\ MaxWindow \in Nat \ {0}
BY EventLogAssumption DEF LogInv, TypeOK, Counted

LEMMA FaultsBounded ==
    ASSUME LogInv, NEW o \in Outcomes, faults + o.cost <= MaxFaults,
           faults' = faults + o.cost
    PROVE  faults' \in 0 .. MaxFaults
BY Numbers, Costs

\* What is kept is a possible outcome.
LEMMA KeptOutcome ==
    ASSUME NEW o, NEW clean, NEW c, Kept(o, clean, c)
    PROVE  o \in Outcomes
BY DEF Kept, Keeps

LEMMA InitHolds == Init => LogInv
<1> SUFFICES ASSUME Init PROVE LogInv
    OBVIOUS
<1>1. files \in Files /\ \A i \in 0 .. Top : files[i] = None
    BY DEF Init, Files
<1>2. Records(files) = {}
    BY <1>1 DEF Records
<1>3. Ordered(files) /\ Followed(files)
    BY <1>2 DEF Ordered, Followed
<1>4. Within(files, Top)
    <2>1. \A i \in 1 .. Top : i \in 0 .. Top
        BY EventLogAssumption
    <2> QED BY <1>1, <2>1 DEF Within
<1>5. Tidy(files, TRUE, Top)
    BY <1>1, <1>3, <1>4 DEF Tidy
<1> QED BY <1>1, <1>5, EventLogAssumption
        DEF Init, LogInv, TypeOK, Logging, Counting

\* EventSink::service
LEMMA StartHolds == LogInv /\ Start => LogInv'
<1> SUFFICES ASSUME LogInv, Start PROVE LogInv'
    OBVIOUS
<1>0. /\ applied = None /\ window = 0 /\ window' = 0 /\ unreported' = 0
      /\ Clean' = Clean /\ Clean \in BOOLEAN
      /\ Top \in Nat /\ Top \in 0 .. Top
    BY Numbers, EventLogAssumption DEF Start, Counting, Clean
<1>1. PICK c \in Configs :
        /\ Happens(IF c.level = "off" THEN {Outcome(files, None, TRUE, 0)}
                   ELSE OpenWithLimits(files, c.max, c.retained),
                   "started", "rejected")
        /\ applied' = IF result' = "started" THEN c ELSE None
    BY DEF Start
<1>2. PICK o \in IF c.level = "off" THEN {Outcome(files, None, TRUE, 0)}
                 ELSE OpenWithLimits(files, c.max, c.retained) :
        /\ faults + o.cost <= MaxFaults
        /\ faults' = faults + o.cost
        /\ files' = o.files /\ writer' = o.writer
        /\ result' = IF o.ok THEN "started" ELSE "rejected"
    BY <1>1 DEF Happens
<1>3. c # None /\ c.retained \in 0 .. Top /\ c.max \in Nat
      /\ c.retained <= Top
    BY <1>0, EventLogAssumption
<1>4. files \in Files /\ Tidy(files, Clean, Top)
    BY <1>0 DEF LogInv, TypeOK, Logging, Clean
<1>5. /\ o \in Outcomes
      /\ o.ok => Kept(o, Clean, c)
      /\ ~ o.ok => Kept(o, Clean, None)
    <2>1. CASE c.level = "off"
        <3>1. o = [files |-> files, writer |-> None, ok |-> TRUE, cost |-> 0]
            BY <2>1 DEF Outcome
        <3>2. /\ o \in Outcomes /\ o.files = files /\ o.writer = None
              /\ o.ok = TRUE
            BY <1>4, <3>1 DEF Outcomes
        <3> QED BY <1>4, <2>1, <3>2 DEF Kept
    <2>2. CASE c.level # "off"
        <3>1. o \in OpenWithLimits(files, c.max, c.retained)
            BY <2>2
        <3>2. /\ o \in Outcomes
              /\ IF o.ok THEN Keeps(o, Clean, c.max, c.retained)
                 ELSE o.writer = None /\ Tidy(o.files, Clean, Top)
            BY <1>0, <1>3, <1>4, <3>1, OpenWithLimitsHolds
        <3> QED BY <1>3, <2>2, <3>2 DEF Kept
    <2> QED BY <2>1, <2>2
<1>6. Kept(o, Clean', applied') /\ applied' \in {None} \cup Configs
    BY <1>0, <1>1, <1>2, <1>5
<1>7. faults' \in 0 .. MaxFaults
    BY <1>2, <1>5, FaultsBounded
<1>8. window' \in 0 .. MaxWindow
    BY <1>0, Numbers
<1> QED BY <1>0, <1>2, <1>6, <1>7, <1>8, KeptThen

\* A step that writes so many records and keeps the configuration.
LEMMA WritesHold ==
    ASSUME LogInv, applied # None, NEW o, Kept(o, Clean, applied),
           faults + o.cost <= MaxFaults, faults' = faults + o.cost,
           files' = o.files, writer' = o.writer,
           UNCHANGED <<applied, scars>>,
           window' \in 0 .. MaxWindow, unreported' = window',
           window' # 0 => Counting
    PROVE  LogInv'
<1>1. faults' \in 0 .. MaxFaults
    BY KeptOutcome, FaultsBounded
<1>2. Kept(o, Clean', applied') /\ (window' # 0 => Counting')
    BY DEF Clean, Counting
<1> QED BY <1>1, <1>2, Numbers, KeptThen

LEMMA EventHolds == LogInv /\ Event => LogInv'
<1> SUFFICES ASSUME LogInv, Event PROVE LogInv'
    OBVIOUS
<1> DEFINE now == Outcome(files, writer, TRUE, 0)
<1>1. now.files = files /\ now.writer = writer /\ Kept(now, Clean, applied)
    BY KeptNow DEF Outcome
<1> HIDE DEF now
<1>2. PICK o \in Emitted(files, writer, 1) :
        /\ faults + o.cost <= MaxFaults /\ faults' = faults + o.cost
        /\ files' = o.files /\ writer' = o.writer
    BY DEF Event, Happens
<1>3. applied \in Configs /\ applied.level # "off" /\ applied # None
    BY Numbers DEF Event, Logging
<1>4. Kept(o, Clean, applied)
    BY <1>1, <1>2, <1>3, EmittedKept
<1> QED BY <1>2, <1>3, <1>4, Numbers, WritesHold DEF Event

LEMMA DecisionHolds == LogInv /\ Decision => LogInv'
<1> SUFFICES ASSUME LogInv, Decision PROVE LogInv'
    OBVIOUS
<1> DEFINE now == Outcome(files, writer, TRUE, 0)
<1>1. now.files = files /\ now.writer = writer /\ Kept(now, Clean, applied)
    BY KeptNow DEF Outcome
<1> HIDE DEF now
<1>2. PICK due \in BOOLEAN, notable \in BOOLEAN :
        /\ due => window > 0
        /\ due \/ window < MaxWindow
        /\ Happens(Emitted(files, writer,
                      (IF due THEN 1 ELSE 0) + (IF notable THEN 1 ELSE 0)),
                   IF due \/ notable THEN "accepted" ELSE result, "lost")
        /\ window' = IF due THEN 1 ELSE window + 1
        /\ unreported' = IF due THEN unreported - window + 1 ELSE unreported + 1
    BY DEF Decision
<1> DEFINE count == (IF due THEN 1 ELSE 0) + (IF notable THEN 1 ELSE 0)
<1>3. count \in 0 .. 2
    OBVIOUS
<1>4. PICK o \in Emitted(files, writer, count) :
        /\ faults + o.cost <= MaxFaults /\ faults' = faults + o.cost
        /\ files' = o.files /\ writer' = o.writer
    BY <1>2 DEF Happens
<1> HIDE DEF count
<1>5. applied \in Configs /\ applied.level # "off" /\ applied # None
    BY Numbers DEF Decision, Counting
<1>6. Kept(o, Clean, applied)
    BY <1>1, <1>3, <1>4, <1>5, EmittedKept
<1>7. window' \in 0 .. MaxWindow /\ unreported' = window'
    BY <1>2, Numbers
<1> QED BY <1>4, <1>5, <1>6, <1>7, WritesHold DEF Decision

LEMMA FlushHolds == LogInv /\ Flush => LogInv'
<1> SUFFICES ASSUME LogInv, Flush PROVE LogInv'
    OBVIOUS
<1>1. PICK o \in Summary(files, writer) :
        /\ faults + o.cost <= MaxFaults /\ faults' = faults + o.cost
        /\ files' = o.files /\ writer' = o.writer
    BY DEF Flush, Happens
<1>2. Kept(o, Clean, applied)
    BY SummaryKept
<1>3. /\ window' = 0 /\ unreported' = 0 /\ window' \in 0 .. MaxWindow
      /\ applied # None
    BY Numbers DEF Flush, Counting
<1> QED BY <1>1, <1>2, <1>3, WritesHold DEF Flush

LEMMA ReconfigureHolds == LogInv /\ Reconfigure => LogInv'
<1> SUFFICES ASSUME LogInv, Reconfigure PROVE LogInv'
    OBVIOUS
<1>1. PICK c \in Configs :
        /\ Happens(Whatever(Summary(files, writer),
                      LAMBDA o : SinkReconfigured(o.files, o.writer, c)),
                   "reloaded", "rejected")
        /\ applied' = IF result' = "reloaded" THEN c ELSE applied
        /\ window' = IF \/ Counted > 0
                        \/ result' = "reloaded" /\ c.level # applied.level
                     THEN 0 ELSE window
        /\ scars' = scars \cup Scars(c)
        /\ unreported' = unreported - Counted
    BY DEF Reconfigure
<1>2. PICK o :
        /\ o \in Whatever(Summary(files, writer),
                    LAMBDA x : SinkReconfigured(x.files, x.writer, c))
        /\ faults + o.cost <= MaxFaults /\ faults' = faults + o.cost
        /\ files' = o.files /\ writer' = o.writer
        /\ result' = IF o.ok THEN "reloaded" ELSE "rejected"
    BY <1>1 DEF Happens
<1>3. PICK a \in Summary(files, writer) :
        \E q \in SinkReconfigured(a.files, a.writer, c) :
            o = [q EXCEPT !.cost = @ + a.cost]
    BY <1>2 DEF Whatever
<1>4. PICK q \in SinkReconfigured(a.files, a.writer, c) :
        o = [q EXCEPT !.cost = @ + a.cost]
    BY <1>3
<1>5. applied # None /\ Kept(a, Clean, applied)
    BY SummaryKept DEF Reconfigure
<1> DEFINE still == Clean /\ (writer # None => c.retained <= writer.retained)
<1>6. /\ q.ok => Kept(q, Clean, c)
      /\ ~ q.ok => Kept(q, still, applied)
    BY <1>5, SinkKept
<1> HIDE DEF still
<1>7. /\ o.ok => Kept(o, Clean, c)
      /\ ~ o.ok => Kept(o, still, applied)
    <2>1. a.cost \in Nat
        BY <1>5, KeptOutcome, Costs
    <2>2. CASE q.ok
        <3>1. Kept(o, Clean, c) /\ o.ok = q.ok
            <4>1. Kept(q, Clean, c)
                BY <1>6, <2>2
            <4> QED BY <1>4, <2>1, <4>1, KeptCostlier
        <3> QED BY <2>2, <3>1
    <2>3. CASE ~ q.ok
        <3>1. Kept(o, still, applied) /\ o.ok = q.ok
            BY <1>4, <1>6, <2>1, <2>3, KeptCostlier
        <3> QED BY <2>3, <3>1
    <2> QED BY <2>2, <2>3
<1>8. /\ o.ok => Clean' = Clean
      /\ ~ o.ok => Clean' = still
    <2>1. CASE o.ok
        <3>1. Scars(c) = {}
            BY <1>2, <2>1 DEF Scars
        <3> QED BY <1>1, <2>1, <3>1 DEF Clean
    <2>2. CASE ~ o.ok
        <3>1. "archive" \in Scars(c) <=>
                 writer # None /\ c.retained > writer.retained
            BY <1>2, <2>2 DEF Scars
        <3>2. writer # None =>
                 /\ c.retained \in Int /\ writer.retained \in Int
            BY EventLogAssumption DEF LogInv, TypeOK, Writers
        <3>3. "archive" \in Scars(c) <=>
                 ~ (writer # None => c.retained <= writer.retained)
            BY <3>1, <3>2
        <3>4. "archive" \in scars' <=>
                 "archive" \in scars \/ "archive" \in Scars(c)
            BY <1>1
        <3> QED BY <2>2, <3>3, <3>4 DEF Clean, still
    <2> QED BY <2>1, <2>2
<1>9. Kept(o, Clean', applied') /\ applied' \in {None} \cup Configs
    BY <1>1, <1>2, <1>7, <1>8, Numbers
<1>10. window' = 0 /\ unreported' = 0 /\ window' \in 0 .. MaxWindow
    BY <1>1, Numbers
<1>11. faults' \in 0 .. MaxFaults
    BY <1>2, <1>9, KeptOutcome, FaultsBounded
<1> QED BY <1>2, <1>9, <1>10, <1>11, KeptThen

\* Without a writer the files are as they were left.
LEMMA KeptClosed ==
    ASSUME LogInv, NEW o, Kept(o, Clean, applied)
    PROVE  Tidy(o.files, Clean, Top) /\ o.files \in Files
<1>1. Top \in Nat /\ \A c \in Configs : c.retained \in Nat /\ c.retained <= Top
    BY EventLogAssumption
<1>2. CASE applied = None \/ applied.level = "off"
    BY <1>2 DEF Kept, Tidy
<1>3. CASE ~ (applied = None \/ applied.level = "off")
    <2>1. applied \in Configs /\ Tidy(o.files, Clean, applied.retained)
        BY <1>3, Numbers DEF Kept, Keeps
    <2>2. Tidy(o.files, Clean, Top)
        BY <1>1, <2>1, TidyWider
    <2> QED BY <2>2 DEF Tidy
<1> QED BY <1>2, <1>3

\* The end of run_controller
LEMMA StopHolds == LogInv /\ Stop => LogInv'
<1> SUFFICES ASSUME LogInv, Stop PROVE LogInv'
    OBVIOUS
<1> DEFINE now == Outcome(files, writer, TRUE, 0)
           last == IF Logging
                   THEN Whatever(Summary(files, writer),
                            LAMBDA o : Emitted(o.files, o.writer, 1))
                   ELSE {now}
<1>1. Kept(now, Clean, applied)
    BY KeptNow
<1>2. PICK o \in {[x EXCEPT !.writer = None] : x \in last} :
        /\ faults + o.cost <= MaxFaults /\ faults' = faults + o.cost
        /\ files' = o.files /\ writer' = o.writer
    BY DEF Stop, Happens
<1>3. PICK x : x \in last /\ o = [x EXCEPT !.writer = None]
    BY <1>2
<1> HIDE DEF now
<1>4. Kept(x, Clean, applied)
    <2>1. CASE Logging
        <3>1. PICK a \in Summary(files, writer) :
                \E p \in Emitted(a.files, a.writer, 1) :
                    x = [p EXCEPT !.cost = @ + a.cost]
            BY <1>3, <2>1 DEF Whatever
        <3>2. PICK p \in Emitted(a.files, a.writer, 1) :
                x = [p EXCEPT !.cost = @ + a.cost]
            BY <3>1
        <3>3. applied \in Configs /\ applied.level # "off"
            BY <2>1, Numbers DEF Logging
        <3>4. Kept(a, Clean, applied) /\ a.cost \in Nat
            BY SummaryKept, KeptOutcome, Costs
        <3>5. Kept(p, Clean, applied)
            BY <3>3, <3>4, EmittedKept
        <3> QED BY <3>2, <3>4, <3>5, KeptCostlier
    <2>2. CASE ~ Logging
        BY <1>1, <1>3, <2>2
    <2> QED BY <2>1, <2>2
<1> HIDE DEF last
<1>5. /\ o \in Outcomes /\ o.files = x.files /\ o.writer = None
    <2>1. x \in Outcomes
        BY <1>4, KeptOutcome
    <2> QED BY <1>3, <2>1 DEF Outcomes
<1>6. Kept(o, Clean', applied') /\ applied' = None
    <2>1. Tidy(x.files, Clean, Top)
        BY <1>4, KeptClosed
    <2>2. applied' = None /\ Clean' = Clean
        BY DEF Stop, Clean
    <2> QED BY <1>5, <2>1, <2>2 DEF Kept
<1>7. window' = 0 /\ unreported' = 0 /\ window' \in 0 .. MaxWindow
    BY Numbers DEF Stop
<1>8. faults' \in 0 .. MaxFaults
    BY <1>2, <1>5, FaultsBounded
<1> QED BY <1>2, <1>6, <1>7, <1>8, KeptThen

\* A reconfiguration that is cut off.
LEMMA InterruptedKept ==
    ASSUME LogInv, applied # None, NEW p, Kept(p, Clean, applied),
           NEW c \in Configs, NEW o \in SinkInterrupted(p.files, p.writer, c)
    PROVE  Tidy(o.files, Clean, Top)
<1>1. CASE o \in SinkReconfigured(p.files, p.writer, c)
    BY <1>1, SinkKept
<1>2. CASE /\ p.writer # None
           /\ o \in ReconfigureLimits(p.files, p.writer, c)
    <2>0. /\ Top \in Nat /\ Clean \in BOOLEAN
          /\ c.retained \in Nat /\ c.retained <= Top
        BY EventLogAssumption DEF Clean
    <2>1. /\ p.writer \in Writers /\ Fits(p.files, p.writer)
          /\ Tidy(p.files, Clean, p.writer.retained)
        BY <1>2 DEF Kept, Keeps
    <2>2. IF o.ok THEN Keeps(o, Clean, c.max, c.retained)
          ELSE Tidy(o.files, Clean, Top)
        BY <1>2, <2>0, <2>1, ReconfigureLimitsHolds
    <2> QED BY <2>0, <2>2, TidyWider DEF Keeps
<1> QED BY <1>1, <1>2 DEF SinkInterrupted

\* A crash leaves what an operation has done so far.
LEMMA CrashHolds == LogInv /\ Crash => LogInv'
<1> SUFFICES ASSUME LogInv, Crash PROVE LogInv'
    OBVIOUS
<1> DEFINE now == Outcome(files, writer, TRUE, 0)
<1>0. now.files = files /\ now.writer = writer /\ Kept(now, Clean, applied)
    BY KeptNow DEF Outcome
<1> HIDE DEF now
<1>1. PICK q \in Interrupted : files' = q.files
    BY DEF Crash
<1>2. Tidy(q.files, Clean, Top) /\ q.files \in Files
    <2>1. ASSUME Logging, NEW n \in 0 .. 2, q \in Emitted(files, writer, n)
          PROVE  Tidy(q.files, Clean, Top)
        <3>1. applied \in Configs /\ applied.level # "off"
            BY <2>1, Numbers DEF Logging
        <3>2. Kept(q, Clean, applied)
            BY <1>0, <2>1, <3>1, EmittedKept
        <3> QED BY <3>2, KeptClosed
    <2>2. CASE q = Outcome(files, writer, TRUE, 0)
        BY <1>0, <2>2, KeptClosed DEF now
    <2>3. ASSUME NEW c \in Configs,
                 q \in Whatever(Summary(files, writer),
                         LAMBDA x : SinkInterrupted(x.files, x.writer, c))
          PROVE  Tidy(q.files, Clean, Top)
        <3>1. PICK a \in Summary(files, writer) :
                \E r \in SinkInterrupted(a.files, a.writer, c) :
                    q = [r EXCEPT !.cost = @ + a.cost]
            BY <2>3 DEF Whatever
        <3>2. PICK r \in SinkInterrupted(a.files, a.writer, c) :
                q = [r EXCEPT !.cost = @ + a.cost]
            BY <3>1
        <3>3. applied # None /\ Kept(a, Clean, applied)
            BY SummaryKept DEF Crash
        <3>4. Tidy(r.files, Clean, Top)
            BY <3>3, InterruptedKept
        <3>5. q.files = r.files
            BY <3>2
        <3> QED BY <3>4, <3>5
    <2>4. \/ Logging /\ \E n \in 0 .. 2 : q \in Emitted(files, writer, n)
          \/ q = Outcome(files, writer, TRUE, 0)
          \/ \E c \in Configs :
                q \in Whatever(Summary(files, writer),
                        LAMBDA x : SinkInterrupted(x.files, x.writer, c))
        BY <1>1 DEF Interrupted
    <2>5. Tidy(q.files, Clean, Top)
        BY <2>1, <2>2, <2>3, <2>4
    <2> QED BY <2>5 DEF Tidy
<1> DEFINE o == [files |-> files', writer |-> None, ok |-> TRUE, cost |-> 0]
<1>3. o \in Outcomes /\ o.files = files' /\ o.writer = None
    BY <1>1, <1>2 DEF Outcomes
<1> HIDE DEF o
<1>4. Kept(o, Clean', applied') /\ applied' = None /\ writer' = None
    BY <1>1, <1>2, <1>3 DEF Crash, Kept, Clean
<1>5. /\ window' = 0 /\ unreported' = 0 /\ window' \in 0 .. MaxWindow
      /\ faults' \in 0 .. MaxFaults
    BY Numbers DEF Crash
<1> QED BY <1>3, <1>4, <1>5, KeptThen

LEMMA LogStep == LogInv /\ [Next]_vars => LogInv'
<1>1. LogInv /\ UNCHANGED vars => LogInv'
    BY DEF vars, LogInv, TypeOK, Logging, Counting
<1> QED BY <1>1, StartHolds, EventHolds, DecisionHolds, FlushHolds,
           ReconfigureHolds, StopHolds, CrashHolds DEF Next

-----------------------------------------------------------------------------
\* Theorems

LEMMA LogSafe == Spec => []LogInv
BY InitHolds, LogStep, PTL DEF Spec

\* Nothing but scars lies beyond the ring, and the active file exceeds its
\* limit by what failed writes have left in it.
LEMMA Limited == LogInv => WithinLimits
<1> SUFFICES ASSUME LogInv, writer # None
             PROVE  LET F == Opened(files)
                        torn ==
                            Cardinality({j \in DOMAIN F[0] : F[0][j] = Torn})
                    IN /\ Len(F[0]) <= Most(writer.max) + torn
                       /\ \A i \in 1 .. Top :
                            files[i] # None =>
                                i <= writer.retained \/ "archive" \in scars
    BY DEF WithinLimits
<1> DEFINE F == Opened(files)
           torn == Cardinality({j \in DOMAIN F[0] : F[0][j] = Torn})
<1>1. /\ files \in Files /\ Logging /\ writer \in Writers
      /\ Most(writer.max) \in Nat
      /\ Cardinality(Whole(files)) <= Most(writer.max)
      /\ Tidy(files, "archive" \notin scars, writer.retained)
    BY MostBounds DEF LogInv, TypeOK, Fits, Writers
<1>2. /\ F \in Files /\ F[0] # None
      /\ F[0] = IF files[0] = None THEN <<>> ELSE files[0]
    BY <1>1, OpenedFiles
<1> HIDE DEF F
<1>3. Cardinality(Whole(F)) <= Cardinality(Whole(files))
    <2>1. CASE files[0] = None
        <3>1. Whole(F) = {} /\ Whole(files) = {}
            BY <1>2, <2>1 DEF Whole
        <3>2. Cardinality({}) = 0
            BY FS_EmptySet
        <3> QED BY <3>1, <3>2
    <2>2. CASE files[0] # None
        <3>1. Whole(F) = Whole(files)
            BY <1>2, <2>2 DEF Whole
        <3>2. Cardinality(Whole(files)) \in Nat
            BY <1>1, WholeFinite
        <3> QED BY <3>1, <3>2
    <2> QED BY <2>1, <2>2
<1>4. /\ Len(F[0]) = Cardinality(Whole(F)) + torn /\ torn \in Nat
      /\ Cardinality(Whole(F)) \in Nat /\ Cardinality(Whole(files)) \in Nat
    BY <1>1, <1>2, WholeFinite
<1> HIDE DEF torn
<1>5. Len(F[0]) <= Most(writer.max) + torn
    BY <1>1, <1>3, <1>4
<1>6. ASSUME NEW i \in 1 .. Top, files[i] # None
      PROVE  i <= writer.retained \/ "archive" \in scars
    BY <1>1, <1>6 DEF Tidy, Within
<1> QED BY <1>5, <1>6 DEF F, torn

\* A record and the next one, as their ages have it.
LEMMA Adjacent ==
    ASSUME NEW F \in Files, Ordered(F), Followed(F),
           NEW r \in Records(F), NEW s \in Records(F), Before(r, s),
           ~ \E t \in Records(F) : Before(r, t) /\ Before(t, s)
    PROVE  Age(F, r) = Aged(Age(F, s))
<1>0. MaxAge \in Nat \ {0} /\ Top \in Nat
    BY EventLogAssumption
<1>1. \A t \in Records(F) :
        /\ Age(F, t) \in Nat /\ Age(F, t) <= MaxAge
        /\ t[1] \in Nat /\ t[2] \in Nat /\ t = <<t[1], t[2]>>
    <2> TAKE t \in Records(F)
    <2>1. /\ t = <<t[1], t[2]>> /\ t[1] \in 0 .. Top
          /\ F[t[1]] \in Seq(0 .. MaxAge \cup {Torn})
          /\ t[2] \in 1 .. Len(F[t[1]]) /\ Age(F, t) \in 0 .. MaxAge
        BY RecordPlaces
    <2> QED BY <1>0, <2>1
<1>2. \/ Age(F, s) < Age(F, r)
      \/ Age(F, s) = MaxAge /\ Age(F, r) = MaxAge
    BY DEF Ordered
<1>3. PICK t \in Records(F) : Before(r, t) /\ Age(F, r) = Aged(Age(F, t))
    <2>1. Age(F, r) # 0
        BY <1>0, <1>1, <1>2
    <2> QED BY <2>1 DEF Followed
<1>4. ~ Before(t, s)
    BY <1>3
<1>5. t = s \/ Before(s, t)
    <2>1. /\ t[1] \in Nat /\ t[2] \in Nat /\ s[1] \in Nat /\ s[2] \in Nat
          /\ t = <<t[1], t[2]>> /\ s = <<s[1], s[2]>>
        BY <1>1
    <2>2. (t[1] = s[1] /\ t[2] = s[2]) \/ Before(s, t)
        BY <1>4, <2>1 DEF Before
    <2>3. (t[1] = s[1] /\ t[2] = s[2]) => t = s
        BY <2>1
    <2> QED BY <2>2, <2>3
<1>6. CASE t = s
    BY <1>3, <1>6
<1>7. CASE Before(s, t)
    <2>1. \/ Age(F, t) < Age(F, s)
          \/ Age(F, t) = MaxAge /\ Age(F, s) = MaxAge
        BY <1>7 DEF Ordered
    <2>2. /\ Age(F, t) \in Nat /\ Age(F, s) \in Nat /\ Age(F, r) \in Nat
          /\ Age(F, t) <= MaxAge /\ Age(F, s) <= MaxAge
        BY <1>1
    <2> QED BY <1>0, <1>2, <1>3, <2>1, <2>2 DEF Aged
<1> QED BY <1>5, <1>6, <1>7

\* For any number of archives, any limits and any failures the active file
\* exceeds its limit by no more than torn records, and no archive lies beyond
\* the ring but those of a rejected reconfiguration: rotate, open_with_limits
\* and reconfigure_limits.
THEOREM WithinLimitsProved == Spec => []WithinLimits
<1>1. LogInv => WithinLimits
    BY Limited
<1> QED BY <1>1, LogSafe, PTL

\* Every decision is in a summary handed to the log or still in the window,
\* whatever is reconfigured: EventLogger::reconfigure flushes first.
THEOREM DecisionsCounted == Spec => []EveryDecisionCounted
<1>1. LogInv => EveryDecisionCounted
    BY DEF LogInv, EveryDecisionCounted
<1> QED BY <1>1, LogSafe, PTL

\* Archives keep the order of the records and hold none twice, also where
\* prunes fail: rotate_files moves the highest first.
THEOREM NeverReordered == Spec => []Ordered(files)
<1>1. LogInv => Ordered(files)
    BY DEF LogInv, Tidy
<1> QED BY <1>1, LogSafe, PTL

\* While no prune fails, a log is lost from its old end only: between two
\* records that remain none is missing.
THEOREM OldestLost ==
    ASSUME ~ PruneMayStop
    PROVE  Spec => []OldestFirst
<1>1. LogInv => OldestFirst
    <2> SUFFICES ASSUME LogInv PROVE OldestFirst
        OBVIOUS
    <2>1. Ordered(files) /\ files \in Files
        BY DEF LogInv, Tidy
    <2>2. "archive" \notin scars => Followed(files)
        BY DEF LogInv, Tidy
    <2> QED BY <2>1, <2>2, Adjacent DEF OldestFirst
<1> QED BY <1>1, LogSafe, PTL
=============================================================================
