--------------------------- MODULE CLIConfigProofs ---------------------------
(* What holds of CLIConfig for any number of processes, names and targets.  *)
EXTENDS CLIConfig, TLAPS, SequenceTheorems, WellFoundedInduction

-----------------------------------------------------------------------------
(* Lists of targets.                                                       *)

Distinct(ts) == \A i, j \in DOMAIN ts : ts[i].name = ts[j].name => i = j

Held(ts) == {ts[i] : i \in DOMAIN ts}

LEMMA IndexIs ==
  ASSUME NEW ts \in Seq(Target), Distinct(ts), NEW i \in DOMAIN ts
  PROVE  Index(ts, ts[i].name) = i
<1> DEFINE First(j) == /\ ts[j].name = ts[i].name
                       /\ \A l \in 1 .. j - 1 : ts[l].name # ts[i].name
<1>1. DOMAIN ts = 1 .. Len(ts) /\ Len(ts) \in Nat
  OBVIOUS
<1>2. First(i)
  BY <1>1 DEF Distinct
<1>3. \A j \in DOMAIN ts : First(j) => j = i
  BY DEF Distinct
<1>4. Index(ts, ts[i].name) = CHOOSE j \in DOMAIN ts : First(j)
  BY DEF Index
<1> HIDE DEF First
<1> QED BY <1>2, <1>3, <1>4

\* Delete takes out the target of that name and no other.
LEMMA DeleteIs ==
  ASSUME NEW ts \in Seq(Target), Distinct(ts), NEW name \in Names
  PROVE  /\ Delete(ts, name) \in Seq(Target) /\ Distinct(Delete(ts, name))
         /\ Held(Delete(ts, name)) = {t \in Held(ts) : t.name # name}
<1> DEFINE D == Delete(ts, name)
<1>0. DOMAIN ts = 1 .. Len(ts) /\ Len(ts) \in Nat /\ \A i \in DOMAIN ts : ts[i] \in Target
  OBVIOUS
<1>1. CASE \A t \in DOMAIN ts : ts[t].name # name
  <2>1. D = ts
    BY <1>1 DEF Delete
  <2>2. Held(ts) = {t \in Held(ts) : t.name # name}
    BY <1>1 DEF Held
  <2> QED BY <2>1, <2>2
<1>2. ASSUME NEW i \in DOMAIN ts, ts[i].name = name
      PROVE  D \in Seq(Target) /\ Distinct(D) /\ Held(D) = {t \in Held(ts) : t.name # name}
  <2> DEFINE last == Len(ts)
             sw == [ts EXCEPT ![i] = ts[last]]
             To(k) == IF k = i THEN last ELSE k
  <2>1. Index(ts, name) = i
    BY <1>2, IndexIs
  <2>2. D = SubSeq(sw, 1, last - 1)
    BY <1>2, <2>1 DEF Delete
  <2>3. i \in 1 .. last /\ last \in Nat /\ last >= 1
    BY <1>0, <1>2
  <2>4. sw \in Seq(Target) /\ Len(sw) = last /\ \A k \in 1 .. last : sw[k] = ts[To(k)]
    BY <1>0, <2>3
  <2> HIDE DEF sw
  <2>5. D \in Seq(Target) /\ Len(D) = last - 1 /\ \A k \in 1 .. last - 1 : D[k] = sw[k]
    BY <2>2, <2>3, <2>4, SubSeqProperties
  <2>6. DOMAIN D = 1 .. last - 1 /\ \A k \in 1 .. last - 1 : D[k] = ts[To(k)]
    BY <2>3, <2>4, <2>5
  <2>7. \A k \in 1 .. last - 1 : To(k) \in DOMAIN ts /\ To(k) # i
    BY <1>0, <2>3
  <2>8. \A k, l \in 1 .. last - 1 : To(k) = To(l) => k = l
    BY <2>3
  <2>9. \A j \in DOMAIN ts : j # i => \E k \in 1 .. last - 1 : To(k) = j
    <3> SUFFICES ASSUME NEW j \in DOMAIN ts, j # i PROVE \E k \in 1 .. last - 1 : To(k) = j
      OBVIOUS
    <3>1. CASE j = last
      <4>1. i \in 1 .. last - 1 /\ To(i) = j
        BY <2>3, <3>1
      <4> QED BY <4>1
    <3>2. CASE j # last
      <4>1. j \in 1 .. last - 1 /\ To(j) = j
        BY <1>0, <3>2
      <4> QED BY <4>1
    <3> QED BY <3>1, <3>2
  <2> HIDE DEF D, To, last
  <2>10. Distinct(D)
    BY <2>6, <2>7, <2>8 DEF Distinct
  <2>11. \A j \in DOMAIN ts : j # i <=> ts[j].name # name
    BY <1>2 DEF Distinct
  <2>12. Held(D) \subseteq {t \in Held(ts) : t.name # name}
    BY <2>6, <2>7, <2>11 DEF Held
  <2>13. {t \in Held(ts) : t.name # name} \subseteq Held(D)
    <3> SUFFICES ASSUME NEW j \in DOMAIN ts, ts[j].name # name PROVE ts[j] \in Held(D)
      BY DEF Held
    <3>1. PICK k \in 1 .. last - 1 : To(k) = j
      BY <2>9, <2>11
    <3> QED BY <2>6, <3>1 DEF Held
  <2> QED BY <2>5, <2>10, <2>12, <2>13
<1> QED BY <1>1, <1>2

\* A set of natural numbers has a least element.
LEMMA LeastNat ==
  ASSUME NEW S \in SUBSET Nat, S # {}
  PROVE  \E m \in S : \A n \in S : ~ (n < m)
<1> DEFINE R == OpToRel(<, Nat)
<1>1. \A m, n \in Nat : <<m, n>> \in R <=> m < n
  BY DEF OpToRel
<1>2. IsWellFoundedOn(R, Nat)
  BY NatLessThanWellFounded
<1> HIDE DEF R
<1>3. S \subseteq Nat /\ S # {}
  OBVIOUS
<1>4. \E m \in S : \A n \in S : ~ (<<n, m>> \in R)
  BY <1>2, <1>3, WFMin, Zenon
<1> QED BY <1>1, <1>3, <1>4, Zenon

\* The loop of Add deletes once at most.
LEMMA WithoutIs ==
  ASSUME NEW ts \in Seq(Target), Distinct(ts), NEW name \in Names
  PROVE  Without(ts, name) = Delete(ts, name)
<1> DEFINE L == Len(ts)
           D == Delete(ts, name)
           Body(f) == [n \in 0 .. L |-> IF n = 0 THEN ts ELSE Delete(f[n - 1], name)]
           left == CHOOSE f : f = Body(f)
           g == [n \in 0 .. L |-> IF n = 0 THEN ts ELSE D]
<1>0. L \in Nat
  OBVIOUS
<1>1. Without(ts, name) = left[L]
  BY DEF Without
<1>2. Delete(D, name) = D
  <2>1. \A t \in Held(D) : t.name # name
    BY DeleteIs
  <2>2. ~ \E i \in DOMAIN D : D[i].name = name
    BY <2>1 DEF Held
  <2> HIDE DEF D
  <2> QED BY <2>2 DEF Delete
<1>3. g = Body(g)
  <2>1. ASSUME NEW n \in 0 .. L, n # 0 PROVE Delete(g[n - 1], name) = D
    <3>1. n - 1 \in 0 .. L /\ g[n - 1] \in {ts, D}
      BY <2>1
    <3> QED BY <1>2, <3>1
  <2> HIDE DEF D
  <2> QED BY <2>1
<1>4. left = Body(left)
  BY <1>3
<1> HIDE DEF left, g
<1>5. /\ left[0] = ts
      /\ \A n \in 1 .. L : left[n] = Delete(left[n - 1], name)
  BY <1>0, <1>4
<1>6. CASE L = 0
  <2>1. \A i \in DOMAIN ts : FALSE
    BY <1>6
  <2> QED BY <1>1, <1>5, <1>6, <2>1 DEF Delete
<1>7. CASE L # 0
  <2> DEFINE S == {n \in 1 .. L : left[n] # D}
  <2>1. CASE S = {}
    BY <1>0, <1>1, <1>7, <2>1
  <2>2. CASE S # {}
    <3>1. S \in SUBSET Nat
      OBVIOUS
    <3>2. PICK m \in S : \A n \in S : ~ (n < m)
      BY <2>2, <3>1, LeastNat
    <3>3. left[m] = Delete(left[m - 1], name) /\ left[m] # D
      BY <1>5
    <3>4. CASE m = 1
      BY <1>5, <3>3, <3>4
    <3>5. CASE m # 1
      <4>1. m - 1 \in 1 .. L /\ m - 1 < m
        BY <1>0, <3>5
      <4>2. left[m - 1] = D
        BY <3>2, <4>1
      <4> QED BY <1>2, <3>3, <4>2
    <3> QED BY <3>4, <3>5
  <2> QED BY <2>1, <2>2
<1> QED BY <1>6, <1>7

\* Add puts a target in the place of the one of its name.
LEMMA AddIs ==
  ASSUME NEW ts \in Seq(Target), Distinct(ts), NEW target \in Target
  PROVE  /\ Add(ts, target) \in Seq(Target) /\ Distinct(Add(ts, target))
         /\ Held(Add(ts, target)) = {t \in Held(ts) : t.name # target.name} \union {target}
<1> DEFINE D == Delete(ts, target.name)
           A == Append(D, target)
<1>1. target.name \in Names
  BY DEF Target
<1>2. D \in Seq(Target) /\ Distinct(D) /\ Held(D) = {t \in Held(ts) : t.name # target.name}
  BY <1>1, DeleteIs
<1>3. Add(ts, target) = A
  BY <1>1, WithoutIs DEF Add
<1> HIDE DEF D
<1>4. A \in Seq(Target) /\ DOMAIN A = 1 .. Len(D) + 1 /\ DOMAIN D = 1 .. Len(D) /\ Len(D) \in Nat
      /\ A[Len(D) + 1] = target /\ \A i \in 1 .. Len(D) : A[i] = D[i]
  BY <1>2, AppendProperties
<1> HIDE DEF A
<1>5. \A i \in 1 .. Len(D) : D[i].name # target.name
  BY <1>2, <1>4 DEF Held
<1>6. Distinct(A)
  <2> SUFFICES ASSUME NEW i \in DOMAIN A, NEW j \in DOMAIN A, A[i].name = A[j].name PROVE i = j
    BY DEF Distinct
  <2>1. CASE i \in 1 .. Len(D) /\ j \in 1 .. Len(D)
    BY <1>2, <1>4, <2>1 DEF Distinct
  <2>2. CASE i = Len(D) + 1 /\ j = Len(D) + 1
    BY <2>2
  <2>3. CASE i = Len(D) + 1 /\ j \in 1 .. Len(D)
    BY <1>4, <1>5, <2>3
  <2>4. CASE i \in 1 .. Len(D) /\ j = Len(D) + 1
    BY <1>4, <1>5, <2>4
  <2> QED BY <1>4, <2>1, <2>2, <2>3, <2>4
<1>7. Held(A) = Held(D) \union {target}
  <2>1. \A i \in DOMAIN A : i \in DOMAIN D \/ i = Len(D) + 1
    BY <1>4
  <2>2. \A i \in DOMAIN D : i \in DOMAIN A /\ A[i] = D[i]
    BY <1>4
  <2>3. Len(D) + 1 \in DOMAIN A
    BY <1>4
  <2> QED BY <1>4, <2>1, <2>2, <2>3 DEF Held
<1> QED BY <1>2, <1>3, <1>4, <1>6, <1>7

-----------------------------------------------------------------------------
(* Configurations, and what they stand for.                                *)

\* One with distinct names and a current target that exists.
Sound(c) ==
  c \in Config /\ Distinct(c.targets) /\ (c.current # None => Has(c, c.current))

\* The tables of targets that commands mean.
Table == [current : Names \union {None},
          table : [Names -> (Addresses \X (Tokens \union {None})) \union {<< >>}]]

\* Configuration c is what table m says.
Matches(c, m) ==
  /\ c.current = m.current
  /\ \A n \in Names :
       m.table[n] =
         IF Has(c, n)
         THEN LET t == c.targets[Index(c.targets, n)] IN <<t.address, t.token>>
         ELSE << >>

LEMMA SoundFields ==
  ASSUME NEW c, Sound(c)
  PROVE  /\ c.targets \in Seq(Target) /\ Distinct(c.targets)
         /\ c.current \in Names \union {None}
         /\ c = [current |-> c.current, targets |-> c.targets]
         /\ \A n : Has(c, n) <=> \E t \in Held(c.targets) : t.name = n
         /\ \A t \in Held(c.targets) :
              /\ t \in Target /\ t.name \in Names /\ t.address \in Addresses
              /\ t.token \in Tokens \union {None}
              /\ c.targets[Index(c.targets, t.name)] = t
         /\ c.current # None => Has(c, c.current)
<1>1. c.targets \in Seq(Target) /\ c.current \in Names \union {None} /\ Distinct(c.targets)
      /\ c = [current |-> c.current, targets |-> c.targets]
  BY DEF Sound, Config
<1>2. \A n : Has(c, n) <=> \E t \in Held(c.targets) : t.name = n
  BY DEF Has, Held
<1>3. ASSUME NEW t \in Held(c.targets)
      PROVE  /\ t \in Target /\ t.name \in Names /\ t.address \in Addresses
             /\ t.token \in Tokens \union {None}
             /\ c.targets[Index(c.targets, t.name)] = t
  <2>1. PICK i \in DOMAIN c.targets : t = c.targets[i]
    BY DEF Held
  <2>2. t \in Target
    BY <1>1, <2>1
  <2>3. c.targets[Index(c.targets, t.name)] = t
    BY <1>1, <2>1, IndexIs
  <2> QED BY <2>2, <2>3 DEF Target
<1> QED BY <1>1, <1>2, <1>3 DEF Sound

LEMMA MatchesIs ==
  ASSUME NEW c, Sound(c), NEW m
  PROVE  Matches(c, m) <=>
           /\ c.current = m.current
           /\ \A n \in Names : (\A t \in Held(c.targets) : t.name # n) => m.table[n] = << >>
           /\ \A t \in Held(c.targets) : m.table[t.name] = <<t.address, t.token>>
<1>1. ASSUME NEW n \in Names, \A t \in Held(c.targets) : t.name # n
      PROVE  (m.table[n] = IF Has(c, n)
                           THEN LET t == c.targets[Index(c.targets, n)] IN <<t.address, t.token>>
                           ELSE << >>) <=> m.table[n] = << >>
  BY <1>1, SoundFields
<1>2. ASSUME NEW t \in Held(c.targets)
      PROVE  /\ t.name \in Names /\ Has(c, t.name)
             /\ c.targets[Index(c.targets, t.name)] = t
  BY SoundFields
<1>3. ASSUME NEW t \in Held(c.targets), NEW n, n = t.name
      PROVE  (m.table[n] = IF Has(c, n)
                           THEN LET u == c.targets[Index(c.targets, n)] IN <<u.address, u.token>>
                           ELSE << >>) <=> m.table[n] = <<t.address, t.token>>
  BY <1>2, <1>3
<1> DEFINE Row(n) == IF Has(c, n)
                     THEN LET u == c.targets[Index(c.targets, n)] IN <<u.address, u.token>>
                     ELSE << >>
<1>4. /\ \A n \in Names : (\A t \in Held(c.targets) : t.name # n) =>
           (m.table[n] = Row(n) <=> m.table[n] = << >>)
      /\ \A t \in Held(c.targets) :
           m.table[t.name] = Row(t.name) <=> m.table[t.name] = <<t.address, t.token>>
  BY <1>1, <1>3
<1>5. Matches(c, m) <=> c.current = m.current /\ \A n \in Names : m.table[n] = Row(n)
  BY DEF Matches
<1> HIDE DEF Row
<1> QED BY <1>2, <1>4, <1>5

\* The commands.
LEMMA Commands ==
  ASSUME NEW k \in Command
  PROVE  /\ k.op \in {"create", "select", "delete", "login", "show", "request"}
         /\ k.op = "create" => k.name \in Names /\ k.address \in Addresses
         /\ k.op \in {"select", "delete"} => k.name \in Names
         /\ k.op = "login" => k.token \in Tokens
BY DEF Command

LEMMA Outcomes ==
  ASSUME NEW c, NEW k \in Command
  PROVE  /\ k.op = "create" => Changed(c, k) =
              [current |-> k.name,
               targets |-> Add(c.targets, [name |-> k.name, address |-> k.address, token |-> None])]
         /\ k.op = "select" => Changed(c, k) = [c EXCEPT !.current = k.name]
         /\ k.op = "delete" => Changed(c, k) =
              [current |-> IF c.current = k.name THEN None ELSE c.current,
               targets |-> Delete(c.targets, k.name)]
         /\ k.op = "login" => Changed(c, k) =
              [c EXCEPT !.targets =
                 Add(@, [c.targets[Index(c.targets, c.current)] EXCEPT !.token = k.token])]
         /\ k.op \in {"show", "request"} => Changed(c, k) = c
         /\ k.op = "select" => (Allowed(c, k) <=> Has(c, k.name))
         /\ k.op = "login" => (Allowed(c, k) <=> Has(c, c.current))
BY Commands DEF Changed, Allowed

LEMMA Meanings ==
  ASSUME NEW m \in Table, NEW k \in Command
  PROVE  /\ k.op = "create" => Meant(m, k) =
              [current |-> k.name, table |-> [m.table EXCEPT ![k.name] = <<k.address, None>>]]
         /\ k.op = "select" => Meant(m, k) = [current |-> k.name, table |-> m.table]
         /\ k.op = "delete" => Meant(m, k) =
              [current |-> IF m.current = k.name THEN None ELSE m.current,
               table |-> [m.table EXCEPT ![k.name] = << >>]]
         /\ k.op = "login" /\ m.current \in Names => Meant(m, k) =
              [current |-> m.current,
               table |-> [m.table EXCEPT ![m.current] = [m.table[m.current] EXCEPT ![2] = k.token]]]
         /\ k.op \in {"show", "request"} => Meant(m, k) = m
<1>1. m = [current |-> m.current, table |-> m.table]
      /\ m.table \in [Names -> (Addresses \X (Tokens \union {None})) \union {<< >>}]
  BY DEF Table
<1>2. ASSUME k.op = "select" PROVE Meant(m, k) = [current |-> k.name, table |-> m.table]
  <2>1. Meant(m, k) = [m EXCEPT !.current = k.name]
    BY <1>2 DEF Meant
  <2> QED BY <1>1, <2>1
<1>3. ASSUME k.op = "login", m.current \in Names
      PROVE  Meant(m, k) =
              [current |-> m.current,
               table |-> [m.table EXCEPT ![m.current] = [m.table[m.current] EXCEPT ![2] = k.token]]]
  <2>1. Meant(m, k) = [m EXCEPT !.table[m.current][2] = k.token]
    BY <1>3 DEF Meant
  <2>2. Meant(m, k) = [m EXCEPT !.table =
           [m.table EXCEPT ![m.current] = [m.table[m.current] EXCEPT ![2] = k.token]]]
    BY <2>1
  <2> QED BY <1>1, <2>2
<1>4. k.op = "delete" => Meant(m, k) =
         [current |-> IF m.current = k.name THEN None ELSE m.current,
          table |-> [m.table EXCEPT ![k.name] = << >>]]
  BY DEF Meant
<1> QED BY <1>2, <1>3, <1>4, Commands DEF Meant

\* A change of current target and targets.
LEMMA SoundIs ==
  ASSUME NEW ts \in Seq(Target), Distinct(ts), NEW cur \in Names \union {None},
         cur # None => \E t \in Held(ts) : t.name = cur
  PROVE  Sound([current |-> cur, targets |-> ts])
<1> DEFINE c == [current |-> cur, targets |-> ts]
<1>1. c \in Config /\ c.current = cur /\ c.targets = ts
  BY DEF Config
<1>2. cur # None => \E i \in DOMAIN c.targets : c.targets[i].name = cur
  BY <1>1 DEF Held
<1> HIDE DEF c
<1> QED BY <1>1, <1>2 DEF Sound, Has, c

LEMMA ChangedIs ==
  ASSUME NEW c, Sound(c), NEW k \in Command, Allowed(c, k), NEW m
  PROVE  /\ Sound(Changed(c, k))
         /\ m \in Table /\ Matches(c, m) =>
              Meant(m, k) \in Table /\ Matches(Changed(c, k), Meant(m, k))
<1> DEFINE d == Changed(c, k)
           n == Meant(m, k)
           ts == c.targets
           Right == m \in Table /\ Matches(c, m)
<1>0. /\ ts \in Seq(Target) /\ Distinct(ts) /\ c.current \in Names \union {None}
      /\ c = [current |-> c.current, targets |-> ts]
      /\ \A t \in Held(ts) : t \in Target /\ t.name \in Names
                             /\ t.address \in Addresses /\ t.token \in Tokens \union {None}
      /\ None \notin Names
      /\ c.current # None => \E t \in Held(ts) : t.name = c.current
  BY SoundFields, ConfigAssumption
<1>m. Right =>
        /\ c.current = m.current /\ m.current \in Names \union {None}
        /\ m.table \in [Names -> (Addresses \X (Tokens \union {None})) \union {<< >>}]
        /\ \A x \in Names : (\A t \in Held(ts) : t.name # x) => m.table[x] = << >>
        /\ \A t \in Held(ts) : m.table[t.name] = <<t.address, t.token>>
  BY MatchesIs DEF Table
<1>1. CASE k.op = "create"
  <2> DEFINE new == [name |-> k.name, address |-> k.address, token |-> None]
             us == Add(ts, new)
  <2>1. new \in Target /\ k.name \in Names /\ k.address \in Addresses /\ new.name = k.name
        /\ new.address = k.address /\ new.token = None
    BY <1>1, Commands DEF Target
  <2> HIDE DEF new
  <2>2. us \in Seq(Target) /\ Distinct(us) /\ Held(us) = {t \in Held(ts) : t.name # k.name} \union {new}
    BY <1>0, <2>1, AddIs
  <2> HIDE DEF us
  <2>3. d = [current |-> k.name, targets |-> us]
    BY <1>1, Outcomes DEF us, new
  <2>4. Sound(d)
    BY <2>1, <2>2, <2>3, SoundIs
  <2>5. ASSUME Right PROVE n \in Table /\ Matches(d, n)
    <3> DEFINE tb == [m.table EXCEPT ![k.name] = <<k.address, None>>]
    <3>1. n = [current |-> k.name, table |-> tb]
      BY <1>1, <2>5, Meanings
    <3>2. tb \in [Names -> (Addresses \X (Tokens \union {None})) \union {<< >>}]
          /\ tb[k.name] = <<k.address, None>>
          /\ \A x \in Names : x # k.name => tb[x] = m.table[x]
      BY <1>m, <2>1, <2>5
    <3> HIDE DEF tb
    <3>3. n \in Table /\ n.current = k.name /\ n.table = tb /\ d.current = k.name /\ d.targets = us
      BY <2>1, <2>3, <3>1, <3>2 DEF Table
    <3>4. \A x \in Names : (\A t \in Held(us) : t.name # x) => tb[x] = << >>
      BY <1>m, <2>1, <2>2, <2>5, <3>2
    <3>5. \A t \in Held(us) : tb[t.name] = <<t.address, t.token>>
      BY <1>0, <1>m, <2>1, <2>2, <2>5, <3>2
    <3> HIDE DEF d, n
    <3> QED BY <2>4, <3>3, <3>4, <3>5, MatchesIs
  <2> QED BY <2>4, <2>5
<1>2. CASE k.op = "select"
  <2>1. d = [current |-> k.name, targets |-> ts]
    <3>1. d = [c EXCEPT !.current = k.name]
      BY <1>2, Outcomes
    <3> QED BY <1>0, <3>1
  <2>2. k.name \in Names /\ \E t \in Held(ts) : t.name = k.name
    <3>1. k.name \in Names
      BY <1>2, Commands
    <3>2. Has(c, k.name)
      BY <1>2, Outcomes
    <3>3. \A x : Has(c, x) <=> \E t \in Held(c.targets) : t.name = x
      BY SoundFields
    <3> QED BY <3>1, <3>2, <3>3
  <2>3. Sound(d)
    BY <1>0, <2>1, <2>2, SoundIs
  <2>4. ASSUME Right PROVE n \in Table /\ Matches(d, n)
    <3>1. n = [current |-> k.name, table |-> m.table]
      BY <1>2, <2>4, Meanings
    <3>2. n \in Table /\ n.current = k.name /\ n.table = m.table /\ d.current = k.name /\ d.targets = ts
      BY <1>m, <2>1, <2>2, <2>4, <3>1 DEF Table
    <3> HIDE DEF d, n
    <3> QED BY <1>m, <2>3, <2>4, <3>2, MatchesIs
  <2> QED BY <2>3, <2>4
<1>3. CASE k.op = "delete"
  <2> DEFINE us == Delete(ts, k.name)
             cur == IF c.current = k.name THEN None ELSE c.current
  <2>0. k.name \in Names
    BY <1>3, Commands
  <2>1. us \in Seq(Target) /\ Distinct(us) /\ Held(us) = {t \in Held(ts) : t.name # k.name}
    BY <1>0, <2>0, DeleteIs
  <2> HIDE DEF us
  <2>2. d = [current |-> cur, targets |-> us]
    BY <1>3, Outcomes DEF us
  <2>3. cur \in Names \union {None} /\ (cur # None => \E t \in Held(us) : t.name = cur)
    BY <1>0, <2>1
  <2>4. Sound(d)
    BY <2>1, <2>2, <2>3, SoundIs
  <2>5. ASSUME Right PROVE n \in Table /\ Matches(d, n)
    <3> DEFINE tb == [m.table EXCEPT ![k.name] = << >>]
    <3>1. n = [current |-> cur, table |-> tb]
      BY <1>3, <1>m, <2>5, Meanings
    <3>2. tb \in [Names -> (Addresses \X (Tokens \union {None})) \union {<< >>}]
          /\ tb[k.name] = << >>
          /\ \A x \in Names : x # k.name => tb[x] = m.table[x]
      BY <1>m, <2>0, <2>5
    <3> HIDE DEF tb, cur
    <3>3. n \in Table /\ n.current = cur /\ n.table = tb /\ d.current = cur /\ d.targets = us
      BY <2>2, <2>3, <3>1, <3>2 DEF Table
    <3>4. \A x \in Names : (\A t \in Held(us) : t.name # x) => tb[x] = << >>
      BY <1>m, <2>1, <2>5, <3>2
    <3>5. \A t \in Held(us) : tb[t.name] = <<t.address, t.token>>
      BY <1>0, <1>m, <2>1, <2>5, <3>2
    <3> HIDE DEF d, n
    <3> QED BY <2>4, <3>3, <3>4, <3>5, MatchesIs
  <2> QED BY <2>4, <2>5
<1>4. CASE k.op = "login"
  <2>1. PICK here \in Held(ts) : here.name = c.current
    BY <1>4, Outcomes, SoundFields
  <2>2. ts[Index(ts, c.current)] = here /\ here \in Target /\ c.current \in Names
        /\ k.token \in Tokens
    BY <1>0, <1>4, <2>1, SoundFields, Commands
  <2> DEFINE new == [here EXCEPT !.token = k.token]
             us == Add(ts, new)
  <2>3. new \in Target /\ new.name = c.current /\ new.address = here.address /\ new.token = k.token
    BY <2>1, <2>2 DEF Target
  <2> HIDE DEF new
  <2>4. us \in Seq(Target) /\ Distinct(us) /\ Held(us) = {t \in Held(ts) : t.name # c.current} \union {new}
    BY <1>0, <2>3, AddIs
  <2> HIDE DEF us
  <2>5. d = [current |-> c.current, targets |-> us]
    <3>1. d = [c EXCEPT !.targets = us]
      BY <1>4, <2>2, Outcomes DEF us, new
    <3> QED BY <1>0, <3>1
  <2>6. Sound(d)
    BY <2>2, <2>3, <2>4, <2>5, SoundIs
  <2>7. ASSUME Right PROVE n \in Table /\ Matches(d, n)
    <3> DEFINE tb == [m.table EXCEPT ![c.current] = <<here.address, k.token>>]
    <3>1. m.table[c.current] = <<here.address, here.token>> /\ m.current = c.current
      BY <1>m, <2>1, <2>7
    <3>2. [<<here.address, here.token>> EXCEPT ![2] = k.token] = <<here.address, k.token>>
      OBVIOUS
    <3>3. n = [current |-> c.current, table |-> tb]
      BY <1>4, <2>2, <2>7, <3>1, <3>2, Meanings
    <3>4. tb \in [Names -> (Addresses \X (Tokens \union {None})) \union {<< >>}]
          /\ tb[c.current] = <<here.address, k.token>>
          /\ \A x \in Names : x # c.current => tb[x] = m.table[x]
      BY <1>0, <1>m, <2>2, <2>7
    <3> HIDE DEF tb
    <3>5. n \in Table /\ n.current = c.current /\ n.table = tb /\ d.current = c.current /\ d.targets = us
      BY <2>2, <2>5, <3>3, <3>4 DEF Table
    <3>6. \A x \in Names : (\A t \in Held(us) : t.name # x) => tb[x] = << >>
      BY <1>m, <2>3, <2>4, <2>7, <3>4
    <3>7. \A t \in Held(us) : tb[t.name] = <<t.address, t.token>>
      BY <1>0, <1>m, <2>3, <2>4, <2>7, <3>4
    <3> HIDE DEF d, n
    <3> QED BY <2>6, <3>5, <3>6, <3>7, MatchesIs
  <2> QED BY <2>6, <2>7
<1>5. CASE k.op \in {"show", "request"}
  BY <1>5, Outcomes, Meanings
<1> QED BY <1>1, <1>2, <1>3, <1>4, <1>5, Commands

-----------------------------------------------------------------------------
(* The invariant, in parts.                                                *)

\* Commands work on sound configurations, and save nothing else.
Whole ==
  /\ \A p \in Processes : Sound(conf[p])
  /\ file # Garbled => Sound(file)

\* As long as no save overlaps another, one command at most has the file
\* open, and the file is empty then.
OneSaver ==
  lost # "all" =>
    /\ file # Garbled
    /\ \A p \in Processes : pc[p] = "write" =>
         file = Empty /\ \A q \in Processes : pc[q] = "write" => q = p

\* Only p may have the file open.
Alone(p) == \A q \in Processes : pc[q] = "write" => q = p

\* A command that is not stale works on what is meant.
OnCourse ==
  /\ meant \in Table
  /\ lost = "no" =>
       /\ NobodySaves => Matches(file, meant)
       /\ \A p \in Processes : ~stale[p] /\ Alone(p) =>
            /\ pc[p] = "run" => Matches(conf[p], meant)
            /\ pc[p] \in {"save", "write"} =>
                 Meant(meant, cmd[p]) \in Table /\ Matches(conf[p], Meant(meant, cmd[p]))

IInv == TypeOK /\ Whole /\ OneSaver /\ OnCourse

LEMMA EmptySound == Sound(Empty) /\ Matches(Empty, NothingMeant) /\ NothingMeant \in Table
<1>1. << >> \in Seq(Target) /\ Distinct(<< >>) /\ None \in Names \union {None}
  BY DEF Distinct
<1>2. Sound(Empty)
  BY <1>1, SoundIs DEF Empty
<1>3. NothingMeant \in Table
  BY DEF NothingMeant, Table
<1>4. \A n : ~Has(Empty, n)
  BY DEF Has, Empty
<1> QED BY <1>2, <1>3, <1>4 DEF Matches, Empty, NothingMeant

LEMMA InitInv == Init => IInv
<1> SUFFICES ASSUME Init PROVE IInv
  OBVIOUS
<1>0. NoCommand \in Command
  BY DEF NoCommand, Command
<1>1. Sound(Empty) /\ Empty \in Config /\ Matches(Empty, NothingMeant) /\ NothingMeant \in Table
  BY EmptySound DEF Sound
<1>2. TypeOK
  BY <1>0, <1>1 DEF Init, TypeOK
<1>3. Whole
  BY <1>1 DEF Init, Whole
<1>4. OneSaver
  BY <1>1, GarbledAssumption DEF Init, OneSaver
<1>5. OnCourse
  BY <1>1 DEF Init, OnCourse
<1> QED BY <1>2, <1>3, <1>4, <1>5 DEF IInv

\* A process ends.
LEMMA DoneIs ==
  ASSUME IInv, NEW p \in Processes, Done(p)
  PROVE  /\ pc' \in [Processes -> {"idle", "run", "save", "write"}]
         /\ cmd' \in [Processes -> Command] /\ conf' \in [Processes -> Config]
         /\ pc'[p] = "idle" /\ conf'[p] = Empty
         /\ \A q \in Processes : q # p => pc'[q] = pc[q] /\ cmd'[q] = cmd[q] /\ conf'[q] = conf[q]
         /\ \A q \in Processes : Sound(conf'[q])
<1>1. NoCommand \in Command /\ Sound(Empty) /\ Empty \in Config
  BY EmptySound DEF NoCommand, Command, Sound
<1>2. /\ pc' = [pc EXCEPT ![p] = "idle"] /\ cmd' = [cmd EXCEPT ![p] = NoCommand]
      /\ conf' = [conf EXCEPT ![p] = Empty]
  BY DEF Done
<1> QED BY <1>1, <1>2 DEF IInv, TypeOK, Whole

LEMMA LoadInv == ASSUME IInv, NEW p \in Processes, Load(p) PROVE IInv'
<1> USE DEF IInv
<1>1. /\ pc[p] = "idle" /\ file # Garbled
      /\ pc' = [pc EXCEPT ![p] = "run"] /\ conf' = [conf EXCEPT ![p] = file]
      /\ UNCHANGED <<file, cmd, stale, lost, meant>>
  BY DEF Load
<1>2. Sound(file) /\ file \in Config
  BY <1>1 DEF Whole, Sound
<1>3. /\ pc' \in [Processes -> {"idle", "run", "save", "write"}] /\ conf' \in [Processes -> Config]
      /\ pc'[p] = "run" /\ conf'[p] = file
      /\ \A q \in Processes : q # p => pc'[q] = pc[q] /\ conf'[q] = conf[q]
  BY <1>1, <1>2 DEF TypeOK
<1>4. TypeOK' /\ Whole'
  BY <1>1, <1>2, <1>3 DEF TypeOK, Whole
<1>5. \A q \in Processes : pc'[q] = "write" <=> pc[q] = "write"
  BY <1>1, <1>3
<1>6. OneSaver'
  BY <1>1, <1>5 DEF OneSaver
<1>7. (NobodySaves' <=> NobodySaves) /\ (Alone(p)' => NobodySaves)
      /\ \A q \in Processes : Alone(q)' <=> Alone(q)
  BY <1>1, <1>5 DEF NobodySaves, Alone
<1>8. OnCourse'
  BY <1>1, <1>3, <1>7 DEF OnCourse, Matches
<1> QED BY <1>4, <1>6, <1>8

\* A command that ends without a trace.
LEMMA NoTrace ==
  ASSUME IInv, NEW p \in Processes, pc[p] # "write", Done(p),
         stale' = [stale EXCEPT ![p] = FALSE], UNCHANGED <<file, lost, meant>>
  PROVE  IInv'
<1> USE DEF IInv
<1>1. /\ pc' \in [Processes -> {"idle", "run", "save", "write"}]
      /\ cmd' \in [Processes -> Command] /\ conf' \in [Processes -> Config]
      /\ pc'[p] = "idle"
      /\ \A q \in Processes : q # p => pc'[q] = pc[q] /\ cmd'[q] = cmd[q] /\ conf'[q] = conf[q]
      /\ \A q \in Processes : Sound(conf'[q])
  BY DoneIs
<1>2. stale' \in [Processes -> BOOLEAN] /\ \A q \in Processes : q # p => stale'[q] = stale[q]
  BY DEF TypeOK
<1>3. TypeOK' /\ Whole'
  BY <1>1, <1>2 DEF TypeOK, Whole
<1>4. \A q \in Processes : pc'[q] = "write" <=> pc[q] = "write"
  BY <1>1
<1>5. OneSaver'
  BY <1>4 DEF OneSaver
<1>6. (NobodySaves' <=> NobodySaves) /\ \A q \in Processes : Alone(q)' <=> Alone(q)
  BY <1>4 DEF NobodySaves, Alone
<1>7. OnCourse'
  BY <1>1, <1>2, <1>6 DEF OnCourse, Matches
<1> QED BY <1>3, <1>5, <1>7

LEMMA RunInv == ASSUME IInv, NEW p \in Processes, Run(p) PROVE IInv'
<1> USE DEF IInv
<1>1. PICK k \in Command :
        /\ Allowed(conf[p], k)
        /\ cmd' = [cmd EXCEPT ![p] = k]
        /\ conf' = [conf EXCEPT ![p] = Changed(conf[p], k)]
  BY DEF Run
<1>2. pc[p] = "run" /\ pc' = [pc EXCEPT ![p] = "save"] /\ UNCHANGED <<file, stale, lost, meant>>
  BY DEF Run
<1>3. PICK c : c = conf[p]
  OBVIOUS
<1>4. PICK m : m = meant
  OBVIOUS
<1>5. Sound(c) /\ Allowed(c, k)
  BY <1>1, <1>3 DEF Whole
<1>6. /\ Sound(Changed(c, k))
      /\ m \in Table /\ Matches(c, m) => Meant(m, k) \in Table /\ Matches(Changed(c, k), Meant(m, k))
  BY <1>5, ChangedIs
<1>7. Changed(c, k) \in Config
  BY <1>6 DEF Sound
<1>8. /\ pc' \in [Processes -> {"idle", "run", "save", "write"}] /\ conf' \in [Processes -> Config]
      /\ cmd' \in [Processes -> Command]
      /\ pc'[p] = "save" /\ conf'[p] = Changed(c, k) /\ cmd'[p] = k
      /\ \A q \in Processes : q # p => pc'[q] = pc[q] /\ cmd'[q] = cmd[q] /\ conf'[q] = conf[q]
  BY <1>1, <1>2, <1>3, <1>7 DEF TypeOK
<1>9. TypeOK' /\ Whole'
  BY <1>2, <1>6, <1>8 DEF TypeOK, Whole
<1>10. \A q \in Processes : pc'[q] = "write" <=> pc[q] = "write"
  BY <1>2, <1>8
<1>11. OneSaver'
  BY <1>2, <1>10 DEF OneSaver
<1>12. (NobodySaves' <=> NobodySaves) /\ \A q \in Processes : Alone(q)' <=> Alone(q)
  BY <1>10 DEF NobodySaves, Alone
<1>13. ASSUME lost = "no", ~stale[p], Alone(p)
       PROVE  Meant(m, k) \in Table /\ Matches(Changed(c, k), Meant(m, k))
  BY <1>2, <1>3, <1>4, <1>6, <1>13 DEF OnCourse
<1>14. meant' \in Table /\ (lost' = "no" /\ NobodySaves' => Matches(file, meant)')
  BY <1>2, <1>12 DEF OnCourse, Matches
<1>15. ASSUME lost' = "no", NEW q \in Processes, ~stale'[q], Alone(q)'
       PROVE  /\ pc'[q] = "run" => Matches(conf[q], meant)'
              /\ pc'[q] \in {"save", "write"} =>
                   (Meant(meant, cmd[q]) \in Table /\ Matches(conf[q], Meant(meant, cmd[q])))'
  <2>0. lost = "no" /\ ~stale[q] /\ Alone(q) /\ meant' = m
    BY <1>2, <1>4, <1>12, <1>15
  <2>1. CASE q = p
    BY <1>8, <1>13, <2>0, <2>1
  <2>2. CASE q # p
    BY <1>4, <1>8, <2>0, <2>2 DEF OnCourse
  <2> QED BY <2>1, <2>2
<1>16. OnCourse'
  BY <1>14, <1>15 DEF OnCourse
<1> QED BY <1>9, <1>11, <1>16

LEMMA TruncateInv == ASSUME IInv, NEW p \in Processes, Truncate(p) PROVE IInv'
<1> USE DEF IInv
<1>1. /\ pc[p] = "save" /\ pc' = [pc EXCEPT ![p] = "write"] /\ file' = Empty
      /\ UNCHANGED <<cmd, conf>>
  BY DEF Truncate
<1>2. Sound(Empty) /\ Empty \in Config /\ NothingMeant \in Table /\ Empty # Garbled
  BY EmptySound, GarbledAssumption DEF Sound
<1>3. /\ pc' \in [Processes -> {"idle", "run", "save", "write"}]
      /\ pc'[p] = "write" /\ \A q \in Processes : q # p => pc'[q] = pc[q]
  BY <1>1 DEF TypeOK
<1>4. Whole'
  BY <1>1, <1>2 DEF Whole
<1>5. CASE \E q \in Processes : pc[q] = "write"
  <2>1. /\ lost' = "all" /\ meant' = NothingMeant
        /\ stale' \in [Processes -> BOOLEAN]
    BY <1>5 DEF Truncate, Lose
  <2> QED BY <1>1, <1>2, <1>3, <1>4, <2>1 DEF TypeOK, OneSaver, OnCourse
<1>6. CASE \A q \in Processes : pc[q] # "write"
  <2>1. UNCHANGED <<stale, lost, meant>>
    BY <1>6 DEF Truncate
  <2>2. \A q \in Processes : pc'[q] = "write" => q = p
    BY <1>3, <1>6
  <2>3. TypeOK' /\ OneSaver'
    BY <1>1, <1>2, <1>3, <2>1, <2>2 DEF TypeOK, OneSaver
  <2>4. ~NobodySaves' /\ Alone(p) /\ \A q \in Processes : q # p => ~Alone(q)'
    BY <1>3, <1>6 DEF NobodySaves, Alone
  <2>5. ASSUME lost = "no", ~stale[p]
        PROVE  Meant(meant, cmd[p]) \in Table /\ Matches(conf[p], Meant(meant, cmd[p]))
    BY <1>1, <2>4, <2>5 DEF OnCourse
  <2>6. PICK m, k, c : m = meant /\ k = cmd[p] /\ c = conf[p]
    OBVIOUS
  <2>7. lost = "no" /\ ~stale[p] => Meant(m, k) \in Table /\ Matches(c, Meant(m, k))
    BY <2>5, <2>6
  <2>8. meant' = m /\ cmd'[p] = k /\ conf'[p] = c
    BY <1>1, <2>1, <2>6
  <2>9. lost = "no" /\ ~stale[p] =>
          Meant(meant', cmd'[p]) \in Table /\ Matches(conf'[p], Meant(meant', cmd'[p]))
    BY <2>7, <2>8
  <2>10. OnCourse'
    BY <1>3, <2>1, <2>4, <2>9 DEF OnCourse
  <2> QED BY <1>4, <2>3, <2>10
<1> QED BY <1>5, <1>6

LEMMA LoseIs ==
  ASSUME IInv, NEW what \in {"no", "updates", "all"}, NEW p \in Processes, Lose(what, p)
  PROVE  /\ stale' \in [Processes -> BOOLEAN] /\ lost' \in {"no", "updates", "all"}
         /\ lost' = IF lost = "all" THEN "all" ELSE what
         /\ what # "no" => meant' = NothingMeant
         /\ what = "no" => /\ meant' = Meant(meant, cmd[p])
                           /\ \A q \in Processes : ~stale'[q] => q = p \/ pc[q] = "idle"
<1>1. /\ lost' = IF lost = "all" THEN lost ELSE what
      /\ meant' = IF what = "no" THEN Meant(meant, cmd[p]) ELSE NothingMeant
      /\ stale' = [q \in Processes |-> what = "no" /\ q # p /\ (stale[q] \/ pc[q] # "idle")]
  BY DEF Lose
<1> QED BY <1>1 DEF IInv, TypeOK

LEMMA WriteInv == ASSUME IInv, NEW p \in Processes, Write(p) PROVE IInv'
<1> USE DEF IInv
<1> DEFINE what == IF lost = "no" /\ ~stale[p] THEN "no" ELSE "updates"
<1>1. /\ pc[p] = "write" /\ Done(p) /\ Lose(what, p)
      /\ file' \in IF file \in {Empty, conf[p]} THEN {conf[p]} ELSE {conf[p], Garbled}
  BY DEF Write
<1>2. what \in {"no", "updates", "all"} /\ (what = "no" <=> lost = "no" /\ ~stale[p])
  OBVIOUS
<1> HIDE DEF what
<1>3. /\ stale' \in [Processes -> BOOLEAN] /\ lost' \in {"no", "updates", "all"}
      /\ lost' = IF lost = "all" THEN "all" ELSE what
      /\ what # "no" => meant' = NothingMeant
      /\ what = "no" => /\ meant' = Meant(meant, cmd[p])
                        /\ \A q \in Processes : ~stale'[q] => q = p \/ pc[q] = "idle"
  BY <1>1, <1>2, LoseIs
<1>4. /\ pc' \in [Processes -> {"idle", "run", "save", "write"}]
      /\ cmd' \in [Processes -> Command] /\ conf' \in [Processes -> Config]
      /\ pc'[p] = "idle"
      /\ \A q \in Processes : q # p => pc'[q] = pc[q] /\ cmd'[q] = cmd[q] /\ conf'[q] = conf[q]
      /\ \A q \in Processes : Sound(conf'[q])
  BY <1>1, DoneIs
<1>5. Sound(conf[p]) /\ conf[p] \in Config /\ file' \in {conf[p], Garbled}
  BY <1>1 DEF Whole, Sound
<1>6. TypeOK' /\ Whole'
  BY <1>3, <1>4, <1>5 DEF TypeOK, Whole
<1>7. lost # "all" => /\ file' = conf[p]
                     /\ \A q \in Processes : pc[q] = "write" => q = p
  BY <1>1 DEF OneSaver
<1>8. OneSaver'
  <2>1. lost' # "all" => lost # "all" /\ file' = conf[p] /\ conf[p] # Garbled
                        /\ \A q \in Processes : pc'[q] # "write"
    BY <1>3, <1>4, <1>5, <1>7, GarbledAssumption
  <2> QED BY <2>1 DEF OneSaver
<1>9. CASE what # "no"
  <2>1. lost' # "no" /\ meant' = NothingMeant
    BY <1>2, <1>3, <1>9
  <2> QED BY <1>6, <1>8, <2>1, EmptySound DEF OnCourse
<1>10. CASE what = "no"
  <2>1. lost = "no" /\ ~stale[p] /\ Alone(p)
    BY <1>2, <1>7, <1>10 DEF Alone
  <2>2. Meant(meant, cmd[p]) \in Table /\ Matches(conf[p], Meant(meant, cmd[p]))
    BY <1>1, <2>1 DEF OnCourse
  <2>3. meant' \in Table /\ Matches(conf[p], meant')
    BY <1>3, <1>10, <2>2
  <2>4. file' = conf[p]
    BY <1>7, <2>1
  <2>5. Matches(file', meant')
    BY <2>3, <2>4
  <2>6. \A q \in Processes : ~stale'[q] => pc'[q] = "idle"
    BY <1>3, <1>4, <1>10
  <2>7. OnCourse'
    BY <2>3, <2>5, <2>6 DEF OnCourse
  <2> QED BY <1>6, <1>8, <2>7
<1> QED BY <1>9, <1>10

LEMMA KillInv == ASSUME IInv, NEW p \in Processes, Kill(p) PROVE IInv'
<1> USE DEF IInv
<1>1. Done(p) /\ file' = file
  BY DEF Kill
<1>2. CASE pc[p] = "write"
  <2>1. Lose("all", p)
    BY <1>2 DEF Kill
  <2>2. stale' \in [Processes -> BOOLEAN] /\ lost' = "all" /\ meant' = NothingMeant
    BY <2>1, LoseIs
  <2>3. /\ pc' \in [Processes -> {"idle", "run", "save", "write"}]
        /\ cmd' \in [Processes -> Command] /\ conf' \in [Processes -> Config]
        /\ \A q \in Processes : Sound(conf'[q])
    BY <1>1, DoneIs
  <2> QED BY <1>1, <2>2, <2>3, EmptySound DEF TypeOK, Whole, OneSaver, OnCourse
<1>3. CASE pc[p] # "write"
  <2>1. stale' = [stale EXCEPT ![p] = FALSE] /\ UNCHANGED <<lost, meant>>
    BY <1>3 DEF Kill
  <2> QED BY <1>1, <1>3, <2>1, NoTrace
<1> QED BY <1>2, <1>3

LEMMA Invariance == Spec => []IInv
<1>1. ASSUME IInv, [Next]_vars PROVE IInv'
  <2>1. ASSUME UNCHANGED vars PROVE IInv'
    BY <1>1, <2>1 DEF IInv, vars, TypeOK, Whole, OneSaver, OnCourse, NobodySaves, Alone, Matches
  <2>2. ASSUME NEW p \in Processes, LoadFails(p) PROVE IInv'
    BY <2>1, <2>2 DEF LoadFails
  <2>3. ASSUME NEW p \in Processes, RunFails(p) PROVE IInv'
    BY <1>1, <2>3, NoTrace DEF RunFails
  <2> QED BY <1>1, <2>1, <2>2, <2>3, LoadInv, RunInv, TruncateInv, WriteInv, KillInv DEF Next
<1> QED BY <1>1, InitInv, PTL DEF Spec

-----------------------------------------------------------------------------
(* Theorems.                                                               *)

\* Every variable has its type: what a command makes of a configuration is
\* one again (cli_config.go:44-61).
THEOREM TypeCorrect == Spec => []TypeOK
BY Invariance, PTL DEF IInv

\* Only a command killed while it saves, or two that save at once, can
\* destroy the file, whatever commands overlap (cli_config.go:44-61,
\* 114-127).
THEOREM FileStaysWhole == Spec => []SavesStayWhole
<1>1. IInv => SavesStayWhole
  BY DEF IInv, Whole, OneSaver, SavesStayWhole, Sound, Distinct
<1> QED BY <1>1, Invariance, PTL

\* As long as no update is lost, the file is what the commands mean
\* (main.go:128-140).
THEOREM FileFollowsCommands == Spec => []FileIsMeant
<1>1. IInv => FileIsMeant
  BY DEF IInv, OnCourse, Matches, FileIsMeant
<1> QED BY <1>1, Invariance, PTL
=============================================================================
