--------------------------- MODULE EnvironProofs ---------------------------
(***************************************************************************)
(* Proofs about Environ: the table is well typed, holds no variable twice, *)
(* gives the target the values set last, and implements EnvMap, for any    *)
(* names, any relation "begins with" that is reflexive and transitive, and *)
(* a table of any size.                                                    *)
(*                                                                         *)
(* The inductive invariant says more than "no duplicates": an entry is     *)
(* never behind one whose name begins with its own (Ordered). The first    *)
(* match of add_env_var is then the exact one if there is an exact one.    *)
(***************************************************************************)
EXTENDS Environ, SequenceTheorems, TLAPS

Entries == [name : Names, value : Values]

(* The operators of Environ on a sequence s instead of envs. *)
Ordered(s) ==
  \A i, j \in 1..Len(s) : i < j => ~Begins(s[j].name, s[i].name)

Find(s, n) ==
  IF \E i \in 1..Len(s) : s[i].name = n
  THEN s[CHOOSE i \in 1..Len(s) : s[i].name = n].value
  ELSE NoValue

Stops(s, n, i) ==
  /\ Begins(n, s[i].name)
  /\ \A j \in 1..i-1 : ~Begins(n, s[j].name)

Lacks(s, n) == \A i \in 1..Len(s) : ~Begins(n, s[i].name)

Overwrites(s, t, e, i) ==
  /\ t \in Seq(Entries) /\ Len(t) = Len(s)
  /\ \A j \in 1..Len(s) : t[j] = IF j = i THEN e ELSE s[j]

Extends(s, t, e) ==
  /\ t \in Seq(Entries) /\ Len(t) = Len(s) + 1
  /\ \A j \in 1..Len(t) : t[j] = IF j = Len(s) + 1 THEN e ELSE s[j]

-----------------------------------------------------------------------------
(* Sequences. *)

(* What is behind a removed element moves up by one. *)
LEMMA Removal ==
  ASSUME NEW S, NEW s \in Seq(S), NEW i \in 1..Len(s)
  PROVE  /\ RemoveAt(s, i) \in Seq(S)
         /\ Len(RemoveAt(s, i)) = Len(s) - 1
         /\ \A j \in 1..Len(s) - 1 :
              RemoveAt(s, i)[j] = s[IF j < i THEN j ELSE j + 1]
<1> DEFINE a == SubSeq(s, 1, i - 1)
           b == SubSeq(s, i + 1, Len(s))
<1>1. /\ a \in Seq(S) /\ Len(a) = i - 1
      /\ \A j \in 1..i-1 : a[j] = s[j]
  OBVIOUS
<1>2. /\ b \in Seq(S) /\ Len(b) = Len(s) - i
      /\ \A j \in 1..Len(s) - i : b[j] = s[i + j]
  OBVIOUS
<1>3. RemoveAt(s, i) = a \o b
  BY DEF RemoveAt
<1> HIDE DEF a, b
<1>4. /\ a \o b \in Seq(S)
      /\ Len(a \o b) = Len(s) - 1
      /\ \A j \in 1..Len(s) - 1 :
           (a \o b)[j] = IF j <= i - 1 THEN a[j] ELSE b[j - (i - 1)]
  <2>1. a \o b \in Seq(S) /\ Len(a \o b) = Len(a) + Len(b)
    BY <1>1, <1>2, ConcatProperties
  <2>2. \A j \in 1..Len(a) + Len(b) :
          (a \o b)[j] = IF j <= Len(a) THEN a[j] ELSE b[j - Len(a)]
    BY <1>1, <1>2, ConcatProperties
  <2> QED BY <1>1, <1>2, <2>1, <2>2
<1>5. ASSUME NEW j \in 1..Len(s) - 1
      PROVE  (a \o b)[j] = s[IF j < i THEN j ELSE j + 1]
  <2>1. CASE j < i
    BY <1>1, <1>4, <2>1
  <2>2. CASE ~(j < i)
    <3>1. j - (i - 1) \in 1..Len(s) - i /\ i + (j - (i - 1)) = j + 1
      BY <2>2
    <3>2. (a \o b)[j] = b[j - (i - 1)]
      BY <1>4, <2>2
    <3> QED BY <1>2, <2>2, <3>1, <3>2
  <2> QED BY <2>1, <2>2
<1> QED BY <1>3, <1>4, <1>5

(* A variable that is in an ordered table is found there. *)
LEMMA Found ==
  ASSUME NEW s \in Seq(Entries), Ordered(s), NEW i \in 1..Len(s)
  PROVE  Find(s, s[i].name) = s[i].value
<1> DEFINE n == s[i].name
           k == CHOOSE j \in 1..Len(s) : s[j].name = n
<1>1. k \in 1..Len(s) /\ s[k].name = n
  OBVIOUS
<1>2. n \in Names
  <2>1. s[i] \in Entries
    OBVIOUS
  <2> QED BY <2>1 DEF Entries
<1>3. Begins(n, n)
  BY <1>2, BeginsAssumption
<1>4. k = i
  BY <1>1, <1>3 DEF Ordered
<1>5. Find(s, n) = s[k].value
  BY DEF Find
<1> QED BY <1>4, <1>5

(* One that is not is not. *)
LEMMA NotFound ==
  ASSUME NEW s, NEW n, \A i \in 1..Len(s) : s[i].name # n
  PROVE  Find(s, n) = NoValue
BY DEF Find

(* Two tables agree about a variable when each entry for it in one has the  *)
(* same value in an entry for it in the other.                              *)
LEMMA SameFound ==
  ASSUME NEW s \in Seq(Entries), NEW t \in Seq(Entries),
         Ordered(s), Ordered(t), NEW n \in Names,
         \A i \in 1..Len(s) : s[i].name = n => \E j \in 1..Len(t) : t[j] = s[i],
         \A j \in 1..Len(t) : t[j].name = n => \E i \in 1..Len(s) : s[i] = t[j]
  PROVE  Find(t, n) = Find(s, n)
<1>1. CASE \E i \in 1..Len(s) : s[i].name = n
  <2>1. PICK i \in 1..Len(s) : s[i].name = n
    BY <1>1
  <2>2. PICK j \in 1..Len(t) : t[j] = s[i]
    BY <2>1
  <2>3. Find(s, n) = s[i].value
    BY <2>1, Found
  <2>4. Find(t, n) = t[j].value
    BY <2>1, <2>2, Found
  <2> QED BY <2>2, <2>3, <2>4
<1>2. CASE \A i \in 1..Len(s) : s[i].name # n
  <2>1. \A j \in 1..Len(t) : t[j].name # n
    BY <1>2
  <2>2. Find(s, n) = NoValue
    BY <1>2, NotFound
  <2>3. Find(t, n) = NoValue
    BY <2>1, NotFound
  <2> QED BY <2>2, <2>3
<1> QED BY <1>1, <1>2

-----------------------------------------------------------------------------
(* The three changes of the table. *)

(* An entry put over the first one whose name begins with its name takes    *)
(* the place of at most that one.                                           *)
LEMMA Overwritten ==
  ASSUME NEW s \in Seq(Entries), Ordered(s),
         NEW n \in Names, NEW v \in Values,
         NEW i \in 1..Len(s), Stops(s, n, i),
         NEW t, Overwrites(s, t, Entry(n, v), i)
  PROVE  /\ Ordered(t)
         /\ Find(t, n) = v
         /\ \A m \in Names : m # n /\ m # s[i].name => Find(t, m) = Find(s, m)
         /\ s[i].name # n => Find(t, s[i].name) = NoValue /\ Find(s, n) = NoValue
<1>1. Entry(n, v) \in Entries /\ Entry(n, v).name = n /\ Entry(n, v).value = v
  BY DEF Entry, Entries
<1>2. /\ t \in Seq(Entries) /\ Len(t) = Len(s)
      /\ \A j \in 1..Len(s) : t[j] = IF j = i THEN Entry(n, v) ELSE s[j]
  BY DEF Overwrites
<1>3. \A j \in 1..Len(s) : s[j].name \in Names
  <2>1. \A j \in 1..Len(s) : s[j] \in Entries
    OBVIOUS
  <2> QED BY <2>1 DEF Entries
<1>4. Begins(n, s[i].name) /\ \A j \in 1..i-1 : ~Begins(n, s[j].name)
  BY DEF Stops
<1>5. \A j \in 1..Len(s) : i < j => ~Begins(s[j].name, n)
  BY <1>3, <1>4, BeginsAssumption DEF Ordered
<1>6. Ordered(t)
  <2> SUFFICES ASSUME NEW j \in 1..Len(s), NEW k \in 1..Len(s), j < k
               PROVE  ~Begins(t[k].name, t[j].name)
    BY <1>2 DEF Ordered
  <2>1. CASE j = i
    BY <1>1, <1>2, <1>5, <2>1
  <2>2. CASE k = i
    <3>1. t[k].name = n /\ t[j] = s[j] /\ j \in 1..i-1
      BY <1>1, <1>2, <2>2
    <3> QED BY <1>4, <3>1
  <2>3. CASE j # i /\ k # i
    <3>1. t[k] = s[k] /\ t[j] = s[j]
      BY <1>2, <2>3
    <3> QED BY <3>1 DEF Ordered
  <2> QED BY <2>1, <2>2, <2>3
<1>7. Find(t, n) = v
  <2>1. t[i].name = n /\ t[i].value = v /\ i \in 1..Len(t)
    BY <1>1, <1>2
  <2> QED BY <1>2, <1>6, <2>1, Found
<1>8. ASSUME NEW m \in Names, m # n, m # s[i].name
      PROVE  Find(t, m) = Find(s, m)
  <2>1. \A j \in 1..Len(s) : s[j].name = m => \E k \in 1..Len(t) : t[k] = s[j]
    BY <1>2, <1>8
  <2>2. \A j \in 1..Len(t) : t[j].name = m => \E k \in 1..Len(s) : s[k] = t[j]
    BY <1>1, <1>2, <1>8
  <2> QED BY <1>2, <1>6, <2>1, <2>2, SameFound
<1>9. ASSUME s[i].name # n
      PROVE  Find(t, s[i].name) = NoValue /\ Find(s, n) = NoValue
  <2>1. \A j \in 1..Len(s) : j # i => s[j].name # s[i].name
    BY <1>3, BeginsAssumption DEF Ordered
  <2>2. \A j \in 1..Len(t) : t[j].name # s[i].name
    BY <1>1, <1>2, <1>9, <2>1
  <2>3. \A j \in 1..Len(s) : i < j => s[j].name # n
    BY <1>5, BeginsAssumption
  <2>4. \A j \in 1..i-1 : s[j].name # n
    BY <1>4, BeginsAssumption
  <2>5. \A j \in 1..Len(s) : s[j].name # n
    BY <1>9, <2>3, <2>4
  <2> QED BY <2>2, <2>5, NotFound
<1> QED BY <1>2, <1>6, <1>7, <1>8, <1>9

(* Removing the first entry whose name begins with the name takes that one. *)
LEMMA Removed ==
  ASSUME NEW s \in Seq(Entries), Ordered(s),
         NEW n \in Names,
         NEW i \in 1..Len(s), Stops(s, n, i),
         NEW t, t = RemoveAt(s, i)
  PROVE  /\ t \in Seq(Entries) /\ Len(t) = Len(s) - 1 /\ Ordered(t)
         /\ Find(t, n) = NoValue /\ Find(t, s[i].name) = NoValue
         /\ \A m \in Names : m # s[i].name => Find(t, m) = Find(s, m)
<1> DEFINE from(j) == IF j < i THEN j ELSE j + 1
<1>1. /\ t \in Seq(Entries) /\ Len(t) = Len(s) - 1
      /\ \A j \in 1..Len(s) - 1 : t[j] = s[from(j)]
  BY Removal
<1>2. \A j \in 1..Len(t) : from(j) \in 1..Len(s) /\ from(j) # i /\ t[j] = s[from(j)]
  BY <1>1
<1>3. \A j, k \in 1..Len(t) : j < k => from(j) < from(k)
  BY <1>1
<1>4. \A j \in 1..Len(s) : j # i => \E k \in 1..Len(t) : from(k) = j
  <2> SUFFICES ASSUME NEW j \in 1..Len(s), j # i
               PROVE  \E k \in 1..Len(t) : from(k) = j
    OBVIOUS
  <2>1. CASE j < i
    BY <1>1, <2>1
  <2>2. CASE j > i
    <3>1. j - 1 \in 1..Len(t) /\ from(j - 1) = j
      BY <1>1, <2>2
    <3> QED BY <3>1
  <2> QED BY <2>1, <2>2
<1> HIDE DEF from
<1>5. Ordered(t)
  BY <1>2, <1>3 DEF Ordered
<1>6. \A j \in 1..Len(s) : s[j].name \in Names
  <2>1. \A j \in 1..Len(s) : s[j] \in Entries
    OBVIOUS
  <2> QED BY <2>1 DEF Entries
<1>7. \A j \in 1..Len(s) : j # i => s[j].name # s[i].name
  BY <1>6, BeginsAssumption DEF Ordered
<1>8. \A j \in 1..Len(s) : j # i => s[j].name # n
  <2>1. Begins(n, s[i].name) /\ \A j \in 1..i-1 : ~Begins(n, s[j].name)
    BY DEF Stops
  <2>2. \A j \in 1..i-1 : s[j].name # n
    BY <2>1, BeginsAssumption
  <2>3. \A j \in 1..Len(s) : i < j => s[j].name # n
    BY <2>1 DEF Ordered
  <2> QED BY <2>2, <2>3
<1>9. Find(t, n) = NoValue
  <2>1. \A j \in 1..Len(t) : t[j].name # n
    BY <1>2, <1>8
  <2> QED BY <2>1, NotFound
<1>10. Find(t, s[i].name) = NoValue
  <2>1. \A j \in 1..Len(t) : t[j].name # s[i].name
    BY <1>2, <1>7
  <2> QED BY <2>1, NotFound
<1>11. ASSUME NEW m \in Names, m # s[i].name
       PROVE  Find(t, m) = Find(s, m)
  <2>1. \A j \in 1..Len(s) : s[j].name = m => \E k \in 1..Len(t) : t[k] = s[j]
    BY <1>2, <1>4, <1>11
  <2>2. \A k \in 1..Len(t) : t[k].name = m => \E j \in 1..Len(s) : s[j] = t[k]
    BY <1>2
  <2> QED BY <1>1, <1>5, <2>1, <2>2, SameFound
<1> QED BY <1>1, <1>5, <1>9, <1>10, <1>11

(* A new entry comes last, when no name in the table begins with its name.  *)
LEMMA Created ==
  ASSUME NEW s \in Seq(Entries), Ordered(s),
         NEW n \in Names, NEW v \in Values,
         Lacks(s, n), NEW t, Extends(s, t, Entry(n, v))
  PROVE  /\ Ordered(t)
         /\ Find(t, n) = v
         /\ \A m \in Names : m # n => Find(t, m) = Find(s, m)
<1>1. Entry(n, v) \in Entries /\ Entry(n, v).name = n /\ Entry(n, v).value = v
  BY DEF Entry, Entries
<1>2. /\ t \in Seq(Entries) /\ Len(t) = Len(s) + 1
      /\ \A j \in 1..Len(t) : t[j] = IF j = Len(s) + 1 THEN Entry(n, v) ELSE s[j]
      /\ \A j \in 1..Len(s) : ~Begins(n, s[j].name)
  BY DEF Extends, Lacks
<1>3. Ordered(t)
  <2> SUFFICES ASSUME NEW j \in 1..Len(t), NEW k \in 1..Len(t), j < k
               PROVE  ~Begins(t[k].name, t[j].name)
    BY DEF Ordered
  <2>1. j \in 1..Len(s) /\ t[j] = s[j]
    BY <1>2
  <2>2. CASE k = Len(s) + 1
    BY <1>1, <1>2, <2>1, <2>2
  <2>3. CASE k # Len(s) + 1
    <3>1. k \in 1..Len(s) /\ t[k] = s[k]
      BY <1>2, <2>3
    <3> QED BY <2>1, <3>1 DEF Ordered
  <2> QED BY <2>2, <2>3
<1>4. Find(t, n) = v
  <2>1. Len(t) \in 1..Len(t) /\ t[Len(t)] = Entry(n, v)
    BY <1>2
  <2> QED BY <1>1, <1>2, <1>3, <2>1, Found
<1>5. ASSUME NEW m \in Names, m # n
      PROVE  Find(t, m) = Find(s, m)
  <2>1. \A j \in 1..Len(s) : j \in 1..Len(t) /\ t[j] = s[j]
    BY <1>2
  <2>2. \A j \in 1..Len(t) : t[j].name = m => j \in 1..Len(s) /\ t[j] = s[j]
    BY <1>1, <1>2, <1>5
  <2> QED BY <1>2, <1>3, <2>1, <2>2, SameFound
<1> QED BY <1>2, <1>3, <1>4, <1>5

-----------------------------------------------------------------------------
(* The table as the specification sees it, and the step of the map.         *)

Lookup == [n \in Names |-> Getenv(n)]

MapStep == [EnvironmentMap!EnvNext]_Lookup

(* The part of the invariant that is about the table.                       *)
TableOK ==
  /\ envs \in Seq(Entries)
  /\ Len(envs) <= MaxEnvs
  /\ Ordered(envs)
  /\ last \in [Names -> Values \cup {NoValue}]
  /\ touched \subseteq Names
  /\ LastWins

LEMMA GetenvFinds ==
  /\ \A n : Getenv(n) = Find(envs, n)
  /\ \A n : Getenv(n)' = Find(envs', n)
BY DEF Getenv, Find

LEMMA StopsIs ==
  ASSUME NEW n, NEW i
  PROVE  StopsAt(n, i) <=> Stops(envs, n, i)
BY DEF StopsAt, Stops

LEMMA ResetStep ==
  ASSUME TableOK, NEW n \in Names, NEW v \in Values,
         NEW i \in 1..Len(envs), Reset(n, v, i)
  PROVE  TableOK' /\ MapStep
<1> DEFINE m == envs[i].name
<1>1. envs \in Seq(Entries) /\ Ordered(envs) /\ Stops(envs, n, i)
  BY StopsIs DEF TableOK, Reset
<1>2. /\ envs' \in Seq(Entries) /\ Len(envs') = Len(envs) /\ Ordered(envs')
      /\ Find(envs', n) = v
      /\ \A l \in Names : l # n /\ l # m => Find(envs', l) = Find(envs, l)
      /\ m # n => Find(envs', m) = NoValue /\ Find(envs, n) = NoValue
  <2>1. Entry(n, v) \in Entries
    BY DEF Entry, Entries
  <2>2. Overwrites(envs, envs', Entry(n, v), i)
    BY <1>1, <2>1 DEF Overwrites, Reset
  <2>3. envs' \in Seq(Entries) /\ Len(envs') = Len(envs)
    BY <2>2 DEF Overwrites
  <2>4. /\ Ordered(envs') /\ Find(envs', n) = v
        /\ \A l \in Names :
             l # n /\ l # envs[i].name => Find(envs', l) = Find(envs, l)
        /\ envs[i].name # n =>
             Find(envs', envs[i].name) = NoValue /\ Find(envs, n) = NoValue
    BY <1>1, <2>2, Overwritten
  <2> QED BY <2>3, <2>4
<1>3. m \in Names /\ envs[i].value \in Values /\ Begins(n, m)
  <2>1. envs[i] \in Entries
    BY <1>1
  <2> QED BY <1>1, <2>1 DEF Entries, Stops
<1>4. Find(envs, m) # NoValue
  BY <1>1, <1>3, Found, NamesAssumption
<1>5. /\ last' \in [Names -> Values \cup {NoValue}]
      /\ touched' \subseteq Names
  BY DEF TableOK, Reset
<1>6. LastWins'
  <2> SUFFICES ASSUME NEW l \in Names, l \notin touched'
               PROVE  Find(envs', l) = last'[l]
    BY GetenvFinds DEF LastWins
  <2>1. CASE l = n
    BY <1>2, <2>1 DEF TableOK, Reset
  <2>2. CASE l # n
    <3>1. l # m /\ l \notin touched
      BY <1>3, <2>2 DEF Reset
    <3>2. Find(envs, l) = last[l]
      BY <3>1, GetenvFinds DEF TableOK, LastWins
    <3>3. last'[l] = last[l]
      BY <2>2 DEF TableOK, Reset
    <3> QED BY <1>2, <2>2, <3>1, <3>2, <3>3
  <2> QED BY <2>1, <2>2
<1>7. MapStep
  <2>1. CASE m = n
    <3>1. Lookup' = [Lookup EXCEPT ![n] = v]
      BY <1>2, <2>1, GetenvFinds DEF Lookup
    <3>2. EnvironmentMap!Assign(n, v)
      BY <3>1 DEF EnvironmentMap!Assign, Lookup
    <3> QED BY <3>2 DEF MapStep, EnvironmentMap!EnvNext
  <2>2. CASE m # n
    <3>1. Lookup' = [Lookup EXCEPT ![m] = NoValue, ![n] = v]
      BY <1>2, <1>3, <2>2, GetenvFinds DEF Lookup
    <3>2. Lookup[n] = NoValue /\ Lookup[m] # NoValue
      BY <1>2, <1>3, <1>4, <2>2, GetenvFinds DEF Lookup
    <3>3. EnvironmentMap!Displace(n, v, m)
      BY <1>3, <3>1, <3>2
      DEF EnvironmentMap!Displace, EnvironmentMap!Begins, Begins, Lookup
    <3> QED BY <1>3, <3>3 DEF MapStep, EnvironmentMap!EnvNext
  <2> QED BY <2>1, <2>2
<1> QED BY <1>2, <1>5, <1>6, <1>7 DEF TableOK

LEMMA ClearStep ==
  ASSUME TableOK, NEW n \in Names, NEW i \in 1..Len(envs), Clear(n, i)
  PROVE  TableOK' /\ MapStep
<1> DEFINE m == envs[i].name
<1>1. /\ envs \in Seq(Entries) /\ Ordered(envs) /\ Stops(envs, n, i)
      /\ envs' = RemoveAt(envs, i)
  BY StopsIs DEF TableOK, Clear
<1>2. /\ envs' \in Seq(Entries) /\ Len(envs') = Len(envs) - 1 /\ Ordered(envs')
      /\ Find(envs', n) = NoValue /\ Find(envs', m) = NoValue
      /\ \A l \in Names : l # m => Find(envs', l) = Find(envs, l)
  BY <1>1, Removed
<1>3. m \in Names /\ Begins(n, m)
  <2>1. envs[i] \in Entries
    BY <1>1
  <2> QED BY <1>1, <2>1 DEF Entries, Stops
<1>4. /\ last' \in [Names -> Values \cup {NoValue}]
      /\ touched' \subseteq Names
  BY DEF TableOK, Clear
<1>5. LastWins'
  <2> SUFFICES ASSUME NEW l \in Names, l \notin touched'
               PROVE  Find(envs', l) = last'[l]
    BY GetenvFinds DEF LastWins
  <2>1. CASE l = n
    BY <1>2, <2>1 DEF TableOK, Clear
  <2>2. CASE l # n
    <3>1. l # m /\ l \notin touched
      BY <1>3, <2>2 DEF Clear
    <3>2. Find(envs, l) = last[l]
      BY <3>1, GetenvFinds DEF TableOK, LastWins
    <3>3. last'[l] = last[l]
      BY <2>2 DEF TableOK, Clear
    <3> QED BY <1>2, <3>1, <3>2, <3>3
  <2> QED BY <2>1, <2>2
<1>6. MapStep
  <2>1. Lookup' = [Lookup EXCEPT ![m] = NoValue]
    BY <1>2, <1>3, GetenvFinds DEF Lookup
  <2>2. EnvironmentMap!Lose(n, m)
    BY <1>3, <2>1 DEF EnvironmentMap!Lose, EnvironmentMap!Begins, Begins, Lookup
  <2> QED BY <1>3, <2>2 DEF MapStep, EnvironmentMap!EnvNext
<1>7. Len(envs') <= MaxEnvs
  BY <1>2, NamesAssumption DEF TableOK
<1> QED BY <1>2, <1>4, <1>5, <1>6, <1>7 DEF TableOK

LEMMA CreateStep ==
  ASSUME TableOK, NEW n \in Names, NEW v \in Values, Create(n, v)
  PROVE  TableOK' /\ MapStep
<1>1. /\ envs \in Seq(Entries) /\ Ordered(envs)
      /\ Lacks(envs, n)
      /\ envs' = Append(envs, Entry(n, v))
  BY DEF TableOK, Create, Missing, Lacks
<1>2. /\ envs' \in Seq(Entries) /\ Len(envs') = Len(envs) + 1 /\ Ordered(envs')
      /\ Find(envs', n) = v
      /\ \A m \in Names : m # n => Find(envs', m) = Find(envs, m)
  <2>1. Entry(n, v) \in Entries
    BY DEF Entry, Entries
  <2>2. Extends(envs, envs', Entry(n, v))
    BY <1>1, <2>1 DEF Extends
  <2>3. envs' \in Seq(Entries) /\ Len(envs') = Len(envs) + 1
    BY <2>2 DEF Extends
  <2> QED BY <1>1, <2>2, <2>3, Created
<1>3. /\ last' \in [Names -> Values \cup {NoValue}]
      /\ touched' \subseteq Names
  BY DEF TableOK, Create
<1>4. LastWins'
  <2> SUFFICES ASSUME NEW l \in Names, l \notin touched'
               PROVE  Find(envs', l) = last'[l]
    BY GetenvFinds DEF LastWins
  <2>1. CASE l = n
    BY <1>2, <2>1 DEF TableOK, Create
  <2>2. CASE l # n
    <3>1. l \notin touched /\ last'[l] = last[l]
      BY <2>2 DEF TableOK, Create
    <3>2. Find(envs, l) = last[l]
      BY <3>1, GetenvFinds DEF TableOK, LastWins
    <3> QED BY <1>2, <2>2, <3>1, <3>2
  <2> QED BY <2>1, <2>2
<1>5. MapStep
  <2>1. Lookup' = [Lookup EXCEPT ![n] = v]
    BY <1>2, GetenvFinds DEF Lookup
  <2>2. EnvironmentMap!Assign(n, v)
    BY <2>1 DEF EnvironmentMap!Assign, Lookup
  <2> QED BY <2>2 DEF MapStep, EnvironmentMap!EnvNext
<1>6. Len(envs') <= MaxEnvs
  BY <1>1, <1>2, NamesAssumption DEF Create
<1> QED BY <1>2, <1>3, <1>4, <1>5, <1>6 DEF TableOK

LEMMA NoTableStep ==
  ASSUME TableOK, UNCHANGED <<envs, historyVars>>
  PROVE  TableOK' /\ MapStep
<1>1. envs' = envs /\ last' = last /\ touched' = touched
  BY DEF historyVars
<1>2. LastWins'
  BY <1>1, GetenvFinds DEF TableOK, LastWins
<1>3. TableOK'
  BY <1>1, <1>2 DEF TableOK
<1>4. Lookup' = Lookup
  BY <1>1, GetenvFinds DEF Lookup
<1> QED BY <1>3, <1>4 DEF MapStep

-----------------------------------------------------------------------------
(* The invariant. *)

IInv == TypeOK /\ TableOK

(* What every step does besides changing the table. *)
Elsewhere ==
  /\ console \in {"ready", "copying", "left", "crashed"}
  /\ interactive \in BOOLEAN
  /\ environ \in Environments
  /\ copied \in 0..Len(environ)

LEMMA InvariantParts == IInv <=> TableOK /\ Elsewhere
BY DEF IInv, TypeOK, TableOK, Elsewhere, Entries

LEMMA InitIInv == Init => IInv
<1> SUFFICES ASSUME Init PROVE IInv
  OBVIOUS
<1>1. Entry(HTH_MSQ, Queue) \in Entries
  BY NamesAssumption DEF Entry, Entries
<1>2. envs \in Seq(Entries) /\ Len(envs) = 1 /\ envs[1] = Entry(HTH_MSQ, Queue)
  BY <1>1 DEF Init
<1>3. Ordered(envs)
  BY <1>2 DEF Ordered
<1>4. envs[1].name = HTH_MSQ /\ envs[1].value = Queue
  BY <1>2 DEF Entry
<1>5. Find(envs, HTH_MSQ) = Queue
  <2>1. 1 \in 1..Len(envs)
    BY <1>2
  <2>2. Find(envs, envs[1].name) = envs[1].value
    BY <1>2, <1>3, <2>1, Found
  <2> QED BY <1>4, <2>2
<1>6. \A n \in Names : n # HTH_MSQ => Find(envs, n) = NoValue
  BY <1>2, <1>4, NotFound
<1>7. last \in [Names -> Values \cup {NoValue}] /\ touched \subseteq Names
  BY NamesAssumption DEF Init
<1>8. LastWins
  BY <1>5, <1>6, GetenvFinds DEF Init, LastWins
<1>9. TableOK
  BY <1>2, <1>3, <1>7, <1>8, NamesAssumption DEF TableOK
<1>10. Elsewhere
  <2>1. Len(environ) \in Nat
    BY NamesAssumption DEF Init
  <2>2. interactive \in BOOLEAN
    BY DEF Init
  <2>3. copied \in 0..Len(environ)
    BY <2>1 DEF Init
  <2> QED BY <2>2, <2>3 DEF Init, Elsewhere
<1> QED BY <1>9, <1>10, InvariantParts

LEMMA InheritedName ==
  ASSUME Elsewhere
  PROVE  /\ Len(environ) \in Nat
         /\ \A k \in 1..Len(environ) : environ[k] \in Names
<1>1. environ \in Seq(Names)
  BY NamesAssumption DEF Elsewhere
<1> QED BY <1>1

(* Every action, on the table. *)
LEMMA TableStep ==
  ASSUME TableOK, Elsewhere, [Next]_vars
  PROVE  TableOK' /\ MapStep
<1>1. ASSUME NEW n \in Names, NEW v \in Values, SetVariable(n, v)
      PROVE  TableOK' /\ MapStep
  BY <1>1, ResetStep, CreateStep, NoTableStep DEF SetVariable, Full
<1>2. ASSUME NEW n \in Names, NEW v \in Values, SetUnlessThere(n, v)
      PROVE  TableOK' /\ MapStep
  BY <1>2, CreateStep, NoTableStep DEF SetUnlessThere, Add, Full
<1>3. ASSUME NEW n \in Names, UnsetVariable(n)
      PROVE  TableOK' /\ MapStep
  BY <1>3, ClearStep, CreateStep, NoTableStep DEF UnsetVariable, Full
<1>4. ASSUME NEW n \in Names, SetWithoutValue(n)
      PROVE  TableOK' /\ MapStep
  BY <1>4, CreateStep, NoTableStep DEF SetWithoutValue, Full
<1>5. CASE CopyNext
  <2>1. environ[copied + 1] \in Names
    <3>1. copied + 1 \in 1..Len(environ)
      BY <1>5, InheritedName DEF CopyNext, Elsewhere
    <3> QED BY <3>1, InheritedName
  <2> QED
    BY <1>5, <2>1, CreateStep, NoTableStep, NamesAssumption
    DEF CopyNext, Add, Full
<1>6. CASE BeginCopy \/ EndCopy \/ Prompt \/ UNCHANGED vars
  <2>1. UNCHANGED <<envs, historyVars>>
    BY <1>6 DEF BeginCopy, EndCopy, Prompt, vars, historyVars
  <2> QED BY <2>1, NoTableStep
<1> QED BY <1>1, <1>2, <1>3, <1>4, <1>5, <1>6 DEF Next, Command

(* Every action, on the rest. *)
LEMMA ElsewhereStep ==
  ASSUME Elsewhere, [Next]_vars
  PROVE  Elsewhere'
<1>1. Len(environ) \in Nat
  BY InheritedName
<1>2. ASSUME NEW n \in Names, NEW v \in Values, SetVariable(n, v)
      PROVE  Elsewhere'
  BY <1>1, <1>2 DEF SetVariable, Refused, stateVars, Elsewhere
<1>3. ASSUME NEW n \in Names, NEW v \in Values, SetUnlessThere(n, v)
      PROVE  Elsewhere'
  BY <1>1, <1>3 DEF SetUnlessThere, Refused, stateVars, Elsewhere
<1>4. ASSUME NEW n \in Names, UnsetVariable(n)
      PROVE  Elsewhere'
  BY <1>1, <1>4 DEF UnsetVariable, Refused, stateVars, Elsewhere
<1>5. ASSUME NEW n \in Names, SetWithoutValue(n)
      PROVE  Elsewhere'
  BY <1>1, <1>5 DEF SetWithoutValue, Refused, stateVars, Elsewhere
<1>6. CASE CopyNext
  BY <1>1, <1>6 DEF CopyNext, Refused, stateVars, Elsewhere
<1>7. CASE BeginCopy \/ EndCopy
  BY <1>1, <1>7 DEF BeginCopy, EndCopy, stateVars, Elsewhere
<1>9. CASE Prompt
  <2>1. interactive' \in BOOLEAN
    BY <1>9 DEF Prompt
  <2> QED BY <1>9, <2>1 DEF Prompt, Elsewhere
<1>8. CASE UNCHANGED vars
  BY <1>8 DEF vars, Elsewhere
<1> QED BY <1>2, <1>3, <1>4, <1>5, <1>6, <1>7, <1>8, <1>9 DEF Next, Command

(* The table is well typed and ordered, and last is what the target finds.  *)
THEOREM Invariant == Spec => []IInv
<1>1. IInv /\ [Next]_vars => IInv'
  <2> SUFFICES ASSUME IInv, [Next]_vars PROVE IInv'
    OBVIOUS
  <2>1. TableOK /\ Elsewhere
    BY InvariantParts
  <2>2. TableOK' /\ Elsewhere'
    BY <2>1, TableStep, ElsewhereStep
  <2> QED BY <2>2 DEF IInv, TypeOK, TableOK, Elsewhere, Entries
<1> QED BY <1>1, InitIInv, PTL DEF Spec

(* Types of add_env_var and copy_env; no entry behind the end of envs.      *)
THEOREM TypeCorrect == Spec => []TypeOK
BY Invariant, PTL DEF IInv

(* No variable is in the table twice.                                       *)
THEOREM NoneTwice == Spec => []NoDuplicates
<1>1. IInv => NoDuplicates
  <2> SUFFICES ASSUME IInv,
                      NEW i \in 1..Len(envs), NEW j \in 1..Len(envs), i # j
               PROVE  envs[i].name # envs[j].name
    BY DEF NoDuplicates
  <2>1. envs[i].name \in Names /\ Ordered(envs) /\ Len(envs) \in Nat
    <3>1. envs \in Seq(Entries)
      BY DEF IInv, TableOK
    <3>2. envs[i] \in Entries
      BY <3>1
    <3> QED BY <3>1, <3>2 DEF Entries, IInv, TableOK
  <2>2. Begins(envs[i].name, envs[i].name)
    BY <2>1, BeginsAssumption
  <2>3. i < j \/ j < i
    BY <2>1
  <2> QED BY <2>1, <2>2, <2>3 DEF Ordered
<1> QED BY <1>1, Invariant, PTL

(* The target finds what was set last, as far as no command about a name    *)
(* the variable begins with has come in between.                            *)
THEOREM LastValueWins == Spec => []LastWins
BY Invariant, PTL DEF IInv, TableOK

(* The console's table implements the map: a command costs at most one      *)
(* variable besides the one it is about.                                    *)
THEOREM TableImplementsMap == Spec => ImplementsMap
<1>1. Init => EnvironmentMap!EnvInit
  <2> SUFFICES ASSUME Init PROVE Lookup \in [Names -> Values \cup {NoValue}]
    BY DEF EnvironmentMap!EnvInit, Lookup
  <2>1. IInv
    BY InitIInv
  <2>2. \A n \in Names : Getenv(n) = last[n]
    BY <2>1 DEF IInv, TableOK, LastWins, Init
  <2>3. last \in [Names -> Values \cup {NoValue}]
    BY <2>1 DEF IInv, TableOK
  <2> QED BY <2>2, <2>3 DEF Lookup
<1>2. IInv /\ [Next]_vars
        => [EnvironmentMap!EnvNext]_[n \in Names |-> Getenv(n)]
  BY InvariantParts, TableStep DEF MapStep, Lookup
<1> QED
  BY <1>1, <1>2, Invariant, PTL
  DEF Spec, ImplementsMap, EnvironmentMap!EnvSpec
=============================================================================
