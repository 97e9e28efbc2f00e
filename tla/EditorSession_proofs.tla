------------------------- MODULE EditorSession_proofs -------------------------
(***************************************************************************)
(* Theorems about the page of the editor and the document of its session,  *)
(* for any number of elements, clicks and requests under way: what the     *)
(* page shows, which element a request reaches and what is saved.          *)
(***************************************************************************)
EXTENDS EditorSession, SequenceTheorems, FiniteSetTheorems, WellFoundedInduction, TLAPS

(* No element twice in a list; the placeholder may be there more often.    *)
Apart(list) ==
  \A i, j \in DOMAIN list : list[i] = list[j] => i = j \/ list[i] = Placeholder

-------------------------------------------------------------------------------
(* Lists: what the operations of the model do to the places of a list.     *)

LEMMA RemovedAt ==
  ASSUME NEW S, NEW list \in Seq(S), NEW i \in DOMAIN list
  PROVE  /\ RemoveAt(list, i) \in Seq(S)
         /\ Len(RemoveAt(list, i)) = Len(list) - 1
         /\ \A j \in 1..(Len(list) - 1) : RemoveAt(list, i)[j] = IF j < i THEN list[j] ELSE list[j + 1]
<1> DEFINE a == SubSeq(list, 1, i - 1)
           b == SubSeq(list, i + 1, Len(list))
<1>1. i \in Nat /\ 1 <= i /\ i <= Len(list) /\ Len(list) \in Nat
  OBVIOUS
<1>2. /\ a \in Seq(S) /\ Len(a) = i - 1
      /\ \A j \in 1..(i - 1) : a[j] = list[j]
  BY <1>1, SubSeqProperties
<1>3. /\ b \in Seq(S) /\ Len(b) = Len(list) - i
      /\ \A j \in 1..(Len(list) - i) : b[j] = list[i + j]
  BY <1>1, SubSeqProperties
<1>4. RemoveAt(list, i) = a \o b
  BY DEF RemoveAt
<1> HIDE DEF a, b
<1>5. /\ a \o b \in Seq(S) /\ Len(a \o b) = Len(list) - 1
      /\ \A j \in 1..(Len(list) - 1) : (a \o b)[j] = IF j <= i - 1 THEN a[j] ELSE b[j - (i - 1)]
  <2>1. /\ a \o b \in Seq(S) /\ Len(a \o b) = Len(a) + Len(b)
        /\ \A j \in 1..(Len(a) + Len(b)) : (a \o b)[j] = IF j <= Len(a) THEN a[j] ELSE b[j - Len(a)]
    BY <1>2, <1>3, ConcatProperties
  <2>2. Len(a) = i - 1 /\ Len(a) + Len(b) = Len(list) - 1
    BY <1>1, <1>2, <1>3
  <2>3. QED
    BY <2>1, <2>2
<1>6. ASSUME NEW j \in 1..(Len(list) - 1)
      PROVE  (a \o b)[j] = IF j < i THEN list[j] ELSE list[j + 1]
  <2>1. CASE j < i
    BY <1>1, <1>2, <1>5, <2>1
  <2>2. CASE ~(j < i)
    <3>1. j - (i - 1) \in 1..(Len(list) - i) /\ i + (j - (i - 1)) = j + 1
      BY <1>1, <2>2
    <3>2. b[j - (i - 1)] = list[j + 1]
      BY <1>3, <3>1
    <3>3. QED
      BY <1>1, <1>5, <2>2, <3>2
  <2>3. QED
    BY <2>1, <2>2
<1>7. QED
  BY <1>4, <1>5, <1>6

LEMMA InsertedAt ==
  ASSUME NEW S, NEW list \in Seq(S), NEW i \in 1..(Len(list) + 1), NEW e \in S
  PROVE  /\ InsertAt(list, i, e) \in Seq(S)
         /\ Len(InsertAt(list, i, e)) = Len(list) + 1
         /\ \A j \in 1..(Len(list) + 1) :
              InsertAt(list, i, e)[j] = IF j < i THEN list[j] ELSE IF j = i THEN e ELSE list[j - 1]
<1> DEFINE a == SubSeq(list, 1, i - 1)
           b == SubSeq(list, i, Len(list))
           c == Append(a, e)
<1>1. i \in Nat /\ 1 <= i /\ i <= Len(list) + 1 /\ Len(list) \in Nat
  OBVIOUS
<1>2. /\ a \in Seq(S) /\ Len(a) = i - 1
      /\ \A j \in 1..(i - 1) : a[j] = list[j]
  BY <1>1, SubSeqProperties
<1>3. /\ b \in Seq(S) /\ Len(b) = Len(list) - i + 1
      /\ \A j \in 1..(Len(list) - i + 1) : b[j] = list[i + j - 1]
  BY <1>1, SubSeqProperties
<1>4. InsertAt(list, i, e) = (a \o <<e>>) \o b
  BY DEF InsertAt
<1> HIDE DEF a, b
<1>5. /\ a \o <<e>> \in Seq(S) /\ Len(a \o <<e>>) = i
      /\ \A j \in 1..i : (a \o <<e>>)[j] = IF j <= i - 1 THEN a[j] ELSE e
  <2>1. <<e>> \in Seq(S) /\ Len(<<e>>) = 1 /\ <<e>>[1] = e
    OBVIOUS
  <2>2. /\ a \o <<e>> \in Seq(S) /\ Len(a \o <<e>>) = i
        /\ \A j \in 1..i : (a \o <<e>>)[j] = IF j <= i - 1 THEN a[j] ELSE <<e>>[j - (i - 1)]
    BY <1>1, <1>2, <2>1, ConcatProperties
  <2>3. QED
    BY <1>1, <2>1, <2>2
<1> DEFINE d == a \o <<e>>
<1>6. d \in Seq(S) /\ Len(d) = i /\ (\A j \in 1..i : d[j] = IF j <= i - 1 THEN a[j] ELSE e)
  BY <1>5
<1>7. InsertAt(list, i, e) = d \o b
  BY <1>4
<1> HIDE DEF d
<1>8. /\ d \o b \in Seq(S) /\ Len(d \o b) = Len(list) + 1
      /\ \A j \in 1..(Len(list) + 1) : (d \o b)[j] = IF j <= i THEN d[j] ELSE b[j - i]
  <2>1. Len(d) + Len(b) = Len(list) + 1 /\ Len(d) = i
    BY <1>1, <1>3, <1>6
  <2>2. QED
    BY <1>3, <1>6, <2>1, ConcatProperties
<1>9. QED
  BY <1>1, <1>2, <1>3, <1>6, <1>7, <1>8

(* The same as a predicate, for provers that do not have to look inside.    *)
Inserted(S, list, i, e) ==
  /\ InsertAt(list, i, e) \in Seq(S)
  /\ Len(InsertAt(list, i, e)) = Len(list) + 1
  /\ \A j \in 1..(Len(list) + 1) :
       InsertAt(list, i, e)[j] = IF j < i THEN list[j] ELSE IF j = i THEN e ELSE list[j - 1]

LEMMA InsertedEntries ==
  ASSUME NEW S, NEW list \in Seq(S), NEW i \in 1..(Len(list) + 1), NEW e \in S
  PROVE  Inserted(S, list, i, e)
BY InsertedAt DEF Inserted

LEMMA ReplacedAt ==
  ASSUME NEW S, NEW list \in Seq(S), NEW i \in DOMAIN list, NEW e \in S
  PROVE  /\ ReplaceAt(list, i, e) \in Seq(S)
         /\ Len(ReplaceAt(list, i, e)) = Len(list)
         /\ \A j \in 1..Len(list) : ReplaceAt(list, i, e)[j] = IF j = i THEN e ELSE list[j]
BY DEF ReplaceAt

LEMMA Exchanged ==
  ASSUME NEW S, NEW list \in Seq(S), NEW i \in DOMAIN list, NEW j \in DOMAIN list
  PROVE  /\ Exchange(list, i, j) \in Seq(S)
         /\ Len(Exchange(list, i, j)) = Len(list)
         /\ \A k \in 1..Len(list) :
              Exchange(list, i, j)[k] = IF k = j THEN list[i] ELSE IF k = i THEN list[j] ELSE list[k]
BY DEF Exchange

LEMMA Appended ==
  ASSUME NEW S, NEW list \in Seq(S), NEW e \in S
  PROVE  /\ Append(list, e) \in Seq(S)
         /\ Len(Append(list, e)) = Len(list) + 1
         /\ \A j \in 1..(Len(list) + 1) : Append(list, e)[j] = IF j = Len(list) + 1 THEN e ELSE list[j]
OBVIOUS

(* ... and to its elements.                                                *)

LEMMA RemovedElements ==
  ASSUME NEW S, NEW list \in Seq(S), NEW i \in DOMAIN list, Apart(list), list[i] # Placeholder
  PROVE  /\ ToSet(RemoveAt(list, i)) = ToSet(list) \ {list[i]}
         /\ Apart(RemoveAt(list, i))
<1> DEFINE new == RemoveAt(list, i)
           n == Len(list)
<1>1. n \in Nat /\ i \in Nat /\ 1 <= i /\ i <= n /\ DOMAIN list = 1..n
  OBVIOUS
<1>2. /\ new \in Seq(S) /\ Len(new) = n - 1
      /\ \A j \in 1..(n - 1) : new[j] = IF j < i THEN list[j] ELSE list[j + 1]
  BY RemovedAt
<1> HIDE DEF new, n
<1>3. DOMAIN new = 1..(n - 1)
  BY <1>1, <1>2
<1> DEFINE Old(j) == IF j < i THEN j ELSE j + 1
<1>4. \A j \in 1..(n - 1) : Old(j) \in 1..n /\ Old(j) # i /\ new[j] = list[Old(j)]
  BY <1>1, <1>2
<1>5. \A j, k \in 1..(n - 1) : Old(j) = Old(k) => j = k
  BY <1>1
<1>6. \A k \in 1..n : k # i => \E j \in 1..(n - 1) : Old(j) = k
  <2> SUFFICES ASSUME NEW k \in 1..n, k # i PROVE \E j \in 1..(n - 1) : Old(j) = k
    OBVIOUS
  <2>1. CASE k < i
    BY <1>1, <2>1
  <2>2. CASE k > i
    <3>1. k - 1 \in 1..(n - 1) /\ Old(k - 1) = k
      BY <1>1, <2>2
    <3>2. QED
      BY <3>1
  <2>3. QED
    BY <1>1, <2>1, <2>2
<1> HIDE DEF Old
<1>7. \A k \in 1..n : list[k] = list[i] => k = i
  BY <1>1 DEF Apart
<1>8. ToSet(new) = ToSet(list) \ {list[i]}
  <2>1. ASSUME NEW e \in ToSet(new) PROVE e \in ToSet(list) \ {list[i]}
    <3>1. PICK j \in 1..(n - 1) : e = new[j]
      BY <1>3 DEF ToSet
    <3>2. Old(j) \in 1..n /\ Old(j) # i /\ e = list[Old(j)]
      BY <1>4, <3>1
    <3>3. e # list[i]
      BY <1>7, <3>2
    <3>4. QED
      BY <1>1, <3>2, <3>3 DEF ToSet
  <2>2. ASSUME NEW e \in ToSet(list) \ {list[i]} PROVE e \in ToSet(new)
    <3>1. PICK k \in 1..n : e = list[k]
      BY <1>1 DEF ToSet
    <3>2. PICK j \in 1..(n - 1) : Old(j) = k
      BY <1>6, <3>1
    <3>3. QED
      BY <1>3, <1>4, <3>1, <3>2 DEF ToSet
  <2>3. QED
    BY <2>1, <2>2
<1>9. Apart(new)
  <2> SUFFICES ASSUME NEW j \in 1..(n - 1), NEW k \in 1..(n - 1), new[j] = new[k], new[j] # Placeholder
               PROVE  j = k
    BY <1>3 DEF Apart
  <2>1. list[Old(j)] = list[Old(k)] /\ list[Old(j)] # Placeholder /\ Old(j) \in 1..n /\ Old(k) \in 1..n
    BY <1>4
  <2>2. Old(j) = Old(k)
    BY <1>1, <2>1 DEF Apart
  <2>3. QED
    BY <1>5, <2>2
<1>10. QED
  BY <1>8, <1>9 DEF new

LEMMA InsertedElements ==
  ASSUME NEW S, NEW list \in Seq(S), NEW i \in 1..(Len(list) + 1), NEW e \in S
  PROVE  /\ ToSet(InsertAt(list, i, e)) = ToSet(list) \cup {e}
         /\ Apart(list) /\ e \notin ToSet(list) => Apart(InsertAt(list, i, e))
<1> DEFINE new == InsertAt(list, i, e)
           n == Len(list)
           Old(j) == IF j < i THEN j ELSE j - 1
<1>1. n \in Nat /\ i \in Nat /\ 1 <= i /\ i <= n + 1 /\ DOMAIN list = 1..n
  OBVIOUS
<1>a. Inserted(S, list, i, e)
  BY InsertedEntries
<1>2. /\ new \in Seq(S) /\ Len(new) = n + 1
      /\ \A j \in 1..(n + 1) : new[j] = IF j < i THEN list[j] ELSE IF j = i THEN e ELSE list[j - 1]
  BY <1>a DEF Inserted
<1> HIDE DEF new, n
<1>3. DOMAIN new = 1..(n + 1) /\ i \in 1..(n + 1) /\ new[i] = e
  BY <1>1, <1>2
<1>4. \A j \in 1..(n + 1) : j # i => Old(j) \in 1..n /\ new[j] = list[Old(j)]
  BY <1>1, <1>2
<1>5. \A j, k \in 1..(n + 1) : j # i /\ k # i /\ Old(j) = Old(k) => j = k
  BY <1>1
<1>6. \A k \in 1..n : \E j \in 1..(n + 1) : j # i /\ Old(j) = k
  <2> SUFFICES ASSUME NEW k \in 1..n PROVE \E j \in 1..(n + 1) : j # i /\ Old(j) = k
    OBVIOUS
  <2>1. CASE k < i
    BY <1>1, <2>1
  <2>2. CASE k >= i
    <3>1. k + 1 \in 1..(n + 1) /\ Old(k + 1) = k /\ k + 1 # i
      BY <1>1, <2>2
    <3>2. QED
      BY <3>1
  <2>3. QED
    BY <1>1, <2>1, <2>2
<1> HIDE DEF Old
<1>7. ToSet(new) = ToSet(list) \cup {e}
  <2>1. ASSUME NEW d \in ToSet(new) PROVE d \in ToSet(list) \cup {e}
    BY <1>1, <1>3, <1>4 DEF ToSet
  <2>2. ASSUME NEW d \in ToSet(list) PROVE d \in ToSet(new)
    <3>1. PICK k \in 1..n : d = list[k]
      BY <1>1 DEF ToSet
    <3>2. PICK j \in 1..(n + 1) : j # i /\ Old(j) = k
      BY <1>6, <3>1
    <3>3. QED
      BY <1>3, <1>4, <3>1, <3>2 DEF ToSet
  <2>3. e \in ToSet(new)
    BY <1>3 DEF ToSet
  <2>4. QED
    BY <2>1, <2>2, <2>3
<1>8. ASSUME Apart(list), e \notin ToSet(list) PROVE Apart(new)
  <2> SUFFICES ASSUME NEW j \in 1..(n + 1), NEW k \in 1..(n + 1), new[j] = new[k], new[j] # Placeholder
               PROVE  j = k
    BY <1>3 DEF Apart
  <2>1. \A m \in 1..(n + 1) : m # i => new[m] # e
    BY <1>1, <1>4, <1>8 DEF ToSet
  <2>2. CASE j # i /\ k # i
    <3>1. list[Old(j)] = list[Old(k)] /\ list[Old(j)] # Placeholder /\ Old(j) \in 1..n /\ Old(k) \in 1..n
      BY <1>4, <2>2
    <3>2. Old(j) = Old(k)
      BY <1>1, <1>8, <3>1 DEF Apart
    <3>3. QED
      BY <1>5, <2>2, <3>2
  <2>3. QED
    BY <1>3, <2>1, <2>2
<1>9. QED
  BY <1>7, <1>8 DEF new

LEMMA ReplacedElements ==
  ASSUME NEW S, NEW list \in Seq(S), NEW i \in DOMAIN list, NEW e \in S,
         Apart(list), list[i] = Placeholder \/ e = Placeholder, e \notin ToSet(list) \/ e = Placeholder
  PROVE  /\ ToSet(ReplaceAt(list, i, e)) \ {Placeholder} = ((ToSet(list) \ {list[i]}) \cup {e}) \ {Placeholder}
         /\ Apart(ReplaceAt(list, i, e))
<1> DEFINE new == ReplaceAt(list, i, e)
           n == Len(list)
<1>1. n \in Nat /\ i \in 1..n /\ DOMAIN list = 1..n
  OBVIOUS
<1>2. /\ new \in Seq(S) /\ Len(new) = n
      /\ \A j \in 1..n : new[j] = IF j = i THEN e ELSE list[j]
  <2>1. /\ ReplaceAt(list, i, e) \in Seq(S)
        /\ Len(ReplaceAt(list, i, e)) = Len(list)
        /\ \A j \in 1..Len(list) : ReplaceAt(list, i, e)[j] = IF j = i THEN e ELSE list[j]
    BY ReplacedAt
  <2>2. QED
    BY <2>1
<1> HIDE DEF new, n
<1>3. DOMAIN new = 1..n
  BY <1>1, <1>2
<1>4. ASSUME NEW d \in ToSet(new) \ {Placeholder} PROVE d \in (ToSet(list) \ {list[i]}) \cup {e}
  <2>1. PICK j \in 1..n : d = new[j]
    BY <1>3 DEF ToSet
  <2>2. CASE j = i
    BY <1>2, <2>1, <2>2
  <2>3. CASE j # i
    <3>1. d = list[j]
      BY <1>2, <2>1, <2>3
    <3>2. list[j] # list[i]
      BY <1>1, <1>4, <2>3, <3>1 DEF Apart
    <3>3. QED
      BY <1>1, <3>1, <3>2 DEF ToSet
  <2>4. QED
    BY <2>2, <2>3
<1>5. ASSUME NEW d \in ((ToSet(list) \ {list[i]}) \cup {e}) PROVE d \in ToSet(new)
  <2>1. CASE d = e
    BY <1>1, <1>2, <1>3, <2>1 DEF ToSet
  <2>2. CASE d # e
    <3>1. PICK j \in 1..n : d = list[j]
      BY <1>1, <1>5, <2>2 DEF ToSet
    <3>2. j # i
      BY <1>5, <2>2, <3>1
    <3>3. QED
      BY <1>2, <1>3, <3>1, <3>2 DEF ToSet
  <2>3. QED
    BY <2>1, <2>2
<1>6. Apart(new)
  <2> SUFFICES ASSUME NEW j \in 1..n, NEW k \in 1..n, new[j] = new[k], new[j] # Placeholder, j # k
               PROVE  FALSE
    BY <1>3 DEF Apart
  <2>1. CASE j # i /\ k # i
    BY <1>1, <1>2, <2>1 DEF Apart
  <2>2. CASE j = i \/ k = i
    <3>1. \E m \in 1..n : m # i /\ list[m] = e /\ e # Placeholder
      BY <1>2, <2>2
    <3>2. e \in ToSet(list) /\ e # Placeholder
      BY <1>1, <3>1 DEF ToSet
    <3>3. QED
      BY <3>2
  <2>3. QED
    BY <2>1, <2>2
<1>7. QED
  BY <1>4, <1>5, <1>6 DEF new

LEMMA ExchangedElements ==
  ASSUME NEW S, NEW list \in Seq(S), NEW i \in DOMAIN list, NEW j \in DOMAIN list
  PROVE  /\ ToSet(Exchange(list, i, j)) = ToSet(list)
         /\ Apart(list) => Apart(Exchange(list, i, j))
<1> DEFINE new == Exchange(list, i, j)
           n == Len(list)
           Old(k) == IF k = j THEN i ELSE IF k = i THEN j ELSE k
<1>1. n \in Nat /\ i \in 1..n /\ j \in 1..n /\ DOMAIN list = 1..n
  OBVIOUS
<1>2. new \in Seq(S) /\ Len(new) = n /\ \A k \in 1..n : new[k] = list[Old(k)]
  <2>1. /\ Exchange(list, i, j) \in Seq(S)
        /\ Len(Exchange(list, i, j)) = Len(list)
        /\ \A k \in 1..Len(list) :
             Exchange(list, i, j)[k] = IF k = j THEN list[i] ELSE IF k = i THEN list[j] ELSE list[k]
    BY Exchanged
  <2>2. QED
    BY <2>1
<1> HIDE DEF new, n
<1>3. DOMAIN new = 1..n
  BY <1>1, <1>2
<1>4. \A k \in 1..n : Old(k) \in 1..n /\ Old(Old(k)) = k
  BY <1>1
<1> HIDE DEF Old
<1>5. ToSet(new) = ToSet(list)
  <2>1. ASSUME NEW d \in ToSet(new) PROVE d \in ToSet(list)
    BY <1>1, <1>2, <1>3, <1>4 DEF ToSet
  <2>2. ASSUME NEW d \in ToSet(list) PROVE d \in ToSet(new)
    <3>1. PICK k \in 1..n : d = list[k]
      BY <1>1 DEF ToSet
    <3>2. Old(k) \in 1..n /\ new[Old(k)] = d
      BY <1>2, <1>4, <3>1
    <3>3. QED
      BY <1>3, <3>2 DEF ToSet
  <2>3. QED
    BY <2>1, <2>2
<1>6. Apart(list) => Apart(new)
  <2> SUFFICES ASSUME Apart(list), NEW k \in 1..n, NEW m \in 1..n, new[k] = new[m], new[k] # Placeholder
               PROVE  k = m
    BY <1>3 DEF Apart
  <2>1. Old(k) = Old(m)
    BY <1>1, <1>2, <1>4 DEF Apart
  <2>2. QED
    BY <1>4, <2>1
<1>7. QED
  BY <1>5, <1>6 DEF new

LEMMA AppendedElements ==
  ASSUME NEW S, NEW list \in Seq(S), NEW e \in S
  PROVE  /\ ToSet(Append(list, e)) = ToSet(list) \cup {e}
         /\ Apart(list) /\ e \notin ToSet(list) => Apart(Append(list, e))
<1> DEFINE new == Append(list, e)
           n == Len(list)
<1>1. n \in Nat /\ DOMAIN list = 1..n /\ 1..(n + 1) = 1..n \cup {n + 1} /\ n + 1 \notin 1..n
  OBVIOUS
<1>2. DOMAIN new = 1..(n + 1) /\ new[n + 1] = e /\ \A j \in 1..n : new[j] = list[j]
  OBVIOUS
<1> HIDE DEF new, n
<1>3. ToSet(new) = ToSet(list) \cup {e}
  BY <1>1, <1>2 DEF ToSet
<1>4. ASSUME Apart(list), e \notin ToSet(list) PROVE Apart(new)
  <2>1. \A j \in 1..n : list[j] # e
    BY <1>1, <1>4 DEF ToSet
  <2>2. QED
    BY <1>1, <1>2, <1>4, <2>1 DEF Apart
<1>5. QED
  BY <1>3, <1>4 DEF new

LEMMA Placed ==
  ASSUME NEW list, NEW e \in ToSet(list)
  PROVE  Place(e, list) \in DOMAIN list /\ list[Place(e, list)] = e
BY DEF Place, ToSet

(* A list of different numbers is not longer than the greatest of them.    *)
LEMMA NotLonger ==
  ASSUME NEW n \in Nat, NEW list \in Seq(1..n), Apart(list)
  PROVE  Len(list) <= n
<1>1. list \in [1..Len(list) -> 1..n] /\ Len(list) \in Nat
  OBVIOUS
<1>2. IsInjective(list)
  BY <1>1 DEF IsInjective, Apart, Placeholder
<1>3. list \in Injection(1..Len(list), 1..n)
  BY <1>1, <1>2 DEF Injection
<1>4. IsFiniteSet(1..n) /\ Cardinality(1..n) = n
  BY FS_Interval
<1>5. Cardinality(1..Len(list)) = Len(list)
  <2> DEFINE m == Len(list)
  <2>1. m \in Nat /\ 1 \in Int /\ m \in Int
    BY <1>1
  <2> HIDE DEF m
  <2>2. Cardinality(1..m) = IF 1 > m THEN 0 ELSE m - 1 + 1
    BY <2>1, FS_Interval
  <2>3. Cardinality(1..m) = m
    BY <2>1, <2>2
  <2>4. QED
    BY <2>3 DEF m
<1>6. Cardinality(1..Len(list)) <= Cardinality(1..n)
  BY <1>3, <1>4, FS_Injection
<1>7. QED
  BY <1>4, <1>5, <1>6

(* A set of numbers that has a bound has a greatest element.               *)
LEMMA Greatest ==
  ASSUME NEW n \in Nat, NEW S \in SUBSET (0..n), S # {}
  PROVE  Max(S) \in S /\ \A x \in S : Max(S) >= x
<1> DEFINE T == {k \in Nat : n - k \in S}
<1>1. T \subseteq Nat /\ T # {}
  <2>1. PICK x \in S : TRUE
    OBVIOUS
  <2>2. n - x \in Nat /\ n - (n - x) = x
    BY <2>1
  <2>3. QED
    BY <2>1, <2>2
<1>2. PICK k \in T : \A j \in T : ~(j < k)
  <2> HIDE DEF T
  <2>1. \E k \in T : \A j \in T : <<j, k>> \notin OpToRel(<, Nat)
    BY <1>1, WFMin, NatLessThanWellFounded, Zenon
  <2>2. \A j, k \in Nat : j < k => <<j, k>> \in OpToRel(<, Nat)
    BY DEF OpToRel
  <2>3. QED
    BY <1>1, <2>1, <2>2
<1>3. n - k \in S /\ k \in Nat
  BY <1>2
<1>4. \A x \in S : n - k >= x
  <2> SUFFICES ASSUME NEW x \in S PROVE n - k >= x
    OBVIOUS
  <2>1. x \in Nat /\ x <= n /\ n - x \in Nat /\ n - (n - x) = x
    OBVIOUS
  <2>2. n - x \in T
    BY <2>1
  <2>3. ~(n - x < k)
    BY <1>2, <2>2
  <2>4. QED
    BY <1>3, <2>1, <2>3
<1>5. QED
  BY <1>3, <1>4 DEF Max

(* A list with an element of some kind has a first one.                    *)
LEMMA NodeFound ==
  ASSUME NEW S, NEW list \in Seq(S), NEW r
  PROVE  IF \E i \in DOMAIN list : IsOf(list[i], r)
           THEN Node(list, r) \in ToSet(list) /\ IsOf(Node(list, r), r)
           ELSE Node(list, r) = Nothing
<1>1. CASE ~ \E i \in DOMAIN list : IsOf(list[i], r)
  BY <1>1 DEF Node
<1>2. CASE \E i \in DOMAIN list : IsOf(list[i], r)
  <2> DEFINE T == {i \in DOMAIN list : IsOf(list[i], r)}
  <2>1. T \subseteq Nat /\ T # {}
    BY <1>2
  <2>2. PICK k \in T : \A j \in T : ~(j < k)
    <3> HIDE DEF T
    <3>1. \E k \in T : \A j \in T : <<j, k>> \notin OpToRel(<, Nat)
      BY <2>1, WFMin, NatLessThanWellFounded, Zenon
    <3>2. \A j, k \in Nat : j < k => <<j, k>> \in OpToRel(<, Nat)
      BY DEF OpToRel
    <3>3. QED
      BY <2>1, <3>1, <3>2
  <2>3. k \in DOMAIN list /\ IsOf(list[k], r) /\ \A j \in 1..(k - 1) : ~ IsOf(list[j], r)
    <3>1. \A j \in 1..(k - 1) : j \in DOMAIN list /\ j < k
      OBVIOUS
    <3>2. QED
      BY <2>2, <3>1
  <2> HIDE DEF T
  <2> DEFINE i == CHOOSE i \in DOMAIN list : IsOf(list[i], r) /\ \A j \in 1..(i - 1) : ~ IsOf(list[j], r)
  <2>4. i \in DOMAIN list /\ IsOf(list[i], r)
    BY <2>3
  <2>5. Node(list, r) = list[i]
    BY <1>2 DEF Node
  <2>6. QED
    BY <1>2, <2>4, <2>5 DEF ToSet
<1>3. QED
  BY <1>1, <1>2
-------------------------------------------------------------------------------
(* Types, closer than those of EditorTypeOK: what is in a list has been    *)
(* made, no reference is greater than the number of elements ever made,    *)
(* and what an answer carries is what its handler expects.                 *)

Made == 1..made

DocShape ==
  /\ made \in 0..MaxElem
  /\ doc \in Seq(Made) /\ Apart(doc)
  /\ row \in Seq(Made) /\ Apart(row)
  /\ ref \in [Elems -> 0..made]
  /\ sess \in {"whole", "noinfo", "bare"}
  /\ current \in BOOLEAN
  /\ sess # "bare" => \A e \in ToSet(doc) : ref[e] # 0
  /\ RefsApart

PageShape ==
  /\ page \in Seq(Made \cup {Placeholder})
  /\ id \in [Elems -> 0..made]
  /\ \A e \in ToSet(page) \ {Placeholder} : id[e] # 0
  /\ ctl \in [Elems \cup {Placeholder} -> SUBSET Controls]
  /\ view \in {"open", "overlay", "blank", "closed"}
  /\ listening \in BOOLEAN /\ simple \in BOOLEAN
  /\ min \in {0, 1}

Request(n) ==
  [kind : Changes \cup Forms, state : {"sent", "ok", "failed", "cut"},
   el : (1..n) \cup {Placeholder, Nothing}, at : (1..n) \cup {Placeholder, Nothing, Detached},
   ref : 0..n, next : (1..n) \cup {Placeholder, Nothing}, prev : (1..n) \cup {Placeholder, Nothing},
   list : Seq((1..n) \cup {Placeholder}), ctl : SUBSET Controls, alone : BOOLEAN, synced : BOOLEAN]

Fits(c, n) ==
  /\ c \in Request(n)
  /\ c.state = "ok" /\ c.kind = "add" => c.ref # 0 /\ \E e \in 1..n : c.list = <<e>>
  /\ c.state = "ok" /\ c.kind \in Forms => c.list \in Seq(1..n) /\ Apart(c.list)
  /\ c.kind = "remove" /\ c.state \in {"sent", "ok"} => c.at # Placeholder

CallShape ==
  /\ DOMAIN call = Slots
  /\ \A s \in Slots : call[s] = Free \/ Fits(call[s], made)
  /\ clicks \in 0..MaxClicks /\ hit \subseteq Events

TypeInv == DocShape /\ PageShape /\ CallShape

-------------------------------------------------------------------------------
LEMMA NumberedList ==
  ASSUME NEW n \in 0..MaxElem, NEW list \in Seq(1..n), Apart(list)
  PROVE  /\ Numbered(list) \in [Elems -> 0..n]
         /\ \A e \in ToSet(list) : e \in Elems /\ Numbered(list)[e] = Place(e, list) /\ Place(e, list) \in 1..n
         /\ \A d, e \in ToSet(list) : Numbered(list)[d] = Numbered(list)[e] => d = e
<1>1. n \in Nat /\ 1..n \subseteq Elems
  BY BoundsAssumption DEF Elems
<1>2. Len(list) <= n /\ Len(list) \in Nat /\ DOMAIN list = 1..Len(list)
  BY <1>1, NotLonger
<1>3. \A e \in ToSet(list) : Place(e, list) \in 1..n /\ list[Place(e, list)] = e /\ e \in Elems
  <2> SUFFICES ASSUME NEW e \in ToSet(list)
               PROVE  Place(e, list) \in 1..n /\ list[Place(e, list)] = e /\ e \in Elems
    OBVIOUS
  <2>1. Place(e, list) \in DOMAIN list /\ list[Place(e, list)] = e
    BY Placed
  <2>2. QED
    BY <1>1, <1>2, <2>1
<1>4. QED
  BY <1>1, <1>3 DEF Numbered

LEMMA NumberedNone == Numbered(<<>>) = [e \in Elems |-> 0]
BY DEF Numbered, ToSet

LEMMA LaidOut ==
  ASSUME NEW n \in Nat, NEW list \in Seq(1..n)
  PROVE  /\ Layout(list) \in Seq((1..n) \cup {Placeholder})
         /\ ToSet(Layout(list)) \ {Placeholder} = ToSet(list)
         /\ Apart(list) => Apart(Layout(list))
<1>1. Placeholder \notin 1..n
  BY DEF Placeholder
<1>2. Placeholder \notin ToSet(list)
  BY <1>1 DEF ToSet
<1>3. CASE list = <<>> /\ ~simple
  BY <1>1, <1>2, <1>3 DEF Layout, ToSet, Apart
<1>4. CASE ~(list = <<>> /\ ~simple)
  <2>1. Layout(list) = list
    BY <1>4 DEF Layout
  <2>2. list \in Seq((1..n) \cup {Placeholder})
    BY SeqMonotonic
  <2>3. QED
    BY <1>2, <2>1, <2>2
<1>5. QED
  BY <1>3, <1>4

ControlsOf == [Elems \cup {Placeholder} -> SUBSET Controls]

LEMMA ControlsTyped ==
  ASSUME NEW c \in ControlsOf
  PROVE  /\ \A list : Dressed(list) \in ControlsOf
         /\ \A i, n : FirstControls(i, n) \subseteq Controls
         /\ \A list : Kept(c, list, {}) \in ControlsOf
         /\ \A list, e : TopControls(c, list, e) \in ControlsOf
         /\ \A list, e : SetAddControls(c, list, e) \in ControlsOf
         /\ \A a, b \in Elems \cup {Placeholder} : SwapControls(c, a, b) \in ControlsOf
         /\ \A e : \A set \in SUBSET Controls : [c EXCEPT ![e] = set] \in ControlsOf
<1>1. \A i, n : FirstControls(i, n) \subseteq Controls
  BY DEF FirstControls, Controls
<1>2. \A list : Dressed(list) \in ControlsOf
  BY <1>1 DEF Dressed, ControlsOf, Controls
<1>3. \A list : Kept(c, list, {}) \in ControlsOf
  BY DEF Kept, ControlsOf
<1>4. \A e : \A set \in SUBSET Controls : [c EXCEPT ![e] = set] \in ControlsOf
  BY DEF ControlsOf
<1>5. \A list, e : TopControls(c, list, e) \in ControlsOf
  BY DEF TopControls, ControlsOf, Controls
<1>6. \A list, e : SetAddControls(c, list, e) \in ControlsOf
  BY DEF SetAddControls, ControlsOf, Controls
<1>7. \A a, b \in Elems \cup {Placeholder} : SwapControls(c, a, b) \in ControlsOf
  BY DEF SwapControls, ControlsOf
<1>8. QED
  BY <1>1, <1>2, <1>3, <1>4, <1>5, <1>6, <1>7

LEMMA Neighbours ==
  ASSUME NEW S, NEW list \in Seq(S), NEW e
  PROVE  /\ Following(list, e) \in ToSet(list) \cup {Nothing}
         /\ Previous(list, e) \in ToSet(list) \cup {Nothing}
<1>1. CASE e \in ToSet(list)
  <2>1. Place(e, list) \in DOMAIN list
    BY <1>1, Placed
  <2>2. QED
    BY <1>1, <2>1 DEF Following, Previous, ToSet
<1>2. CASE e \notin ToSet(list)
  BY <1>2 DEF Following, Previous
<1>3. QED
  BY <1>1, <1>2

(* The reference of a new element is greater than all others.              *)
LEMMA NewRefGreatest ==
  ASSUME DocShape
  PROVE  NewRef \in 1..(made + 1) /\ \A e \in ToSet(doc) : NewRef > ref[e]
<1> DEFINE S == {0} \cup {ref[e] : e \in ToSet(doc)}
<1>1. made \in Nat /\ \A e \in ToSet(doc) : ref[e] \in 0..made
  BY BoundsAssumption DEF DocShape, Made, Elems, ToSet
<1>2. S \in SUBSET (0..made) /\ S # {}
  BY <1>1
<1>3. Max(S) \in S /\ \A x \in S : Max(S) >= x
  BY <1>1, <1>2, Greatest
<1>4. NewRef = Max(S) + 1
  BY DEF NewRef
<1>5. \A e \in ToSet(doc) : ref[e] \in S
  OBVIOUS
<1> HIDE DEF S
<1>6. Max(S) \in 0..made
  BY <1>2, <1>3
<1>7. NewRef \in 1..(made + 1)
  BY <1>1, <1>4, <1>6
<1>8. ASSUME NEW e \in ToSet(doc) PROVE NewRef > ref[e]
  <2>1. ref[e] \in 0..made /\ Max(S) >= ref[e]
    BY <1>1, <1>3, <1>5
  <2>2. QED
    BY <1>1, <1>4, <1>6, <2>1
<1>9. QED
  BY <1>7, <1>8

LEMMA DenotedFound ==
  ASSUME NEW r, Found(r)
  PROVE  Denoted(r) \in ToSet(doc) /\ ref[Denoted(r)] = r
BY DEF Found, Denoted

(* What holds of a request and of a list still holds when there are more   *)
(* elements.                                                               *)
LEMMA FitsMore ==
  ASSUME NEW n \in Nat, NEW m \in Nat, n <= m, NEW c, Fits(c, n)
  PROVE  Fits(c, m)
<1>1. 1..n \subseteq 1..m /\ 0..n \subseteq 0..m
  OBVIOUS
<1>2. Seq(1..n) \subseteq Seq(1..m) /\ Seq((1..n) \cup {Placeholder}) \subseteq Seq((1..m) \cup {Placeholder})
  BY <1>1, SeqMonotonic
<1>3. c \in Request(m)
  BY <1>1, <1>2 DEF Fits, Request
<1>4. QED
  BY <1>1, <1>2, <1>3 DEF Fits

LEMMA OneRequest ==
  ASSUME CallShape, NEW s \in Slots, NEW c, call' = [call EXCEPT ![s] = c], made' = made,
         c = Free \/ Fits(c, made), clicks' \in 0..MaxClicks, hit' \subseteq Events
  PROVE  CallShape' /\ call'[s] = c /\ \A o \in Slots : o # s => call'[o] = call[o]
BY DEF CallShape

(* A place for a request before and after a request is there.              *)
Wide(n) ==
  [kind : {"none"} \cup Changes \cup Forms, state : {"free", "sent", "ok", "failed", "cut"},
   el : (1..n) \cup {Placeholder, Nothing}, at : (1..n) \cup {Placeholder, Nothing, Detached},
   ref : 0..n, next : (1..n) \cup {Placeholder, Nothing}, prev : (1..n) \cup {Placeholder, Nothing},
   list : Seq((1..n) \cup {Placeholder}), ctl : SUBSET Controls, alone : BOOLEAN, synced : BOOLEAN]

LEMMA FreeFields ==
  /\ Free.kind = "none" /\ Free.state = "free" /\ Free.el = Nothing /\ Free.at = Nothing
  /\ Free.ref = 0 /\ Free.next = Nothing /\ Free.prev = Nothing /\ Free.list = <<>>
  /\ Free.ctl = {} /\ ~Free.alone /\ ~Free.synced
  /\ DOMAIN Free = {"kind", "state", "el", "at", "ref", "next", "prev", "list", "ctl", "alone", "synced"}
  /\ \A n \in Nat : Free \in Wide(n)
<1>1. \A n \in Nat : Free \in Wide(n)
  BY DEF Free, Wide
<1>2. QED
  BY <1>1 DEF Free

(* A request that has got no answer.                                       *)
FailedCall(s, state) == [Free EXCEPT !.kind = call[s].kind, !.state = state, !.at = call[s].at]

LEMMA FailedFits ==
  ASSUME CallShape, made \in Nat, NEW s \in Slots, call[s] # Free, NEW state \in {"failed", "cut"}
  PROVE  LET c == FailedCall(s, state)
         IN  /\ Fits(c, made)
             /\ c.kind = call[s].kind /\ c.state = state /\ c.at = call[s].at /\ ~c.alone /\ c # Free
<1> SUFFICES ASSUME NEW c, c = FailedCall(s, state)
             PROVE  /\ Fits(c, made)
                    /\ c.kind = call[s].kind /\ c.state = state /\ c.at = call[s].at /\ ~c.alone /\ c # Free
  OBVIOUS
<1>1. /\ call[s].kind \in Changes \cup Forms
      /\ call[s].at \in (1..made) \cup {Placeholder, Nothing, Detached}
  BY DEF CallShape, Fits, Request
<1>2. Free \in Wide(made)
  BY FreeFields
<1>3. c \in Request(made)
  BY <1>1, <1>2 DEF Request, Wide, FailedCall
<1>4. c.kind = call[s].kind /\ c.state = state /\ c.at = call[s].at /\ ~c.alone
  BY FreeFields DEF FailedCall
<1>5. QED
  BY <1>3, <1>4, FreeFields DEF Fits
-------------------------------------------------------------------------------
(* Every step keeps the types.                                             *)

LEMMA MadeBound == ASSUME DocShape PROVE made \in Nat /\ Made \subseteq Elems /\ Placeholder \notin Made
BY BoundsAssumption DEF DocShape, Made, Elems, Placeholder

LEMMA SameServer == ASSUME DocShape, UNCHANGED server PROVE DocShape'
BY DEF DocShape, Made, RefsApart, server

LEMMA SameBrowser == ASSUME PageShape, UNCHANGED browser, made' = made PROVE PageShape'
BY DEF PageShape, Made, browser

(* The request for a form.                                                 *)
FormCall(kind, list, alone, synced) ==
  [Free EXCEPT !.kind = kind, !.state = "sent", !.list = list, !.alone = alone, !.synced = synced]

LEMMA FormFits ==
  \A n \in Nat : \A kind \in Forms : \A list \in Seq((1..n) \cup {Placeholder}) :
    \A alone, synced \in BOOLEAN :
      LET c == FormCall(kind, list, alone, synced)
      IN  c \in Request(n) /\ c.kind = kind /\ c.state = "sent"
<1> SUFFICES ASSUME NEW n \in Nat, NEW kind \in Forms, NEW list \in Seq((1..n) \cup {Placeholder}),
                    NEW alone \in BOOLEAN, NEW synced \in BOOLEAN,
                    NEW c, c = FormCall(kind, list, alone, synced)
             PROVE  c \in Request(n) /\ c.kind = kind /\ c.state = "sent"
  OBVIOUS
<1>1. Free \in Wide(n)
  BY FreeFields
<1>2. c.kind = kind /\ c.state = "sent"
  BY <1>1 DEF Wide, FormCall
<1>3. c \in Request(n)
  BY <1>1 DEF Wide, Request, FormCall
<1>4. QED
  BY <1>2, <1>3

(* A node of the page and what it is called.                               *)
LEMMA PageNodes ==
  ASSUME DocShape, PageShape, NEW e \in ToSet(page)
  PROVE  /\ Node(page, RefOf(e)) \in ToSet(page) /\ IsOf(Node(page, RefOf(e)), RefOf(e))
         /\ e \in Made \cup {Placeholder}
         /\ RefOf(e) \in 0..made
         /\ e # Placeholder => e \in Made /\ RefOf(e) = id[e] /\ RefOf(e) # 0
         /\ e # Placeholder => Node(page, RefOf(e)) \in Made
<1>1. Made \subseteq Elems /\ Placeholder \notin Made /\ made \in Nat
  BY MadeBound
<1>2. \A d \in ToSet(page) : d \in Made \cup {Placeholder}
  BY DEF PageShape, ToSet
<1>3. /\ RefOf(e) \in 0..made
      /\ e # Placeholder => e \in Made /\ RefOf(e) = id[e] /\ RefOf(e) # 0
  BY <1>1, <1>2 DEF RefOf, PageShape
<1>4. IsOf(e, RefOf(e))
  BY <1>1, <1>2 DEF IsOf, RefOf
<1>5. \E i \in DOMAIN page : IsOf(page[i], RefOf(e))
  BY <1>4 DEF ToSet
<1>6. Node(page, RefOf(e)) \in ToSet(page) /\ IsOf(Node(page, RefOf(e)), RefOf(e))
  BY <1>5, NodeFound DEF PageShape
<1>7. e # Placeholder => Node(page, RefOf(e)) # Placeholder
  BY <1>3, <1>6 DEF IsOf
<1>8. QED
  BY <1>2, <1>3, <1>6, <1>7

LEMMA ClickTypes ==
  ASSUME TypeInv, NEW s \in Slots, Click(s)
  PROVE  TypeInv'
<1> USE DEF TypeInv
<1>0. made \in Nat /\ made' = made /\ made' \in Nat
  BY MadeBound DEF Click, ClickControl, ClickForm, server
<1>1. CASE \E e \in ToSet(page), kind \in Changes : ClickControl(s, e, kind)
  <2>1. PICK e \in ToSet(page), kind \in Changes : ClickControl(s, e, kind)
    BY <1>1
  <2>2. UNCHANGED server
    BY <2>1 DEF ClickControl
  <2> DEFINE node == Node(page, RefOf(e))
             following == IF kind = "remove" THEN Following(page, node) ELSE Nothing
             previous == IF kind = "remove" THEN Previous(page, node) ELSE Nothing
             c == [Free EXCEPT !.kind = kind, !.state = "sent", !.el = e, !.at = node,
                     !.ref = RefOf(e), !.next = following, !.prev = previous]
  <2>3. /\ call' = [call EXCEPT ![s] = c] /\ clicks' = clicks + 1 /\ clicks < MaxClicks
        /\ hit' \subseteq hit \cup {"overlap"} /\ listening' \in BOOLEAN
        /\ e = Placeholder => kind = "add"
        /\ UNCHANGED <<page, id, ctl, view, simple, min>>
    BY <2>1 DEF ClickControl, Send
  <2>4. ToSet(page) \subseteq Made \cup {Placeholder}
    BY DEF PageShape, ToSet
  <2>5. following \in Made \cup {Placeholder, Nothing} /\ previous \in Made \cup {Placeholder, Nothing}
    <3>1. page \in Seq(Made \cup {Placeholder})
      BY DEF PageShape
    <3>2. Following(page, node) \in ToSet(page) \cup {Nothing} /\ Previous(page, node) \in ToSet(page) \cup {Nothing}
      BY <3>1, Neighbours
    <3>3. QED
      BY <2>4, <3>2
  <2>6. /\ node \in Made \cup {Placeholder} /\ e \in Made \cup {Placeholder} /\ RefOf(e) \in 0..made
        /\ e # Placeholder => node # Placeholder
    <3>1. node \in ToSet(page) /\ RefOf(e) \in 0..made /\ (e # Placeholder => node \in Made)
      BY PageNodes
    <3>2. QED
      BY <2>4, <3>1, MadeBound
  <2> HIDE DEF node, following, previous
  <2>7. c.kind = kind /\ c.state = "sent" /\ c.at = node
    BY FreeFields
  <2>8. Free \in Wide(made)
    BY <1>0, FreeFields
  <2>9. c \in Request(made)
    BY <2>5, <2>6, <2>8 DEF Wide, Request, Made
  <2> HIDE DEF c
  <2>10. Fits(c, made)
    BY <2>3, <2>6, <2>7, <2>9 DEF Fits
  <2>11. CallShape'
    <3>1. clicks' \in 0..MaxClicks /\ hit' \subseteq Events
      BY <2>3, BoundsAssumption DEF CallShape, Events
    <3>2. QED
      BY <1>0, <2>3, <2>10, <3>1, OneRequest
  <2>12. PageShape'
    BY <1>0, <2>3 DEF PageShape, Made
  <2>13. QED
    BY <2>2, <2>11, <2>12, SameServer
<1>2. CASE \E kind \in Forms : ClickForm(s, kind)
  <2>1. PICK kind \in Forms : ClickForm(s, kind)
    BY <1>2
  <2>2. UNCHANGED server
    BY <2>1 DEF ClickForm
  <2> DEFINE alone == Busy = {}
             synced == hit = {}
             c == FormCall(kind, page, alone, synced)
  <2>3. /\ call' = [call EXCEPT ![s] = c] /\ clicks' = clicks + 1 /\ clicks < MaxClicks
        /\ hit' \subseteq hit \cup {"late"} /\ view' = "overlay"
        /\ UNCHANGED <<page, id, ctl, listening, simple, min>>
    BY <2>1 DEF ClickForm, Send, FormCall
  <2>4. page \in Seq((1..made) \cup {Placeholder}) /\ alone \in BOOLEAN /\ synced \in BOOLEAN
    BY DEF PageShape, Made
  <2> HIDE DEF alone, synced
  <2>6. c \in Request(made) /\ c.kind = kind /\ c.state = "sent"
    BY <1>0, <2>4, FormFits
  <2> HIDE DEF c
  <2>7. Fits(c, made)
    BY <2>6 DEF Fits, Forms, Leaving
  <2>8. CallShape'
    <3>1. clicks' \in 0..MaxClicks /\ hit' \subseteq Events
      BY <2>3, BoundsAssumption DEF CallShape, Events
    <3>2. QED
      BY <1>0, <2>3, <2>7, <3>1, OneRequest
  <2>9. PageShape'
    BY <1>0, <2>3 DEF PageShape, Made
  <2>10. QED
    BY <2>2, <2>8, <2>9, SameServer
<1>3. QED
  BY <1>1, <1>2 DEF Click

(* The answer that a service gives.                                        *)
LEMMA Replied ==
  ASSUME CallShape, NEW s \in Slots, call[s].state = "sent", made \in Nat, made' \in Nat, made <= made',
         NEW list \in Seq((1..made') \cup {Placeholder}), NEW r \in 0..made', NEW controls \in SUBSET Controls,
         call[s].kind = "add" => r # 0 /\ \E e \in 1..made' : list = <<e>>,
         call[s].kind \in Forms => list \in Seq(1..made') /\ Apart(list),
         Reply(s, list, r, controls), clicks' = clicks, hit' \subseteq Events
  PROVE  /\ CallShape'
         /\ \A o \in Slots : o # s => call'[o] = call[o]
         /\ call'[s].kind = call[s].kind /\ call'[s].state = "ok" /\ call'[s].at = call[s].at
         /\ call'[s].ref = r /\ call'[s].list = list /\ call'[s].ctl = controls
         /\ call'[s].next = call[s].next /\ call'[s].prev = call[s].prev
         /\ call'[s].alone = call[s].alone /\ call'[s] # Free
<1> DEFINE c == [call[s] EXCEPT !.state = "ok", !.el = Nothing, !.ref = r, !.list = list, !.ctl = controls]
<1>1. call' = [call EXCEPT ![s] = c]
  BY DEF Reply
<1>2. call[s] # Free /\ \A o \in Slots : call[o] = Free \/ Fits(call[o], made')
  BY FreeFields, FitsMore DEF CallShape
<1>3. Fits(call[s], made') /\ call[s] \in Request(made')
  BY <1>2 DEF Fits
<1>4. c \in Request(made')
  BY <1>3 DEF Request
<1>5. /\ c.kind = call[s].kind /\ c.state = "ok" /\ c.at = call[s].at /\ c.ref = r /\ c.list = list
      /\ c.ctl = controls /\ c.next = call[s].next /\ c.prev = call[s].prev
      /\ c.alone = call[s].alone
  BY <1>3 DEF Request
<1> HIDE DEF c
<1>6. Fits(c, made') /\ c # Free
  BY <1>3, <1>4, <1>5, FreeFields DEF Fits
<1>7. call'[s] = c /\ DOMAIN call' = Slots /\ \A o \in Slots : o # s => call'[o] = call[o]
  BY <1>1 DEF CallShape
<1>8. CallShape'
  BY <1>2, <1>6, <1>7 DEF CallShape
<1>9. QED
  BY <1>5, <1>6, <1>7, <1>8

LEMMA AddTypes ==
  ASSUME TypeInv, NEW s \in Slots, ServeAdd(s)
  PROVE  TypeInv'
<1> USE DEF TypeInv
<1>0. made \in Nat /\ Made \subseteq Elems /\ made' = made + 1 /\ made' \in Elems /\ made' \notin Made
      /\ made' \in Nat
  <2>1. made \in Nat /\ Made \subseteq Elems /\ made < MaxElem /\ made' = made + 1
    BY MadeBound DEF ServeAdd
  <2>2. QED
    BY <2>1, BoundsAssumption DEF Elems, Made
<1>1. Made \subseteq Made' /\ 0..made \subseteq 0..made' /\ made' \in Made'
  BY <1>0 DEF Made
<1>2. /\ doc' = Append(doc, made') /\ ref' = [ref EXCEPT ![made'] = NewRef] /\ sess = "whole"
      /\ UNCHANGED <<sess, row, current, page, id, ctl, view, listening, simple, min, hit, clicks>>
  BY DEF ServeAdd, browser
<1>3. NewRef \in 1..made' /\ \A e \in ToSet(doc) : NewRef > ref[e]
  BY <1>0, NewRefGreatest
<1>4. doc \in Seq(Made') /\ row \in Seq(Made') /\ page \in Seq(Made' \cup {Placeholder})
  <2>1. Made \cup {Placeholder} \subseteq Made' \cup {Placeholder}
    BY <1>1
  <2>2. QED
    BY <1>1, <2>1, SeqMonotonic DEF DocShape, PageShape
<1>5. made' \notin ToSet(doc) /\ ToSet(doc) \subseteq Made
  <2>1. ToSet(doc) \subseteq Made
    BY DEF DocShape, ToSet
  <2>2. QED
    BY <1>0, <2>1
<1>6. doc' \in Seq(Made') /\ ToSet(doc') = ToSet(doc) \cup {made'} /\ Apart(doc')
  BY <1>1, <1>2, <1>4, <1>5, Appended, AppendedElements DEF DocShape
<1>7. ref' \in [Elems -> 0..made'] /\ ref'[made'] = NewRef /\ \A e \in ToSet(doc) : ref'[e] = ref[e]
  <2>1. ref \in [Elems -> 0..made']
    BY <1>1 DEF DocShape
  <2>2. NewRef \in 0..made'
    BY <1>0, <1>3
  <2>3. QED
    BY <1>0, <1>2, <1>5, <2>1, <2>2
<1>8. \A e \in ToSet(doc') : ref'[e] # 0
  BY <1>0, <1>2, <1>3, <1>6, <1>7 DEF DocShape
<1>9. RefsApart'
  <2>1. \A d, e \in ToSet(doc) : ref'[d] = ref'[e] => d = e
    BY <1>2, <1>7 DEF DocShape, RefsApart
  <2>2. \A e \in ToSet(doc) : ref'[e] # ref'[made']
    <3>1. \A e \in ToSet(doc) : ref[e] \in 0..made
      BY <1>0, <1>5 DEF DocShape
    <3>2. NewRef \in Nat /\ \A e \in ToSet(doc) : ref[e] \in Nat
      BY <1>0, <1>3, <3>1
    <3>3. QED
      BY <1>3, <1>7, <3>2
  <2>3. QED
    BY <1>6, <2>1, <2>2 DEF RefsApart
<1>10. DocShape'
  <2>1. made' \in 0..MaxElem
    BY <1>0, BoundsAssumption DEF Elems
  <2>2. row' \in Seq(Made') /\ Apart(row')
    BY <1>2, <1>4 DEF DocShape
  <2>3. sess' \in {"whole", "noinfo", "bare"} /\ current' \in BOOLEAN
    BY <1>2 DEF DocShape
  <2>4. QED
    BY <1>6, <1>7, <1>8, <1>9, <2>1, <2>2, <2>3 DEF DocShape
<1>11. PageShape'
  BY <1>1, <1>2, <1>4 DEF PageShape
<1>12. CallShape'
  <2>1. Reply(s, <<made'>>, NewRef, FirstControls(Len(doc'), Len(doc')))
    BY DEF ServeAdd
  <2>2. call[s].state = "sent" /\ call[s].kind = "add" /\ call[s].kind \notin Forms
    BY DEF ServeAdd, Sent, Forms, Leaving
  <2>3. <<made'>> \in Seq((1..made') \cup {Placeholder}) /\ NewRef \in 0..made' /\ NewRef # 0
    BY <1>0, <1>3
  <2>4. FirstControls(Len(doc'), Len(doc')) \in SUBSET Controls
    BY DEF FirstControls, Controls
  <2>5. made' \in 1..made' /\ made <= made' /\ made' \in Nat
    BY <1>0
  <2>6. hit' \subseteq Events /\ clicks' = clicks
    BY <1>2 DEF CallShape
  <2>7. QED
    BY <1>0, <2>1, <2>2, <2>3, <2>4, <2>5, <2>6, Replied
<1>13. QED
  BY <1>10, <1>11, <1>12

LEMMA KeptInList ==
  ASSUME NEW f, NEW list, NEW none
  PROVE  /\ DOMAIN Kept(f, list, none) = DOMAIN f
         /\ \A e \in DOMAIN f : e \in ToSet(list) => Kept(f, list, none)[e] = f[e]
         /\ \A e \in DOMAIN f : e \notin ToSet(list) => Kept(f, list, none)[e] = none
BY DEF Kept

LEMMA RemoveTypes ==
  ASSUME TypeInv, NEW s \in Slots, ServeRemove(s)
  PROVE  TypeInv'
<1> USE DEF TypeInv
<1>0. made \in Nat /\ made' = made /\ Made \subseteq Elems /\ Made' = Made /\ Placeholder \notin Made
  BY MadeBound DEF ServeRemove, Made
<1> DEFINE d == Denoted(call[s].ref)
<1>1. d \in ToSet(doc)
  BY DenotedFound DEF ServeRemove
<1>2. Place(d, doc) \in DOMAIN doc /\ doc[Place(d, doc)] = d /\ d # Placeholder
  <2>1. ToSet(doc) \subseteq Made
    BY DEF DocShape, ToSet
  <2>2. QED
    BY <1>0, <1>1, <2>1, Placed
<1>3. doc' = RemoveAt(doc, Place(d, doc)) /\ ref' = Kept(ref, doc', 0) /\ sess = "whole"
  BY DEF ServeRemove
<1>4. doc' \in Seq(Made) /\ ToSet(doc') = ToSet(doc) \ {d} /\ Apart(doc')
  BY <1>2, <1>3, RemovedAt, RemovedElements DEF DocShape
<1>5. ref' \in [Elems -> 0..made] /\ \A e \in ToSet(doc') : ref'[e] = ref[e] /\ e \in Elems
  <2>1. ref \in [Elems -> 0..made] /\ ToSet(doc') \subseteq Elems
    BY <1>0, <1>4 DEF DocShape, ToSet
  <2>2. ref' \in [Elems -> 0..made]
    BY <1>0, <1>3, <2>1 DEF Kept
  <2>3. QED
    BY <1>3, <2>1, <2>2, KeptInList
<1>6. DocShape'
  <2>1. UNCHANGED <<sess, row, made, current>>
    BY DEF ServeRemove
  <2>2. \A e \in ToSet(doc') : ref'[e] # 0
    BY <1>3, <1>4, <1>5 DEF DocShape
  <2>3. RefsApart'
    BY <1>3, <1>4, <1>5, <2>1 DEF DocShape, RefsApart
  <2>4. QED
    BY <1>0, <1>4, <1>5, <2>1, <2>2, <2>3 DEF DocShape
<1>7. PageShape'
  BY <1>0, SameBrowser DEF ServeRemove
<1>8. CallShape'
  <2> DEFINE list == IF doc' = <<>> /\ ~simple THEN <<Placeholder>> ELSE <<>>
  <2>1. Reply(s, list, 0, {})
    BY DEF ServeRemove
  <2>2. call[s].state = "sent" /\ call[s].kind = "remove" /\ call[s].kind \notin Forms
    BY DEF ServeRemove, Sent, Forms, Leaving
  <2>3. list \in Seq((1..made') \cup {Placeholder})
    <3>1. <<Placeholder>> \in Seq((1..made') \cup {Placeholder}) /\ <<>> \in Seq((1..made') \cup {Placeholder})
      OBVIOUS
    <3>2. QED
      BY <3>1
  <2>4. clicks' = clicks /\ hit' \subseteq Events
    BY DEF ServeRemove, Reach, CallShape, Events
  <2> HIDE DEF list
  <2>5. 0 \in 0..made' /\ {} \in SUBSET Controls /\ made <= made' /\ made' \in Nat
    BY <1>0
  <2>6. QED
    BY <1>0, <2>1, <2>2, <2>3, <2>4, <2>5, Replied
<1>9. QED
  BY <1>6, <1>7, <1>8

LEMMA MoveTypes ==
  ASSUME TypeInv, NEW s \in Slots, ServeMove(s)
  PROVE  TypeInv'
<1> USE DEF TypeInv
<1>0. made \in Nat /\ made' = made /\ Made' = Made
  BY MadeBound DEF ServeMove, Made
<1>1. PICK i \in DOMAIN doc, j \in DOMAIN doc : doc' = Exchange(doc, i, j)
  <2>1. Denoted(call[s].ref) \in ToSet(doc)
    BY DenotedFound DEF ServeMove
  <2>2. Place(Denoted(call[s].ref), doc) \in DOMAIN doc
    BY <2>1, Placed
  <2>3. QED
    BY <2>2 DEF ServeMove
<1>2. doc' \in Seq(Made) /\ ToSet(doc') = ToSet(doc) /\ Apart(doc')
  BY <1>1, Exchanged, ExchangedElements DEF DocShape
<1>3. DocShape'
  <2>1. UNCHANGED <<ref, sess, row, made, current>>
    BY DEF ServeMove
  <2>2. RefsApart'
    BY <1>2, <2>1 DEF DocShape, RefsApart
  <2>3. QED
    BY <1>0, <1>2, <2>1, <2>2 DEF DocShape
<1>4. PageShape'
  BY <1>0, SameBrowser DEF ServeMove
<1>5. CallShape'
  <2>1. Reply(s, <<>>, 0, {})
    BY DEF ServeMove
  <2>2. call[s].state = "sent" /\ call[s].kind # "add" /\ call[s].kind \notin Forms
    BY DEF ServeMove, Sent, Forms, Leaving
  <2>3. <<>> \in Seq((1..made') \cup {Placeholder})
    OBVIOUS
  <2>4. clicks' = clicks /\ hit' \subseteq Events
    BY DEF ServeMove, Reach, CallShape, Events
  <2>5. 0 \in 0..made' /\ {} \in SUBSET Controls /\ made <= made' /\ made' \in Nat
    BY <1>0
  <2>6. QED
    BY <1>0, <2>1, <2>2, <2>3, <2>4, <2>5, Replied
<1>6. QED
  BY <1>3, <1>4, <1>5

(* A document that is numbered anew, or left without references.           *)
LEMMA Renumbered ==
  ASSUME DocShape, made' = made, doc' \in Seq(Made), Apart(doc'), row' \in Seq(Made), Apart(row'),
         current' \in BOOLEAN,
         \/ ref' = Numbered(doc') /\ sess' = "whole"
         \/ ref' = Numbered(<<>>) /\ sess' = "bare"
  PROVE  DocShape'
<1>0. made \in 0..MaxElem /\ made \in Nat /\ Made' = Made /\ doc' \in Seq(1..made)
  BY MadeBound DEF DocShape, Made
<1>1. CASE ref' = Numbered(doc') /\ sess' = "whole"
  <2>1. /\ ref' \in [Elems -> 0..made]
        /\ \A e \in ToSet(doc') : e \in Elems /\ ref'[e] = Place(e, doc') /\ Place(e, doc') \in 1..made
        /\ \A d, e \in ToSet(doc') : ref'[d] = ref'[e] => d = e
    BY <1>0, <1>1, NumberedList
  <2>2. \A e \in ToSet(doc') : ref'[e] # 0
    BY <2>1
  <2>3. RefsApart'
    BY <2>1 DEF RefsApart
  <2>4. QED
    BY <1>0, <1>1, <2>1, <2>2, <2>3 DEF DocShape
<1>2. CASE ref' = Numbered(<<>>) /\ sess' = "bare"
  <2>1. ref' \in [Elems -> 0..made]
    BY <1>0, <1>2, NumberedNone
  <2>2. QED
    BY <1>0, <1>2, <2>1 DEF DocShape, RefsApart
<1>3. QED
  BY <1>1, <1>2

LEMMA Failing ==
  ASSUME CallShape, NEW s \in Slots, call[s] # Free, made \in Nat, made' = made,
         NEW state \in {"failed", "cut"},
         call' = [call EXCEPT ![s] = [Free EXCEPT !.kind = call[s].kind, !.state = state, !.at = call[s].at]],
         clicks' = clicks, hit' \subseteq Events
  PROVE  /\ CallShape'
         /\ \A o \in Slots : o # s => call'[o] = call[o]
         /\ call'[s].kind = call[s].kind /\ call'[s].state = state /\ call'[s].at = call[s].at
         /\ ~call'[s].alone /\ call'[s] # Free
<1> DEFINE c == FailedCall(s, state)
<1>1. /\ Fits(c, made)
      /\ c.kind = call[s].kind /\ c.state = state /\ c.at = call[s].at /\ ~c.alone /\ c # Free
  BY FailedFits
<1>2. call' = [call EXCEPT ![s] = c]
  BY DEF FailedCall
<1> HIDE DEF c
<1>3. CallShape' /\ call'[s] = c /\ \A o \in Slots : o # s => call'[o] = call[o]
  BY <1>1, <1>2, OneRequest DEF CallShape
<1>4. QED
  BY <1>1, <1>3

LEMMA SaveTypes ==
  ASSUME TypeInv, NEW s \in Slots, ServeSave(s) \/ ServeForget(s)
  PROVE  TypeInv'
<1> USE DEF TypeInv
<1>0. made \in Nat /\ made' = made /\ Made' = Made
  BY MadeBound DEF ServeSave, ServeForget, Made
<1>1. PICK list \in {doc, row} : doc' = list /\ row' \in {row, list} /\ Reply(s, list, 0, {})
  BY DEF ServeSave, ServeForget
<1>2. list \in Seq(Made) /\ Apart(list) /\ row' \in Seq(Made) /\ Apart(row')
  BY <1>1 DEF DocShape
<1>3. DocShape'
  <2>1. \/ ref' = Numbered(doc') /\ sess' = "whole"
        \/ ref' = Numbered(<<>>) /\ sess' = "bare"
    BY <1>1 DEF ServeSave, ServeForget
  <2>2. current' = FALSE
    BY DEF ServeSave, ServeForget
  <2>3. QED
    BY <1>0, <1>1, <1>2, <2>1, <2>2, Renumbered
<1>4. PageShape'
  BY <1>0, SameBrowser DEF ServeSave, ServeForget
<1>5. CallShape'
  <2>1. call[s].state = "sent" /\ call[s].kind # "add"
    BY DEF ServeSave, ServeForget, Sent
  <2>2. list \in Seq(1..made') /\ list \in Seq((1..made') \cup {Placeholder})
    <3>1. 1..made' \subseteq (1..made') \cup {Placeholder}
      OBVIOUS
    <3>2. list \in Seq(1..made')
      BY <1>0, <1>2 DEF Made
    <3>3. QED
      BY <3>1, <3>2, SeqMonotonic
  <2>3. clicks' = clicks /\ hit' \subseteq Events
    BY DEF ServeSave, ServeForget, CallShape
  <2>4. 0 \in 0..made' /\ {} \in SUBSET Controls /\ made <= made' /\ made' \in Nat
    BY <1>0
  <2>5. QED
    BY <1>0, <1>1, <1>2, <2>1, <2>2, <2>3, <2>4, Replied
<1>6. QED
  BY <1>3, <1>4, <1>5

LEMMA NotServedTypes ==
  ASSUME TypeInv, NEW s \in Slots, SaveAborted(s) \/ RemoveUnknown(s) \/ Refused(s) \/ CutOff(s)
  PROVE  TypeInv'
<1> USE DEF TypeInv
<1>0. made \in Nat /\ made' = made /\ Made' = Made
  BY MadeBound DEF SaveAborted, RemoveUnknown, Refused, CutOff, Made, server
<1>1. CallShape'
  <2>1. call[s] # Free
    BY FreeFields DEF SaveAborted, RemoveUnknown, Refused, CutOff, Sent
  <2>2. clicks' = clicks /\ hit' \subseteq Events
    BY DEF SaveAborted, RemoveUnknown, Refused, CutOff, CallShape, Events
  <2>3. PICK state \in {"failed", "cut"} :
          call' = [call EXCEPT ![s] = [Free EXCEPT !.kind = call[s].kind, !.state = state, !.at = call[s].at]]
    BY DEF SaveAborted, RemoveUnknown, Refused, CutOff, Fail
  <2>4. QED
    BY <1>0, <2>1, <2>2, <2>3, Failing
<1>2. PageShape'
  BY <1>0, SameBrowser DEF SaveAborted, RemoveUnknown, Refused, CutOff
<1>3. DocShape'
  <2>1. CASE SaveAborted(s)
    <3>1. UNCHANGED <<doc, row, current>> /\ ref' = Numbered(<<>>) /\ sess' = "bare"
      BY <2>1 DEF SaveAborted
    <3>2. doc' \in Seq(Made) /\ Apart(doc') /\ row' \in Seq(Made) /\ Apart(row') /\ current' \in BOOLEAN
      BY <3>1 DEF DocShape
    <3>3. QED
      BY <1>0, <3>1, <3>2, Renumbered
  <2>2. CASE RemoveUnknown(s)
    <3>1. UNCHANGED <<doc, ref, row, made, current>> /\ sess = "whole" /\ sess' = "noinfo"
      BY <2>2 DEF RemoveUnknown
    <3>2. QED
      BY <1>0, <3>1 DEF DocShape, RefsApart
  <2>3. CASE Refused(s) \/ CutOff(s)
    BY <2>3, SameServer DEF Refused, CutOff
  <2>4. QED
    BY <2>1, <2>2, <2>3
<1>4. QED
  BY <1>1, <1>2, <1>3

LEMMA ServeTypes ==
  ASSUME TypeInv, NEW s \in Slots, Serve(s)
  PROVE  TypeInv'
BY AddTypes, RemoveTypes, MoveTypes, SaveTypes, NotServedTypes DEF Serve

LEMMA NoMoreElements ==
  ASSUME NEW S, NEW list \in Seq(S), NEW i \in DOMAIN list
  PROVE  /\ ToSet(RemoveAt(list, i)) \subseteq ToSet(list)
         /\ \A e \in S : ToSet(ReplaceAt(list, i, e)) \subseteq ToSet(list) \cup {e}
<1> DEFINE n == Len(list)
<1>1. n \in Nat /\ DOMAIN list = 1..n /\ i \in 1..n
  OBVIOUS
<1>2. ToSet(RemoveAt(list, i)) \subseteq ToSet(list)
  <2> DEFINE new == RemoveAt(list, i)
  <2>1. new \in Seq(S) /\ Len(new) = n - 1 /\ \A j \in 1..(n - 1) : new[j] = IF j < i THEN list[j] ELSE list[j + 1]
    BY RemovedAt
  <2> HIDE DEF new, n
  <2>2. DOMAIN new = 1..(n - 1)
    BY <1>1, <2>1
  <2>3. \A j \in 1..(n - 1) : new[j] \in ToSet(list)
    <3>1. \A j \in 1..(n - 1) : j \in 1..n /\ j + 1 \in 1..n
      BY <1>1
    <3>2. \A j \in 1..n : list[j] \in ToSet(list)
      BY <1>1 DEF ToSet
    <3>3. QED
      BY <2>1, <3>1, <3>2
  <2>4. ToSet(new) \subseteq ToSet(list)
    BY <2>2, <2>3 DEF ToSet
  <2>5. QED
    BY <2>4 DEF new
<1>3. ASSUME NEW e \in S PROVE ToSet(ReplaceAt(list, i, e)) \subseteq ToSet(list) \cup {e}
  BY DEF ReplaceAt, ToSet
<1>4. QED
  BY <1>2, <1>3

(* What a handler leaves in the page.                                      *)
LEMMA ShowsTypes ==
  ASSUME PageShape, NEW list, NEW controls, NEW event, Shows(list, controls, event),
         list \in Seq(Made \cup {Placeholder}), controls \in ControlsOf,
         id' \in [Elems -> 0..made], \A e \in ToSet(list) \ {Placeholder} : id'[e] # 0,
         UNCHANGED <<made, view, simple, min>>
  PROVE  PageShape'
<1>1. page' = list /\ ctl' = Kept(controls, list, {}) /\ listening' = TRUE
  BY DEF Shows
<1>2. ctl' \in ControlsOf
  BY <1>1, ControlsTyped
<1>3. QED
  BY <1>1, <1>2 DEF PageShape, ControlsOf, Made

LEMMA KeptIdentifiers ==
  ASSUME PageShape, made \in Nat, NEW s, NEW list, ToSet(list) \ {Placeholder} \subseteq ToSet(page),
         ToSet(page) \subseteq Made \cup {Placeholder}, Made \subseteq Elems
  PROVE  /\ KeptIds(s, list) \in [Elems -> 0..made]
         /\ \A e \in ToSet(list) \ {Placeholder} : KeptIds(s, list)[e] = id[e] /\ id[e] # 0
<1>1. id \in [Elems -> 0..made] /\ \A e \in ToSet(page) \ {Placeholder} : id[e] # 0
  BY DEF PageShape
<1>2. 0 \in 0..made /\ \A e \in ToSet(list) \ {Placeholder} : e \in ToSet(page) \ {Placeholder} /\ e \in Elems
  OBVIOUS
<1> DEFINE held == UNION {{call[o].at, call[o].next, call[o].prev} : o \in Slots \ {s}}
           new == [e \in Elems |-> IF e \in ToSet(list) \cup held THEN id[e] ELSE 0]
<1>3. KeptIds(s, list) = new
  BY DEF KeptIds
<1> HIDE DEF held
<1>4. \A e \in ToSet(list) \ {Placeholder} : new[e] = id[e] /\ id[e] # 0
  BY <1>1, <1>2
<1>5. new \in [Elems -> 0..made]
  BY <1>1, <1>2
<1>6. QED
  BY <1>3, <1>4, <1>5

LEMMA DoneTypes ==
  ASSUME TypeInv, NEW s \in Slots, Done(s), hit' \subseteq Events
  PROVE  /\ CallShape' /\ DocShape' /\ made' = made
         /\ call'[s] = Free /\ \A o \in Slots : o # s => call'[o] = call[o]
<1>1. call' = [call EXCEPT ![s] = Free] /\ clicks' = clicks /\ UNCHANGED server /\ made' = made
  BY DEF Done, server
<1>2. QED
  BY <1>1, SameServer, OneRequest DEF TypeInv, CallShape

LEMMA AddAnsweredTypes ==
  ASSUME TypeInv, NEW s \in Slots, AddAnswered(s)
  PROVE  TypeInv'
<1> USE DEF TypeInv
<1> DEFINE at == call[s].at
           new == call[s].list[1]
<1>0. made \in Nat /\ Made \subseteq Elems /\ Placeholder \notin Made /\ ToSet(page) \subseteq Made \cup {Placeholder}
  BY MadeBound DEF PageShape, ToSet
<1>1. new \in Made /\ call[s].ref \in 1..made /\ call[s].ctl \subseteq Controls
  <2>1. call[s].state = "ok" /\ call[s].kind = "add"
    BY DEF AddAnswered, Answered
  <2>2. Fits(call[s], made)
    BY <2>1, FreeFields DEF CallShape
  <2>3. call[s].ref \in 0..made /\ call[s].ctl \subseteq Controls
    BY <2>2 DEF Fits, Request
  <2>4. PICK e \in 1..made : call[s].list = <<e>>
    BY <2>1, <2>2 DEF Fits
  <2>5. call[s].ref # 0
    BY <2>1, <2>2 DEF Fits
  <2>6. QED
    BY <1>0, <2>3, <2>4, <2>5 DEF Made
<1>2. Done(s) /\ hit' \subseteq Events
  BY DEF AddAnswered, Shows, Throws, CallShape, Events
<1>3. UNCHANGED <<made, view, simple, min>>
  BY <1>2 DEF Done, server
<1>4. PageShape'
  <2>1. CASE ~InPage(at)
    <3>1. UNCHANGED <<page, id, ctl, listening>>
      BY <2>1 DEF AddAnswered, Throws
    <3>2. QED
      BY <1>3, <3>1 DEF PageShape, Made
  <2>2. CASE InPage(at)
    <3> DEFINE i == Place(at, page)
    <3>1. i \in DOMAIN page /\ page \in Seq(Made \cup {Placeholder}) /\ i + 1 \in 1..(Len(page) + 1)
      <4>1. i \in DOMAIN page /\ page \in Seq(Made \cup {Placeholder})
        BY <2>2, Placed DEF InPage, PageShape
      <4> HIDE DEF i
      <4>2. QED
        BY <4>1
    <3>2. id' = [id EXCEPT ![new] = call[s].ref]
      BY <2>2 DEF AddAnswered
    <3>3. id' \in [Elems -> 0..made] /\ \A e \in (ToSet(page) \cup {new}) \ {Placeholder} : id'[e] # 0
      BY <1>0, <1>1, <3>2 DEF PageShape
    <3> HIDE DEF i
    <3>4. CASE at = Placeholder
      <4>1. Shows(ReplaceAt(page, i, new), [ctl EXCEPT ![new] = call[s].ctl], {})
        BY <2>2, <3>4 DEF AddAnswered, i
      <4>2. /\ ReplaceAt(page, i, new) \in Seq(Made \cup {Placeholder})
            /\ ToSet(ReplaceAt(page, i, new)) \subseteq ToSet(page) \cup {new}
        <5>1. new \in Made \cup {Placeholder}
          BY <1>1
        <5> HIDE DEF new
        <5>2. QED
          BY <3>1, <5>1, ReplacedAt, NoMoreElements
      <4>3. [ctl EXCEPT ![new] = call[s].ctl] \in ControlsOf
        BY <1>1, ControlsTyped DEF PageShape, ControlsOf
      <4>4. QED
        BY <1>3, <3>3, <4>1, <4>2, <4>3, ShowsTypes
    <3>5. CASE at # Placeholder
      <4> DEFINE list == InsertAt(page, i + 1, new)
      <4>1. Shows(list, SetAddControls(ctl, list, new), {})
        BY <2>2, <3>5 DEF AddAnswered, i
      <4>2. list \in Seq(Made \cup {Placeholder}) /\ ToSet(list) = ToSet(page) \cup {new}
        <5>1. new \in Made \cup {Placeholder}
          BY <1>1
        <5> HIDE DEF new
        <5>2. PICK j \in 1..(Len(page) + 1) : j = i + 1
          BY <3>1
        <5>3. page \in Seq(Made \cup {Placeholder})
          BY <3>1
        <5>4. /\ InsertAt(page, j, new) \in Seq(Made \cup {Placeholder})
              /\ ToSet(InsertAt(page, j, new)) = ToSet(page) \cup {new}
          BY <5>1, <5>3, InsertedAt, InsertedElements
        <5>5. QED
          BY <5>2, <5>4
      <4> HIDE DEF list
      <4>3. SetAddControls(ctl, list, new) \in ControlsOf
        BY ControlsTyped DEF PageShape, ControlsOf
      <4>4. QED
        BY <1>3, <3>3, <4>1, <4>2, <4>3, ShowsTypes
    <3>6. QED
      BY <3>4, <3>5
  <2>3. QED
    BY <2>1, <2>2
<1>5. QED
  BY <1>2, <1>4, DoneTypes

LEMMA AddCutTypes ==
  ASSUME TypeInv, NEW s \in Slots, AddCut(s)
  PROVE  TypeInv'
<1> USE DEF TypeInv
<1> DEFINE at == call[s].at
           next == Following(page, at)
<1>2. Done(s) /\ hit' \subseteq Events /\ id' = id
  BY DEF AddCut, Shows, Throws, CallShape, Events
<1>3. UNCHANGED <<made, view, simple, min>>
  BY <1>2 DEF Done, server
<1>4. PageShape'
  <2>1. CASE ~InPage(at) \/ (at # Placeholder /\ next = Nothing)
    <3>1. UNCHANGED <<page, id, ctl, listening>>
      BY <1>2, <2>1 DEF AddCut, Throws
    <3>2. QED
      BY <1>3, <3>1 DEF PageShape, Made
  <2>2. CASE InPage(at) /\ ~(at # Placeholder /\ next = Nothing)
    <3>1. page \in Seq(Made \cup {Placeholder}) /\ Place(at, page) \in DOMAIN page /\ ctl \in ControlsOf
      BY <2>2, Placed DEF InPage, PageShape, ControlsOf
    <3>2. id' \in [Elems -> 0..made] /\ \A e \in ToSet(page) \ {Placeholder} : id'[e] # 0
      BY <1>2 DEF PageShape
    <3>3. CASE at = Placeholder
      <4>1. Shows(RemoveAt(page, Place(at, page)), ctl, {})
        BY <2>2, <3>3 DEF AddCut
      <4>2. /\ RemoveAt(page, Place(at, page)) \in Seq(Made \cup {Placeholder})
            /\ ToSet(RemoveAt(page, Place(at, page))) \subseteq ToSet(page)
        BY <3>1, RemovedAt, NoMoreElements
      <4>3. QED
        BY <1>3, <3>1, <3>2, <4>1, <4>2, ShowsTypes
    <3>4. CASE at # Placeholder
      <4>1. Shows(page, SetAddControls(ctl, page, next), {})
        BY <2>2, <3>4 DEF AddCut
      <4>2. SetAddControls(ctl, page, next) \in ControlsOf
        BY <3>1, ControlsTyped
      <4>3. QED
        BY <1>3, <3>1, <3>2, <4>1, <4>2, ShowsTypes
    <3>5. QED
      BY <3>3, <3>4
  <2>3. QED
    BY <2>1, <2>2
<1>5. QED
  BY <1>2, <1>4, DoneTypes

(* The node whose buttons are exchanged is in the page.                    *)
LEMMA ButtonsInPage ==
  ASSUME NEW list \in Seq(Made \cup {Placeholder}), NEW e
  PROVE  Buttons(list, e) \in ToSet(list) \cup {Nothing} /\ ToSet(list) \subseteq Made \cup {Placeholder}
<1>1. \A r : Node(list, r) \in ToSet(list) \cup {Nothing}
  BY NodeFound
<1>2. QED
  BY <1>1 DEF Buttons, ToSet

LEMMA RemoveAnsweredTypes ==
  ASSUME TypeInv, NEW s \in Slots, RemoveAnswered(s) \/ LastRemoved(s)
  PROVE  TypeInv'
<1> USE DEF TypeInv
<1> DEFINE at == call[s].at
<1>0. /\ made \in Nat /\ Made \subseteq Elems /\ Placeholder \notin Made
      /\ ToSet(page) \subseteq Made \cup {Placeholder}
      /\ page \in Seq(Made \cup {Placeholder}) /\ ctl \in ControlsOf
  BY MadeBound DEF PageShape, ToSet, ControlsOf
<1>1. Done(s) /\ id' = KeptIds(s, page')
  BY DEF RemoveAnswered, LastRemoved
<1>2. UNCHANGED <<made, view, simple, min>>
  BY <1>1 DEF Done, server
<1>3. hit' \subseteq Events
  BY DEF RemoveAnswered, LastRemoved, RemovedBottom, RemovedOther, Shows, Throws, CallShape, Events
<1>4. InPage(at) => /\ Place(at, page) \in DOMAIN page
                    /\ LeftAfter(s) \in Seq(Made \cup {Placeholder}) /\ ToSet(LeftAfter(s)) \subseteq ToSet(page)
  BY <1>0, Placed, RemovedAt, NoMoreElements DEF InPage, LeftAfter
<1>5. /\ page' \in Seq(Made \cup {Placeholder})
      /\ ToSet(page') \subseteq ToSet(page) \cup {Placeholder}
      /\ \/ \E controls \in ControlsOf : \E event : Shows(page', controls, event)
         \/ Throws
  <2>1. CASE RemoveAnswered(s) /\ RemovedBottom(s)
    <3> DEFINE prev == call[s].prev
    <3>1. CASE Buttons(page, at) = Nothing \/ (prev # Nothing /\ Buttons(page, prev) = Nothing) \/ ~ InPage(at)
      BY <1>0, <2>1, <3>1 DEF RemovedBottom
    <3>2. CASE ~(Buttons(page, at) = Nothing \/ (prev # Nothing /\ Buttons(page, prev) = Nothing) \/ ~ InPage(at))
      <4> DEFINE list == LeftAfter(s)
                 swapped == IF prev = Nothing THEN ctl
                            ELSE SwapControls(ctl, Buttons(page, at), Buttons(page, prev))
                 controls == IF prev # Nothing /\ TopElement(list, prev)
                               THEN TopControls(swapped, list, prev) ELSE swapped
      <4>1. Shows(list, controls, {})
        BY <2>1, <3>2 DEF RemovedBottom
      <4>2. swapped \in ControlsOf
        <5>1. Buttons(page, at) \in Elems \cup {Placeholder}
          BY <1>0, <3>2, ButtonsInPage
        <5>2. prev # Nothing => Buttons(page, prev) \in Elems \cup {Placeholder}
          BY <1>0, <3>2, ButtonsInPage
        <5>3. QED
          BY <1>0, <5>1, <5>2, ControlsTyped
      <4> HIDE DEF swapped
      <4>3. controls \in ControlsOf
        BY <4>2, ControlsTyped
      <4>4. page' = list
        BY <4>1 DEF Shows
      <4> HIDE DEF controls
      <4>5. QED
        BY <1>4, <3>2, <4>1, <4>3, <4>4
    <3>3. QED
      BY <3>1, <3>2
  <2>2. CASE RemoveAnswered(s) /\ RemovedOther(s)
    <3> DEFINE next == call[s].next
               list == LeftAfter(s)
               top == next # Nothing /\ TopElement(list, next)
               controls == IF top THEN TopControls(ctl, list, next) ELSE ctl
               event == IF BottomElement(page, at) THEN {"simple"} ELSE {}
    <3>1. CASE ~InPage(at)
      BY <1>0, <2>2, <3>1 DEF RemovedOther
    <3>2. CASE InPage(at) /\ top /\ Buttons(list, next) = Nothing
      BY <1>4, <2>2, <3>2 DEF RemovedOther
    <3>3. CASE InPage(at) /\ ~(top /\ Buttons(list, next) = Nothing)
      <4>1. Shows(list, controls, event)
        BY <2>2, <3>3 DEF RemovedOther
      <4>2. controls \in ControlsOf
        BY <1>0, ControlsTyped
      <4>3. page' = list
        BY <4>1 DEF Shows
      <4> HIDE DEF controls, event
      <4>4. QED
        BY <1>4, <3>3, <4>1, <4>2, <4>3
    <3>4. QED
      BY <3>1, <3>2, <3>3
  <2>3. CASE LastRemoved(s)
    <3>1. CASE ~InPage(at)
      BY <1>0, <2>3, <3>1 DEF LastRemoved
    <3>2. CASE InPage(at)
      <4> DEFINE list == ReplaceAt(page, Place(at, page), Placeholder)
                 controls == [ctl EXCEPT ![Placeholder] = {"+"}]
      <4>1. Shows(list, controls, {})
        BY <2>3, <3>2 DEF LastRemoved
      <4>2. list \in Seq(Made \cup {Placeholder}) /\ ToSet(list) \subseteq ToSet(page) \cup {Placeholder}
        <5>1. Placeholder \in Made \cup {Placeholder}
          OBVIOUS
        <5>2. page \in Seq(Made \cup {Placeholder}) /\ Place(at, page) \in DOMAIN page
          BY <1>0, <1>4, <3>2
        <5>3. list \in Seq(Made \cup {Placeholder})
          BY <5>1, <5>2, ReplacedAt
        <5>4. ToSet(list) \subseteq ToSet(page) \cup {Placeholder}
          BY <5>1, <5>2, NoMoreElements
        <5>5. QED
          BY <5>3, <5>4
      <4>3. controls \in ControlsOf
        <5>1. {"+"} \in SUBSET Controls
          BY DEF Controls
        <5>2. QED
          BY <1>0, <5>1, ControlsTyped
      <4>4. page' = list
        BY <4>1 DEF Shows
      <4> HIDE DEF controls, list
      <4>5. QED
        BY <4>1, <4>2, <4>3, <4>4
    <3>3. QED
      BY <3>1, <3>2
  <2>4. QED
    BY <2>1, <2>2, <2>3 DEF RemoveAnswered
<1>6. /\ id' \in [Elems -> 0..made]
      /\ \A e \in ToSet(page') \ {Placeholder} : id'[e] # 0
  BY <1>0, <1>1, <1>5, KeptIdentifiers
<1>7. PageShape'
  <2>1. CASE \E controls \in ControlsOf : \E event : Shows(page', controls, event)
    <3>1. PICK controls \in ControlsOf : \E event : Shows(page', controls, event)
      BY <2>1
    <3>2. PICK event : Shows(page', controls, event)
      BY <3>1
    <3>3. QED
      BY <1>2, <1>5, <1>6, <3>2, ShowsTypes
  <2>2. CASE Throws
    BY <1>2, <1>5, <1>6, <2>2 DEF Throws, PageShape, Made
  <2>3. QED
    BY <1>5, <2>1, <2>2
<1>8. QED
  BY <1>1, <1>3, <1>7, DoneTypes

LEMMA MoveAnsweredTypes ==
  ASSUME TypeInv, NEW s \in Slots, MoveAnswered(s)
  PROVE  TypeInv'
<1> USE DEF TypeInv
<1> DEFINE at == call[s].at
           other == IF call[s].kind = "up" THEN Previous(page, at) ELSE Following(page, at)
<1>0. /\ page \in Seq(Made \cup {Placeholder}) /\ ctl \in ControlsOf
      /\ ToSet(page) \subseteq Made \cup {Placeholder} /\ Made \subseteq Elems
  BY MadeBound DEF PageShape, ToSet, ControlsOf
<1>1. Done(s) /\ id' = id /\ hit' \subseteq Events
  BY DEF MoveAnswered, Shows, Throws, CallShape, Events
<1>2. UNCHANGED <<made, view, simple, min>>
  BY <1>1 DEF Done, server
<1>3. PageShape'
  <2>1. CASE other = Nothing
    BY <1>1, <1>2, <2>1 DEF MoveAnswered, Throws, PageShape, Made
  <2>2. CASE other # Nothing
    <3>1. at \in ToSet(page) /\ other \in ToSet(page)
      BY <1>0, <2>2, Neighbours DEF Following, Previous
    <3> DEFINE list == Exchange(page, Place(at, page), Place(other, page))
    <3>2. Shows(list, SwapControls(ctl, Buttons(page, at), Buttons(page, other)), {})
      BY <2>2 DEF MoveAnswered
    <3> HIDE DEF other
    <3>3. list \in Seq(Made \cup {Placeholder}) /\ ToSet(list) = ToSet(page)
      BY <1>0, <3>1, Placed, Exchanged, ExchangedElements
    <3>4. \A e \in ToSet(page) : Buttons(page, e) \in ToSet(page)
      <4> SUFFICES ASSUME NEW e \in ToSet(page) PROVE Buttons(page, e) \in ToSet(page)
        OBVIOUS
      <4>1. e \notin {Nothing, Detached}
        <5>1. Made \subseteq Nat
          BY DEF Made
        <5>2. QED
          BY <1>0, <5>1 DEF Nothing, Detached, Placeholder
      <4>2. Node(page, RefOf(e)) \in ToSet(page)
        BY PageNodes
      <4>3. QED
        BY <4>1, <4>2 DEF Buttons
    <3>5. SwapControls(ctl, Buttons(page, at), Buttons(page, other)) \in ControlsOf
      <4>1. Buttons(page, at) \in Elems \cup {Placeholder} /\ Buttons(page, other) \in Elems \cup {Placeholder}
        BY <1>0, <3>1, <3>4
      <4>2. QED
        BY <1>0, <4>1, ControlsTyped
    <3>6. id' \in [Elems -> 0..made] /\ \A e \in ToSet(page) \ {Placeholder} : id'[e] # 0
      BY <1>1 DEF PageShape
    <3> HIDE DEF list
    <3>7. QED
      BY <1>2, <3>2, <3>3, <3>5, <3>6, ShowsTypes
  <2>3. QED
    BY <2>1, <2>2
<1>4. QED
  BY <1>1, <1>3, DoneTypes

(* A page that is read anew.                                               *)
LEMMA FreshPage ==
  ASSUME TypeInv, NEW list \in Seq(1..made), Apart(list), made' = made,
         page' = Layout(list), id' = Numbered(list), ctl' = Dressed(list),
         view' = "open", listening' = TRUE, UNCHANGED <<simple, min>>
  PROVE  PageShape'
<1>1. made \in Nat /\ made \in 0..MaxElem
  BY MadeBound DEF TypeInv, DocShape
<1>2. /\ id' \in [Elems -> 0..made]
      /\ \A e \in ToSet(list) : id'[e] \in 1..made
  BY <1>1, NumberedList
<1>3. page' \in Seq(Made \cup {Placeholder}) /\ ToSet(page') \ {Placeholder} = ToSet(list)
  BY <1>1, LaidOut DEF Made
<1>4. ctl' \in ControlsOf
  BY ControlsTyped DEF TypeInv, PageShape, ControlsOf
<1>5. \A e \in ToSet(page') \ {Placeholder} : id'[e] # 0
  BY <1>2, <1>3
<1>6. QED
  BY <1>2, <1>3, <1>4, <1>5 DEF TypeInv, PageShape, ControlsOf, Made

LEMMA EmptyPage ==
  ASSUME TypeInv, made' = made, page' = <<>>, id' = Kept(id, <<>>, 0), ctl' = Kept(ctl, <<>>, {}),
         view' \in {"blank", "closed"}, listening' \in BOOLEAN, UNCHANGED <<simple, min>>
  PROVE  PageShape'
<1>1. 0 \in 0..made /\ page' \in Seq(Made \cup {Placeholder}) /\ ToSet(page') = {}
  BY MadeBound DEF TypeInv, ToSet
<1>2. id' \in [Elems -> 0..made]
  BY <1>1 DEF Kept, TypeInv, PageShape
<1>3. ctl' \in ControlsOf
  BY ControlsTyped DEF TypeInv, PageShape, ControlsOf
<1>4. QED
  BY <1>1, <1>2, <1>3 DEF TypeInv, PageShape, ControlsOf, Made

(* The requests that a page left behind.                                   *)
LEMMA LeftBehind ==
  ASSUME NEW n \in Nat, NEW c, Fits(c, n), NEW at \in {Nothing, Detached}
  PROVE  /\ Fits(Without(c, at), n)
         /\ Without(c, at).kind = c.kind /\ Without(c, at).state = c.state /\ Without(c, at).ref = c.ref
         /\ Without(c, at).list = c.list /\ Without(c, at).alone = c.alone
         /\ Without(c, at).at \in {Nothing, Detached} /\ Without(c, at) # Free
<1>1. c \in Request(n)
  BY DEF Fits
<1>2. Without(c, at) \in Request(n)
  <2> DEFINE place == IF c.at = Nothing THEN Nothing ELSE at
  <2>1. place \in {Nothing, Detached}
    OBVIOUS
  <2>2. Without(c, at) = [c EXCEPT !.at = place, !.next = Nothing, !.prev = Nothing]
    BY <1>1 DEF Without, Request
  <2> HIDE DEF place
  <2>3. QED
    BY <1>1, <2>1, <2>2 DEF Request
<1>3. /\ Without(c, at).kind = c.kind /\ Without(c, at).state = c.state /\ Without(c, at).ref = c.ref
      /\ Without(c, at).list = c.list /\ Without(c, at).alone = c.alone
      /\ Without(c, at).at \in {Nothing, Detached}
  BY <1>1 DEF Without, Request
<1>4. Without(c, at).kind # "none"
  BY <1>1, <1>3 DEF Request, Changes, Forms, Leaving
<1>5. QED
  BY <1>2, <1>3, <1>4, FreeFields DEF Fits, Placeholder, Nothing, Detached

LEMMA OthersTypes ==
  ASSUME TypeInv, NEW s \in Slots, NEW at \in {Nothing, Detached}, call' = Others(s, at),
         made' = made, clicks' = clicks, hit' \subseteq Events
  PROVE  CallShape'
<1>1. made \in Nat
  BY MadeBound DEF TypeInv
<1>2. \A o \in Slots : call'[o] = Free \/ Fits(call'[o], made)
  <2> SUFFICES ASSUME NEW o \in Slots, call'[o] # Free PROVE Fits(call'[o], made)
    OBVIOUS
  <2>1. call'[o] = Without(call[o], at) /\ call[o] # Free
    BY DEF Others
  <2>2. QED
    BY <1>1, <2>1, LeftBehind DEF TypeInv, CallShape
<1>3. QED
  BY <1>2 DEF TypeInv, CallShape, Others

LEMMA FormAnsweredTypes ==
  ASSUME TypeInv, NEW s \in Slots, SaveAnswered(s) \/ SaveCut(s) \/ FinishAnswered(s) \/ SaveFailed(s)
  PROVE  TypeInv'
<1> USE DEF TypeInv
<1>0. made \in Nat /\ made' = made /\ clicks' = clicks
  BY MadeBound DEF SaveAnswered, SaveCut, FinishAnswered, SaveFailed, server
<1>1. CASE SaveAnswered(s)
  <2>1. call[s].list \in Seq(1..made) /\ Apart(call[s].list)
    <3>1. call[s].state = "ok" /\ call[s].kind \in Forms
      BY <1>1 DEF SaveAnswered, Forms
    <3>2. Fits(call[s], made)
      BY <3>1, FreeFields DEF CallShape
    <3>3. QED
      BY <3>1, <3>2 DEF Fits
  <2>2. PageShape'
    <3>1. /\ page' = Layout(call[s].list) /\ id' = Numbered(call[s].list) /\ ctl' = Dressed(call[s].list)
          /\ view' = "open" /\ listening' = TRUE /\ UNCHANGED <<simple, min>>
      BY <1>1 DEF SaveAnswered
    <3>2. QED
      BY <1>0, <2>1, <3>1, FreshPage
  <2>3. CallShape'
    <3>1. call' = Others(s, Detached) /\ hit' \subseteq Events
      BY <1>1 DEF SaveAnswered, Events
    <3>2. QED
      BY <1>0, <3>1, OthersTypes
  <2>4. DocShape'
    <3>1. UNCHANGED <<doc, ref, sess, row, made>> /\ current' = TRUE
      BY <1>1 DEF SaveAnswered
    <3>2. QED
      BY <3>1 DEF DocShape, Made, RefsApart
  <2>5. QED
    BY <2>2, <2>3, <2>4
<1>2. CASE SaveCut(s) \/ FinishAnswered(s)
  <2>1. PageShape'
    <3>1. /\ page' = <<>> /\ id' = Kept(id, <<>>, 0) /\ ctl' = Kept(ctl, <<>>, {})
          /\ view' \in {"blank", "closed"} /\ UNCHANGED <<simple, min>>
      BY <1>2 DEF SaveCut, FinishAnswered
    <3>2. listening' \in BOOLEAN
      BY <1>2 DEF SaveCut, FinishAnswered, PageShape
    <3>3. QED
      BY <1>0, <3>1, <3>2, EmptyPage
  <2>2. CallShape'
    <3>1. PICK at \in {Nothing, Detached} : call' = Others(s, at)
      BY <1>2 DEF SaveCut, FinishAnswered
    <3>2. hit' \subseteq Events
      BY <1>2 DEF SaveCut, FinishAnswered, CallShape, Events
    <3>3. QED
      BY <1>0, <3>1, <3>2, OthersTypes
  <2>3. DocShape'
    BY <1>2, SameServer DEF SaveCut, FinishAnswered
  <2>4. QED
    BY <2>1, <2>2, <2>3
<1>3. CASE SaveFailed(s)
  <2>1. /\ call' = [call EXCEPT ![s] = Free] /\ view' \in {"overlay", "open"} /\ listening' = TRUE
        /\ UNCHANGED server /\ UNCHANGED <<page, id, ctl, simple, min, hit, clicks>>
    BY <1>3 DEF SaveFailed
  <2>2. CallShape'
    BY <1>0, <2>1, OneRequest DEF CallShape
  <2>3. PageShape'
    BY <1>0, <2>1 DEF PageShape, Made
  <2>4. QED
    BY <2>1, <2>2, <2>3, SameServer
<1>4. QED
  BY <1>1, <1>2, <1>3

LEMMA SmallAnswerTypes ==
  ASSUME TypeInv, NEW s \in Slots, ChangeFailed(s) \/ Unheard(s)
  PROVE  TypeInv'
<1> USE DEF TypeInv
<1>1. /\ call' = [call EXCEPT ![s] = Free] /\ UNCHANGED server /\ hit' = hit /\ clicks' = clicks
      /\ UNCHANGED <<page, id, ctl, view, simple, min>> /\ listening' \in BOOLEAN
  BY DEF ChangeFailed, Unheard, Done, browser, PageShape
<1>2. made' = made
  BY <1>1 DEF server
<1>3. CallShape'
  BY <1>1, <1>2, OneRequest DEF CallShape
<1>4. PageShape'
  BY <1>1, <1>2 DEF PageShape, Made
<1>5. QED
  BY <1>1, <1>3, <1>4, SameServer

LEMMA AnswerTypes ==
  ASSUME TypeInv, NEW s \in Slots, Answer(s)
  PROVE  TypeInv'
BY AddAnsweredTypes, AddCutTypes, RemoveAnsweredTypes, MoveAnsweredTypes, FormAnsweredTypes, SmallAnswerTypes
   DEF Answer

LEMMA OpenTypes ==
  ASSUME TypeInv, Open
  PROVE  TypeInv'
<1> USE DEF TypeInv
<1>0. made \in Nat /\ made' = made /\ clicks' = clicks /\ Made' = Made
  BY MadeBound DEF Open, Made
<1>1. row \in Seq(1..made) /\ Apart(row)
  BY DEF DocShape, Made
<1>2. PageShape'
  <2>1. /\ page' = Layout(row) /\ id' = Numbered(row) /\ ctl' = Dressed(row)
        /\ view' = "open" /\ listening' = TRUE /\ UNCHANGED <<simple, min>>
    BY DEF Open
  <2>2. QED
    BY <1>0, <1>1, <2>1, FreshPage
<1>3. CallShape'
  <2>1. \A o \in Slots : call'[o] = Free \/ Fits(call'[o], made)
    <3> SUFFICES ASSUME NEW o \in Slots, call'[o] # Free PROVE Fits(call'[o], made)
      OBVIOUS
    <3>1. call'[o] = Without(call[o], Nothing) /\ call[o].state = "sent"
      BY DEF Open
    <3>2. Fits(call[o], made)
      BY <3>1, FreeFields DEF CallShape
    <3>3. QED
      BY <1>0, <3>1, <3>2, LeftBehind
  <2>2. DOMAIN call' = Slots /\ hit' \subseteq Events
    BY DEF Open, Events
  <2>3. QED
    BY <1>0, <2>1, <2>2 DEF CallShape
<1>4. DocShape'
  <2>1. doc' = row /\ row' = row /\ ref' = Numbered(row) /\ sess' = "whole" /\ current' = TRUE
    BY DEF Open
  <2>2. doc' \in Seq(Made) /\ Apart(doc') /\ row' \in Seq(Made) /\ Apart(row')
    BY <2>1 DEF DocShape
  <2>3. QED
    BY <1>0, <2>1, <2>2, Renumbered
<1>5. QED
  BY <1>2, <1>3, <1>4

LEMMA InitTypes == Init => TypeInv
<1> SUFFICES ASSUME Init PROVE TypeInv
  OBVIOUS
<1>1. PICK n \in 1..2 : doc = [i \in 1..n |-> i] /\ made = n
  BY DEF Init
<1>2. made \in 0..MaxElem /\ made \in Nat
  BY <1>1, BoundsAssumption
<1>3. doc \in Seq(Made) /\ Apart(doc) /\ doc \in Seq(1..made)
  BY <1>1 DEF Made, Apart
<1>4. /\ Numbered(doc) \in [Elems -> 0..made]
      /\ \A e \in ToSet(doc) : e \in Elems /\ Numbered(doc)[e] = Place(e, doc) /\ Place(e, doc) \in 1..made
      /\ \A d, e \in ToSet(doc) : Numbered(doc)[d] = Numbered(doc)[e] => d = e
  BY <1>2, <1>3, NumberedList
<1>5. ref = Numbered(doc) /\ id = ref /\ \A e \in ToSet(doc) : ref[e] # 0
  BY <1>4 DEF Init
<1>6. DocShape
  BY <1>2, <1>3, <1>4, <1>5 DEF Init, DocShape, RefsApart
<1>7. PageShape
  <2>1. page = doc /\ doc \in Seq(Made \cup {Placeholder})
    <3>1. Made \subseteq Made \cup {Placeholder}
      OBVIOUS
    <3>2. QED
      BY <1>3, <3>1, SeqMonotonic DEF Init
  <2>2. ctl \in ControlsOf
    <3>1. \A list : Dressed(list) \in ControlsOf
      BY DEF Dressed, ControlsOf, FirstControls, Controls
    <3>2. QED
      BY <3>1 DEF Init
  <2>3. QED
    BY <1>4, <1>5, <2>1, <2>2 DEF Init, PageShape, ControlsOf
<1>8. CallShape
  BY BoundsAssumption DEF Init, CallShape
<1>9. QED
  BY <1>6, <1>7, <1>8 DEF TypeInv

LEMMA NextTypes == TypeInv /\ [Next]_vars => TypeInv'
<1> SUFFICES ASSUME TypeInv, [Next]_vars PROVE TypeInv'
  OBVIOUS
<1>1. CASE Open
  BY <1>1, OpenTypes
<1>2. ASSUME NEW s \in Slots, Click(s) \/ Serve(s) \/ Answer(s) PROVE TypeInv'
  BY <1>2, ClickTypes, ServeTypes, AnswerTypes
<1>3. CASE UNCHANGED vars
  <2>1. UNCHANGED server /\ UNCHANGED browser /\ UNCHANGED <<call, hit, clicks>> /\ made' = made
    BY <1>3 DEF vars, server
  <2>2. DocShape' /\ PageShape'
    BY <2>1, SameServer, SameBrowser DEF TypeInv
  <2>3. CallShape'
    BY <2>1 DEF TypeInv, CallShape
  <2>4. QED
    BY <2>2, <2>3 DEF TypeInv
<1>4. QED
  BY <1>1, <1>2, <1>3 DEF Next

(* Type correctness of the document, the page and the requests.            *)
THEOREM EditorTypesCorrect == Spec => []EditorTypeOK
<1>1. Spec => []TypeInv
  BY InitTypes, NextTypes, PTL DEF Spec
<1>2. TypeInv => EditorTypeOK
  <2> SUFFICES ASSUME TypeInv PROVE EditorTypeOK
    OBVIOUS
  <2>1. Made \subseteq Elems /\ 0..made \subseteq 0..MaxElem /\ Made \cup {Placeholder} \subseteq Elems \cup {Placeholder}
    BY MadeBound, BoundsAssumption DEF TypeInv, DocShape
  <2>2. doc \in Seq(Elems) /\ row \in Seq(Elems) /\ page \in Seq(Elems \cup {Placeholder})
    BY <2>1, SeqMonotonic DEF TypeInv, DocShape, PageShape
  <2>3. ref \in [Elems -> 0..MaxElem] /\ id \in [Elems -> 0..MaxElem]
    BY <2>1 DEF TypeInv, DocShape, PageShape
  <2>4. ASSUME NEW s \in Slots
        PROVE  /\ call[s].kind \in Changes \cup Forms \cup {"none"}
               /\ call[s].state \in {"free", "sent", "ok", "failed", "cut"}
               /\ call[s].at \in Elems \cup {Placeholder, Nothing, Detached}
    <3>1. CASE call[s] = Free
      BY <3>1, FreeFields
    <3>2. CASE Fits(call[s], made)
      BY <2>1, <3>2 DEF Fits, Request, Made
    <3>3. QED
      BY <3>1, <3>2 DEF TypeInv, CallShape
  <2>5. QED
    BY <2>2, <2>3, <2>4 DEF EditorTypeOK, TypeInv, DocShape, PageShape, CallShape
<1>3. QED
  BY <1>1, <1>2, PTL

(* References stay apart, whatever is removed, added and numbered anew in  *)
(* between: EditLib.findMaximumRef.                                        *)
THEOREM ReferencesApart == Spec => []RefsApart
<1>1. Spec => []TypeInv
  BY InitTypes, NextTypes, PTL DEF Spec
<1>2. TypeInv => RefsApart
  BY DEF TypeInv, DocShape
<1>3. QED
  BY <1>1, <1>2, PTL
-------------------------------------------------------------------------------
(* What a step does to the requests.                                       *)

LEMMA ControlSent ==
  ASSUME TypeInv, NEW s \in Slots, NEW e, NEW kind \in Changes, ClickControl(s, e, kind)
  PROVE  LET node == Node(page, RefOf(e)) IN
         /\ call[s] = Free /\ call'[s] # Free /\ \A o \in Slots : o # s => call'[o] = call[o]
         /\ call'[s].kind = kind /\ call'[s].state = "sent" /\ call'[s].el = e /\ call'[s].at = node
         /\ call'[s].ref = RefOf(e)
         /\ kind = "remove" => call'[s].next = Following(page, node) /\ call'[s].prev = Previous(page, node)
<1> DEFINE node == Node(page, RefOf(e))
           next == IF kind = "remove" THEN Following(page, node) ELSE Nothing
           prev == IF kind = "remove" THEN Previous(page, node) ELSE Nothing
           c == [Free EXCEPT !.kind = kind, !.state = "sent", !.el = e, !.at = node,
                     !.ref = RefOf(e), !.next = next, !.prev = prev]
<1>1. call[s] = Free /\ call' = [call EXCEPT ![s] = c]
  BY DEF ClickControl, Send
<1> HIDE DEF node
<1>2. /\ c.kind = kind /\ c.state = "sent" /\ c.el = e /\ c.at = node /\ c.ref = RefOf(e)
      /\ kind = "remove" => c.next = Following(page, node) /\ c.prev = Previous(page, node)
  BY FreeFields
<1>3. c # Free
  BY <1>2, FreeFields
<1> HIDE DEF c, next, prev
<1>4. call'[s] = c /\ \A o \in Slots : o # s => call'[o] = call[o]
  BY <1>1 DEF TypeInv, CallShape
<1>5. QED
  BY <1>1, <1>2, <1>3, <1>4 DEF node

LEMMA FormSent ==
  ASSUME TypeInv, NEW s \in Slots, NEW kind \in Forms, ClickForm(s, kind)
  PROVE  /\ call[s] = Free /\ call'[s] # Free /\ \A o \in Slots : o # s => call'[o] = call[o]
         /\ call'[s].kind = kind /\ call'[s].state = "sent" /\ call'[s].list = page
         /\ call'[s].alone = (Busy = {}) /\ call'[s].synced = (hit = {})
<1> DEFINE alone == Busy = {}
           synced == hit = {}
           c == [Free EXCEPT !.kind = kind, !.state = "sent", !.list = page, !.alone = alone, !.synced = synced]
<1>1. call[s] = Free /\ call' = [call EXCEPT ![s] = c]
  BY DEF ClickForm, Send
<1> HIDE DEF alone, synced
<1>2. c.kind = kind /\ c.state = "sent" /\ c.list = page /\ c.alone = alone /\ c.synced = synced
  BY FreeFields
<1>3. c # Free
  BY <1>2, FreeFields
<1> HIDE DEF c
<1>4. call'[s] = c /\ \A o \in Slots : o # s => call'[o] = call[o]
  BY <1>1 DEF TypeInv, CallShape
<1>5. QED
  BY <1>1, <1>2, <1>3, <1>4 DEF alone, synced

(* A service that does its work.                                           *)
Serves(s) == ServeAdd(s) \/ ServeRemove(s) \/ ServeMove(s) \/ ServeSave(s) \/ ServeForget(s)
Breaks(s) == SaveAborted(s) \/ RemoveUnknown(s) \/ Refused(s) \/ CutOff(s)

LEMMA ReplySent ==
  ASSUME TypeInv, NEW s \in Slots, call[s].state = "sent", NEW list, NEW r, NEW controls,
         Reply(s, list, r, controls)
  PROVE  /\ \A o \in Slots : o # s => call'[o] = call[o]
         /\ call[s] # Free /\ call'[s] # Free
         /\ call'[s].kind = call[s].kind /\ call'[s].state = "ok" /\ call'[s].at = call[s].at
         /\ call'[s].ref = r /\ call'[s].list = list /\ call'[s].ctl = controls
         /\ call'[s].next = call[s].next /\ call'[s].prev = call[s].prev
         /\ call'[s].alone = call[s].alone /\ call'[s].synced = call[s].synced
<1> DEFINE c == [call[s] EXCEPT !.state = "ok", !.el = Nothing, !.ref = r, !.list = list, !.ctl = controls]
<1>1. call' = [call EXCEPT ![s] = c] /\ call[s] # Free
  BY FreeFields DEF Reply
<1>2. call[s] \in Request(made)
  BY <1>1 DEF TypeInv, CallShape, Fits
<1>3. /\ c.kind = call[s].kind /\ c.state = "ok" /\ c.at = call[s].at /\ c.ref = r /\ c.list = list
      /\ c.ctl = controls /\ c.next = call[s].next /\ c.prev = call[s].prev
      /\ c.alone = call[s].alone /\ c.synced = call[s].synced
  BY <1>2 DEF Request
<1> HIDE DEF c
<1>4. call'[s] = c /\ \A o \in Slots : o # s => call'[o] = call[o]
  BY <1>1 DEF TypeInv, CallShape
<1>5. QED
  BY <1>1, <1>3, <1>4, FreeFields

LEMMA ServedRequest ==
  ASSUME TypeInv, NEW s \in Slots, Serves(s)
  PROVE  /\ \A o \in Slots : o # s => call'[o] = call[o]
         /\ call[s].state = "sent" /\ call[s] # Free /\ call'[s] # Free
         /\ call'[s].kind = call[s].kind /\ call'[s].state = "ok" /\ call'[s].at = call[s].at
         /\ call'[s].next = call[s].next /\ call'[s].prev = call[s].prev
         /\ call'[s].alone = call[s].alone
         /\ UNCHANGED browser /\ hit \subseteq hit' /\ hit' \subseteq hit \cup {"wrong"}
<1>1. call[s].state = "sent"
  BY DEF Serves, ServeAdd, ServeRemove, ServeMove, ServeSave, ServeForget, Sent
<1>2. \E list, r, controls : Reply(s, list, r, controls)
  BY DEF Serves, ServeAdd, ServeRemove, ServeMove, ServeSave, ServeForget
<1>3. UNCHANGED browser /\ hit \subseteq hit' /\ hit' \subseteq hit \cup {"wrong"}
  BY DEF Serves, ServeAdd, ServeRemove, ServeMove, ServeSave, ServeForget, Reach
<1>4. PICK list, r, controls : Reply(s, list, r, controls)
  BY <1>2
<1>5. QED
  BY <1>1, <1>3, <1>4, ReplySent

LEMMA BrokenRequest ==
  ASSUME TypeInv, NEW s \in Slots, Breaks(s)
  PROVE  /\ \A o \in Slots : o # s => call'[o] = call[o]
         /\ call[s].state \in {"sent", "ok"} /\ call[s] # Free /\ call'[s] # Free
         /\ call'[s].kind = call[s].kind /\ call'[s].state \in {"failed", "cut"} /\ call'[s].at = call[s].at
         /\ ~call'[s].alone
         /\ call'[s].state = "cut" => "lost" \in hit' \/ Sent(s, {"remove"})
         /\ UNCHANGED browser /\ hit \subseteq hit' /\ hit' \subseteq hit \cup {"lost", "aborted"}
<1>1. call[s].state \in {"sent", "ok"} /\ call[s] # Free
  BY FreeFields DEF Breaks, SaveAborted, RemoveUnknown, Refused, CutOff, Sent
<1>2. UNCHANGED browser /\ hit \subseteq hit' /\ hit' \subseteq hit \cup {"lost", "aborted"}
  BY DEF Breaks, SaveAborted, RemoveUnknown, Refused, CutOff
<1>3. PICK state \in {"failed", "cut"} :
        /\ call' = [call EXCEPT ![s] = [Free EXCEPT !.kind = call[s].kind, !.state = state, !.at = call[s].at]]
        /\ state = "cut" => "lost" \in hit' \/ Sent(s, {"remove"})
  <2> DEFINE Replies(state) ==
               call' = [call EXCEPT ![s] = [Free EXCEPT !.kind = call[s].kind, !.state = state, !.at = call[s].at]]
             Left(state) == state = "cut" => "lost" \in hit' \/ Sent(s, {"remove"})
  <2>1. CASE Fail(s)
    <3>1. Replies("failed") /\ Left("failed")
      BY <2>1 DEF Fail
    <3> HIDE DEF Replies, Left
    <3>2. \E state \in {"failed", "cut"} : Replies(state) /\ Left(state)
      BY <3>1
    <3>3. QED
      BY <3>2 DEF Replies, Left
  <2>2. CASE CutOff(s)
    <3>1. Replies("cut") /\ Left("cut")
      BY <2>2 DEF CutOff
    <3> HIDE DEF Replies, Left
    <3>2. \E state \in {"failed", "cut"} : Replies(state) /\ Left(state)
      BY <3>1
    <3>3. QED
      BY <3>2 DEF Replies, Left
  <2>3. Fail(s) \/ CutOff(s)
    BY DEF Breaks, SaveAborted, RemoveUnknown, Refused
  <2>4. QED
    BY Zenon, <2>1, <2>2, <2>3
<1>4. made \in Nat
  BY MadeBound DEF TypeInv
<1> DEFINE c == FailedCall(s, state)
<1>5. c.kind = call[s].kind /\ c.state = state /\ c.at = call[s].at /\ ~c.alone /\ c # Free
  BY <1>1, <1>4, FailedFits DEF TypeInv
<1>6. call' = [call EXCEPT ![s] = c]
  BY <1>3 DEF FailedCall
<1> HIDE DEF c
<1>7. call'[s] = c /\ \A o \in Slots : o # s => call'[o] = call[o]
  BY <1>6 DEF TypeInv, CallShape
<1>8. QED
  BY <1>1, <1>2, <1>3, <1>5, <1>7

(* An answer to a control that its handler gets.                           *)
Handles(s) ==
  AddAnswered(s) \/ AddCut(s) \/ RemoveAnswered(s) \/ LastRemoved(s) \/ MoveAnswered(s) \/ ChangeFailed(s)

LEMMA HandledRequest ==
  ASSUME TypeInv, NEW s \in Slots, Handles(s)
  PROVE  /\ \A o \in Slots : o # s => call'[o] = call[o]
         /\ call'[s] = Free /\ call[s] # Free
         /\ call[s].kind \in Changes /\ call[s].at # Nothing /\ call[s].state \in {"ok", "failed", "cut"}
         /\ UNCHANGED server /\ UNCHANGED <<view, simple, min>>
         /\ hit \subseteq hit' /\ hit' \subseteq hit \cup {"thrown", "simple"}
         /\ "thrown" \in hit' \/ listening'
<1>1. Done(s)
  BY DEF Handles, AddAnswered, AddCut, RemoveAnswered, LastRemoved, MoveAnswered, ChangeFailed
<1>2. call[s].kind \in Changes /\ call[s].at # Nothing /\ call[s].state \in {"ok", "failed", "cut"}
  BY DEF Handles, AddAnswered, AddCut, RemoveAnswered, LastRemoved, MoveAnswered, ChangeFailed,
         Answered, Succeeded, Failed, Changes
<1>3. /\ hit \subseteq hit' /\ hit' \subseteq hit \cup {"thrown", "simple"}
      /\ "thrown" \in hit' \/ listening'
  BY DEF Handles, AddAnswered, AddCut, RemoveAnswered, LastRemoved, MoveAnswered, ChangeFailed,
         RemovedBottom, RemovedOther, Shows, Throws
<1>4. call' = [call EXCEPT ![s] = Free] /\ UNCHANGED server /\ UNCHANGED <<view, simple, min>>
  BY <1>1 DEF Done
<1>5. call'[s] = Free /\ \A o \in Slots : o # s => call'[o] = call[o]
  BY <1>4 DEF TypeInv, CallShape
<1>6. QED
  BY <1>2, <1>3, <1>4, <1>5, FreeFields
===============================================================================
