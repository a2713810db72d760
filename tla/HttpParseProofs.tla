-------------------------- MODULE HttpParseProofs --------------------------
(***************************************************************************)
(* Proofs about the two heads that Client::request deals with.  HttpParse: *)
(* what becomes of the head of a reply, for status codes of any bytes and  *)
(* header lines of any length.  Request: the head that is sent, for any    *)
(* hosts and any number of headers.                                        *)
(*                                                                         *)
(* The loops of the parser are recursive functions.  Their values are      *)
(* found by induction in the form of the least counterexample: a function  *)
(* is shown to exist, and then to have the values of a closed form or to   *)
(* keep an invariant of the loop.                                          *)
(***************************************************************************)
EXTENDS HttpParse, RequestHead, WellFoundedInduction, SequenceTheorems, FiniteSetTheorems, TLAPS

-----------------------------------------------------------------------------
(* Least and greatest elements                                             *)

\* Every set of naturals that is not empty has a least element.
LEMMA Least ==
    ASSUME NEW T, T \subseteq Nat, T # {}
    PROVE  \E x \in T : \A y \in T : x <= y
<1> DEFINE R == OpToRel(<, Nat)
<1>1. IsWellFoundedOn(R, Nat)
  BY NatLessThanWellFounded, Zenon
<1>2. PICK x \in T : \A y \in T : ~ (<<y, x>> \in R)
  <2> HIDE DEF R
  <2> QED BY <1>1, WFMin
<1>3. \A y \in T : ~(y < x)
  BY <1>2 DEF OpToRel
<1> QED BY <1>3

\* If it is bounded, it has a greatest one.
LEMMA Greatest ==
    ASSUME NEW n \in Nat, NEW T, T \subseteq 0..n, T # {}
    PROVE  \E x \in T : \A y \in T : y <= x
<1> DEFINE U == {n - x : x \in T}
<1>1. U \subseteq Nat /\ U # {}
  <2>1. \A x \in T : x \in 0..n /\ n - x \in Nat
    OBVIOUS
  <2>2. PICK x \in T : TRUE
    OBVIOUS
  <2>3. n - x \in U
    BY <2>2
  <2> QED BY <2>1, <2>3
<1>2. PICK u \in U : \A y \in U : u <= y
  <2> HIDE DEF U
  <2> QED BY <1>1, Least
<1>3. PICK x \in T : u = n - x
  OBVIOUS
<1>4. ASSUME NEW y \in T PROVE y <= x
  <2>1. n - x <= n - y
    BY <1>2, <1>3
  <2>2. x \in 0..n /\ y \in 0..n
    OBVIOUS
  <2> QED BY <2>1, <2>2
<1> QED BY <1>4

\* Parity, as the steps of rtrim change it.
LEMMA Parity ==
    ASSUME NEW a \in Nat
    PROVE  /\ a % 2 \in {0, 1}
           /\ (a + 2) % 2 = a % 2
           /\ (a + 1) % 2 # a % 2
           /\ 0 % 2 = 0 /\ 1 % 2 = 1
  OBVIOUS

-----------------------------------------------------------------------------
(* Trimming                                                                *)

\* Where rtrim can stop that begins with n bytes: it looks at every other one.
Stops(w, n) == {m \in 1..n : (n - m) % 2 = 0 /\ w[m] # Space}
\* The bounds of a set of positions.
Biggest(T) == CHOOSE x \in T : \A y \in T : y <= x
Smallest(T) == CHOOSE x \in T : \A y \in T : x <= y
\* What becomes of a word in which it stops nowhere.
Off(n) == IF n % 2 = 1 \/ build = "checked" THEN Panic ELSE 0
\* How many of n bytes it leaves.
Remains(w, n) == IF Stops(w, n) = {} THEN Off(n) ELSE Biggest(Stops(w, n))

\* The function to of RtrimTo.
Rtrimming(w, to) ==
    to = [n \in 0..Len(w) |->
            IF n = 0 THEN IF build = "checked" THEN Panic ELSE 0
            ELSE IF w[n] # Space THEN n
            ELSE IF n = 1 THEN Panic
            ELSE to[n - 2]]

\* Biggest is a greatest element.
LEMMA BiggestIs ==
    ASSUME NEW n \in Nat, NEW T, T \subseteq 0..n, T # {}
    PROVE  Biggest(T) \in T /\ \A y \in T : y <= Biggest(T)
  BY Greatest DEF Biggest

\* There is no other.
LEMMA BiggestOne ==
    ASSUME NEW n \in Nat, NEW T, T \subseteq 0..n, NEW x \in T, \A y \in T : y <= x
    PROVE  Biggest(T) = x
<1>1. Biggest(T) \in T /\ \A y \in T : y <= Biggest(T)
  BY BiggestIs
<1>2. Biggest(T) \in 0..n /\ x \in 0..n
  BY <1>1
<1>3. Biggest(T) <= x /\ x <= Biggest(T)
  BY <1>1
<1> QED BY <1>2, <1>3

\* One turn of the loop in rtrim.
LEMMA RemainsStep ==
    ASSUME NEW w, NEW n \in Nat
    PROVE  Remains(w, n) = IF n = 0 THEN IF build = "checked" THEN Panic ELSE 0
                           ELSE IF w[n] # Space THEN n
                           ELSE IF n = 1 THEN Panic
                           ELSE Remains(w, n - 2)
<1>1. CASE n = 0
  <2>1. Stops(w, n) = {}
    BY <1>1 DEF Stops
  <2> QED BY <1>1, <2>1, Parity DEF Remains, Off
<1>2. CASE n # 0 /\ w[n] # Space
  <2>1. n \in Stops(w, n)
    BY <1>2, Parity DEF Stops
  <2>2. Stops(w, n) \subseteq 0..n /\ \A y \in Stops(w, n) : y <= n
    BY DEF Stops
  <2>3. Biggest(Stops(w, n)) = n
    BY <2>1, <2>2, BiggestOne
  <2> QED BY <1>2, <2>1, <2>3 DEF Remains
<1>3. CASE n = 1 /\ w[n] = Space
  <2>1. Stops(w, n) = {}
    BY <1>3 DEF Stops
  <2> QED BY <1>3, <2>1, Parity DEF Remains, Off
<1>4. CASE n # 0 /\ n # 1 /\ w[n] = Space
  <2>1. n - 2 \in Nat
    BY <1>4
  <2>2. ASSUME NEW m \in Int PROVE m \in Stops(w, n) <=> m \in Stops(w, n - 2)
    <3>1. CASE m \in 1..(n - 2)
      <4>1. (n - 2) - m \in Nat /\ ((n - 2) - m) + 2 = n - m
        BY <3>1
      <4>2. (n - m) % 2 = ((n - 2) - m) % 2
        BY <4>1, Parity
      <4> QED BY <3>1, <4>2 DEF Stops
    <3>2. CASE m = n - 1
      <4>1. n - m = 1
        BY <3>2
      <4> QED BY <3>2, <4>1, Parity, <2>1 DEF Stops
    <3>3. CASE m = n
      BY <3>3, <1>4, <2>1 DEF Stops
    <3>4. CASE ~(m \in 1..n)
      BY <3>4, <2>1 DEF Stops
    <3> QED BY <3>1, <3>2, <3>3, <3>4, <2>1
  <2>3. Stops(w, n) \subseteq Int /\ Stops(w, n - 2) \subseteq Int
    BY DEF Stops
  <2>4. Stops(w, n) = Stops(w, n - 2)
    BY <2>2, <2>3
  <2>5. n % 2 = (n - 2) % 2
    BY <2>1, Parity
  <2>6. Off(n) = Off(n - 2)
    BY <2>5 DEF Off
  <2> QED BY <1>4, <2>4, <2>6 DEF Remains
<1> QED BY <1>1, <1>2, <1>3, <1>4

\* rtrim leaves what Remains says.
LEMMA RtrimIs ==
    ASSUME NEW w \in Seq(Chars)
    PROVE  RtrimTo(w) = Remains(w, Len(w))
<1> DEFINE F == CHOOSE to : Rtrimming(w, to)
           C == [n \in 0..Len(w) |-> Remains(w, n)]
<1>0. Len(w) \in Nat
  OBVIOUS
<1>1. Rtrimming(w, C)
  <2>1. \A n \in 0..Len(w) : n > 1 => n - 2 \in 0..Len(w)
    BY <1>0
  <2>2. \A n \in 0..Len(w) :
            C[n] = IF n = 0 THEN IF build = "checked" THEN Panic ELSE 0
                   ELSE IF w[n] # Space THEN n
                   ELSE IF n = 1 THEN Panic
                   ELSE C[n - 2]
    BY <2>1, <1>0, RemainsStep
  <2> QED BY <2>2 DEF Rtrimming
<1>2. Rtrimming(w, F)
  <2> HIDE DEF C
  <2> QED BY <1>1, Zenon
<1>3. RtrimTo(w) = F[Len(w)]
  BY DEF RtrimTo, Rtrimming
<1> HIDE DEF F, C
<1>4. \A n \in 0..Len(w) : F[n] = Remains(w, n)
  <2> DEFINE T == {n \in 0..Len(w) : F[n] # Remains(w, n)}
  <2> SUFFICES ASSUME T # {} PROVE FALSE
    OBVIOUS
  <2>1. T \subseteq Nat
    BY <1>0
  <2>2. PICK n \in T : \A y \in T : n <= y
    <3> HIDE DEF T
    <3> QED BY <2>1, Least
  <2>3. n \in 0..Len(w) /\ n \in Nat /\ F[n] # Remains(w, n)
    BY <2>1
  <2>4. n > 1 => n - 2 \in 0..Len(w) /\ ~(n - 2 \in T)
    BY <2>2, <2>3, <1>0
  <2>5. n > 1 => F[n - 2] = Remains(w, n - 2)
    BY <2>4
  <2>6. F[n] = IF n = 0 THEN IF build = "checked" THEN Panic ELSE 0
               ELSE IF w[n] # Space THEN n
               ELSE IF n = 1 THEN Panic
               ELSE F[n - 2]
    BY <1>2, <2>3 DEF Rtrimming
  <2> HIDE DEF T
  <2>7. Remains(w, n) = IF n = 0 THEN IF build = "checked" THEN Panic ELSE 0
                        ELSE IF w[n] # Space THEN n
                        ELSE IF n = 1 THEN Panic
                        ELSE Remains(w, n - 2)
    BY <2>3, RemainsStep
  <2> QED BY <2>3, <2>5, <2>6, <2>7
<1> QED BY <1>0, <1>3, <1>4

\* rtrim panics exactly on a word that it walks off: of odd length in every
\* build, of even length where overflows are checked.
LEMMA RtrimPanics ==
    ASSUME NEW w \in Seq(Chars)
    PROVE  (RtrimTo(w) = Panic) <=> WalksOff(w) /\ (Len(w) % 2 = 1 \/ build = "checked")
<1>0. Len(w) \in Nat /\ DOMAIN w = 1..Len(w)
  OBVIOUS
<1>1. WalksOff(w) <=> Stops(w, Len(w)) = {}
  BY <1>0 DEF WalksOff, Stops
<1>2. Stops(w, Len(w)) # {} => Biggest(Stops(w, Len(w))) # Panic
  <2>1. Stops(w, Len(w)) \subseteq 0..Len(w)
    BY <1>0 DEF Stops
  <2>2. Stops(w, Len(w)) # {} => Biggest(Stops(w, Len(w))) \in Stops(w, Len(w))
    BY <1>0, <2>1, BiggestIs
  <2> QED BY <2>1, <2>2, <1>0 DEF Panic
<1>3. (Off(Len(w)) = Panic) <=> (Len(w) % 2 = 1 \/ build = "checked")
  BY DEF Off, Panic
<1> QED BY <1>1, <1>2, <1>3, RtrimIs DEF Remains

\* Smallest is a least element.
LEMMA SmallestIs ==
    ASSUME NEW T, T \subseteq Nat, T # {}
    PROVE  Smallest(T) \in T /\ \A y \in T : Smallest(T) <= y
  BY Least DEF Smallest

\* There is no other.
LEMMA SmallestOne ==
    ASSUME NEW T, T \subseteq Nat, NEW x \in T, \A y \in T : x <= y
    PROVE  Smallest(T) = x
<1>1. Smallest(T) \in T /\ \A y \in T : Smallest(T) <= y
  BY SmallestIs
<1>2. Smallest(T) \in Nat /\ x \in Nat
  BY <1>1
<1>3. Smallest(T) <= x /\ x <= Smallest(T)
  BY <1>1
<1> QED BY <1>2, <1>3

\* The positions that are no spaces; those from i on, with one beyond the
\* word; the first of those.
Ink(w) == {i \in 1..Len(w) : w[i] # Space}
Inks(w, i) == {j \in i..Len(w) : w[j] # Space} \cup {Len(w) + 1}
Starts(w, i) == Smallest(Inks(w, i))

\* The function from of Ltrim.
Ltrimming(w, from) ==
    from = [i \in 1..Len(w) + 1 |->
              IF i <= Len(w) /\ w[i] = Space THEN from[i + 1] ELSE i]

\* One turn of the loop in ltrim.
LEMMA StartsStep ==
    ASSUME NEW w \in Seq(Chars), NEW i \in 1..Len(w) + 1
    PROVE  Starts(w, i) = IF i <= Len(w) /\ w[i] = Space THEN Starts(w, i + 1) ELSE i
<1>0. Len(w) \in Nat /\ i \in Nat
  OBVIOUS
<1>1. CASE i <= Len(w) /\ w[i] = Space
  <2>1. Inks(w, i) = Inks(w, i + 1)
    <3>1. ASSUME NEW j \in Int, w[j] # Space PROVE j \in i..Len(w) <=> j \in (i + 1)..Len(w)
      BY <3>1, <1>0, <1>1
    <3> QED BY <3>1, <1>0 DEF Inks
  <2> QED BY <1>1, <2>1 DEF Starts
<1>2. CASE i <= Len(w) /\ w[i] # Space
  <2>1. i \in Inks(w, i) /\ Inks(w, i) \subseteq Nat /\ \A y \in Inks(w, i) : i <= y
    BY <1>0, <1>2 DEF Inks
  <2>2. Smallest(Inks(w, i)) = i
    BY <2>1, SmallestOne
  <2> QED BY <1>2, <2>2 DEF Starts
<1>3. CASE i = Len(w) + 1
  <2>1. i \in Inks(w, i) /\ Inks(w, i) \subseteq Nat /\ \A y \in Inks(w, i) : i <= y
    BY <1>0, <1>3 DEF Inks
  <2>2. Smallest(Inks(w, i)) = i
    BY <2>1, SmallestOne
  <2> QED BY <1>0, <1>3, <2>2 DEF Starts
<1> QED BY <1>0, <1>1, <1>2, <1>3

\* ltrim leaves what begins with the first character that is no space.
LEMMA LtrimIs ==
    ASSUME NEW w \in Seq(Chars)
    PROVE  Ltrim(w) = SubSeq(w, Starts(w, 1), Len(w))
<1> DEFINE F == CHOOSE from : Ltrimming(w, from)
           C == [i \in 1..Len(w) + 1 |-> Starts(w, i)]
<1>0. Len(w) \in Nat
  OBVIOUS
<1>1. Ltrimming(w, C)
  <2>1. \A i \in 1..Len(w) + 1 : i <= Len(w) => i + 1 \in 1..Len(w) + 1
    BY <1>0
  <2>2. \A i \in 1..Len(w) + 1 :
            C[i] = IF i <= Len(w) /\ w[i] = Space THEN C[i + 1] ELSE i
    BY <2>1, <1>0, StartsStep
  <2> QED BY <2>2 DEF Ltrimming
<1>2. Ltrimming(w, F)
  <2> HIDE DEF C
  <2> QED BY <1>1, Zenon
<1>3. Ltrim(w) = SubSeq(w, F[1], Len(w))
  BY DEF Ltrim, Ltrimming
<1> HIDE DEF F, C
<1>4. \A i \in 1..Len(w) + 1 : F[i] = Starts(w, i)
  <2> DEFINE T == {i \in 1..Len(w) + 1 : F[i] # Starts(w, i)}
  <2> SUFFICES ASSUME T # {} PROVE FALSE
    OBVIOUS
  <2>1. T \subseteq 0..Len(w) + 1 /\ Len(w) + 1 \in Nat
    BY <1>0
  <2>2. PICK i \in T : \A y \in T : y <= i
    <3> HIDE DEF T
    <3> QED BY <2>1, Greatest
  <2>3. i \in 1..Len(w) + 1 /\ i \in Nat /\ F[i] # Starts(w, i)
    BY <2>1
  <2>4. i <= Len(w) => i + 1 \in 1..Len(w) + 1 /\ ~(i + 1 \in T)
    BY <2>2, <2>3, <1>0
  <2>5. i <= Len(w) => F[i + 1] = Starts(w, i + 1)
    BY <2>4
  <2>6. F[i] = IF i <= Len(w) /\ w[i] = Space THEN F[i + 1] ELSE i
    BY <1>2, <2>3 DEF Ltrimming
  <2> HIDE DEF T
  <2>7. Starts(w, i) = IF i <= Len(w) /\ w[i] = Space THEN Starts(w, i + 1) ELSE i
    BY <2>3, StartsStep
  <2> QED BY <2>3, <2>5, <2>6, <2>7
<1>5. F[1] = Starts(w, 1)
  BY <1>0, <1>4
<1> QED BY <1>3, <1>5

\* Trimming a tame word is safe and leaves what it should.
LEMMA TameTrim ==
    ASSUME NEW w \in Seq(Chars), Tame(w)
    PROVE  /\ RtrimTo(w) # Panic
           /\ Trim(w) = Trimmed(w)
<1> DEFINE a == Smallest(Ink(w))
           z == Biggest(Ink(w))
           u == SubSeq(w, 1, z)
<1>0. Len(w) \in Nat /\ DOMAIN w = 1..Len(w)
  OBVIOUS
<1>1. Ink(w) # {}
  BY <1>0 DEF Tame, Trimmed, Ink
<1>2. Ink(w) \subseteq Nat /\ Ink(w) \subseteq 0..Len(w) /\ Ink(w) \subseteq 1..Len(w)
  BY <1>0 DEF Ink
<1>3. a \in Ink(w) /\ \A y \in Ink(w) : a <= y
  BY <1>1, <1>2, SmallestIs
<1>4. z \in Ink(w) /\ \A y \in Ink(w) : y <= z
  BY <1>0, <1>1, <1>2, BiggestIs
<1>5. Trimmed(w) = SubSeq(w, a, z)
  BY <1>0, <1>1 DEF Trimmed, Ink, Smallest, Biggest
<1> HIDE DEF a, z
<1>6. Spaces(w) = Len(w) - z
  <2> DEFINE Q(i) == w[i] # Space /\ \A j \in (i + 1)..Len(w) : w[j] = Space
  <2>1. z \in DOMAIN w /\ Q(z)
    BY <1>0, <1>4 DEF Ink
  <2>2. ASSUME NEW i \in DOMAIN w, Q(i) PROVE i = z
    <3>1. i \in Ink(w) /\ i <= z
      BY <2>2, <1>0, <1>4 DEF Ink
    <3>2. z \in 1..Len(w) /\ w[z] # Space
      BY <1>4 DEF Ink
    <3>3. ~(z \in (i + 1)..Len(w))
      BY <3>2, <2>2
    <3> QED BY <3>1, <3>2, <3>3, <1>0, <1>2
  <2>3. (CHOOSE i \in DOMAIN w : Q(i)) = z
    BY <2>1, <2>2
  <2>4. Trimmed(w) # <<>>
    BY DEF Tame
  <2> QED BY <2>3, <2>4 DEF Spaces
<1>7. RtrimTo(w) = z
  <2>1. (Len(w) - z) % 2 = 0
    BY <1>6 DEF Tame
  <2>2. z \in Stops(w, Len(w))
    BY <2>1, <1>4 DEF Ink, Stops
  <2>3. Stops(w, Len(w)) \subseteq Ink(w)
    BY DEF Ink, Stops
  <2>4. Stops(w, Len(w)) \subseteq 0..Len(w) /\ \A y \in Stops(w, Len(w)) : y <= z
    BY <2>3, <1>2, <1>4
  <2>5. Biggest(Stops(w, Len(w))) = z
    BY <1>0, <2>2, <2>4, BiggestOne
  <2>6. Remains(w, Len(w)) = z
    BY <2>2, <2>5 DEF Remains
  <2> QED BY <2>6, RtrimIs
<1>8. a \in 1..Len(w) /\ z \in 1..Len(w) /\ a <= z
  BY <1>2, <1>3, <1>4
<1>9. u \in Seq(Chars) /\ Len(u) = z /\ \A i \in 1..z : u[i] = w[i]
  BY <1>0, <1>8
<1>10. Starts(u, 1) = a
  <2>1. a \in Inks(u, 1)
    BY <1>3, <1>8, <1>9 DEF Ink, Inks
  <2>2. \A y \in Inks(u, 1) : y \in Nat /\ a <= y
    <3> SUFFICES ASSUME NEW y \in Inks(u, 1) PROVE y \in Nat /\ a <= y
      OBVIOUS
    <3>1. CASE y = z + 1
      BY <3>1, <1>8, <1>0
    <3>2. CASE y \in 1..z /\ u[y] # Space
      BY <3>2, <1>0, <1>3, <1>8, <1>9 DEF Ink
    <3> QED BY <3>1, <3>2, <1>9 DEF Inks
  <2>3. Inks(u, 1) \subseteq Nat
    BY <2>2
  <2> QED BY <2>1, <2>2, <2>3, SmallestOne DEF Starts
<1>11. SubSeq(u, a, z) = SubSeq(w, a, z)
  <2> HIDE DEF u
  <2> QED BY <1>0, <1>8, <1>9
<1>12. Trim(w) = SubSeq(u, a, z)
  <2>1. Trim(w) = Ltrim(u)
    BY <1>7 DEF Trim
  <2> HIDE DEF u
  <2> QED BY <2>1, <1>9, <1>10, LtrimIs
<1> QED BY <1>5, <1>7, <1>8, <1>11, <1>12 DEF Panic

-----------------------------------------------------------------------------
(* The headers of the Response                                             *)

\* The function m of HeaderMapNew, for the first k headers.
Mapping(hs, k, m) ==
    m = [i \in 0..k |-> IF i = 0 THEN <<>> ELSE Push(m[i - 1], hs[i])]

\* A header that gives the Body its length.
GivesLength(h) == h.name = ContentLength /\ Numeral(h.value)

\* m holds values of the first i headers, and under content-length no number,
\* or first the one that came first.
Collected(m, hs, i) ==
    /\ DOMAIN m \subseteq Seq(Chars)
    /\ \A n \in DOMAIN m : m[n] \in Seq(Seq(Chars))
    /\ \/ /\ \A j \in 1..i : ~GivesLength(hs[j])
          /\ \A k \in DOMAIN LengthsIn(m) : ~Numeral(LengthsIn(m)[k])
       \/ \E j \in 1..i : /\ GivesLength(hs[j])
                          /\ \A k \in 1..(j - 1) : ~GivesLength(hs[k])
                          /\ FirstNumber(LengthsIn(m), hs[j].value)

\* There is such a function.
LEMMA MappingExists ==
    ASSUME NEW hs \in Seq(Fields)
    PROVE  \A k \in Nat : \E m : Mapping(hs, k, m)
<1> DEFINE T == {k \in Nat : ~ \E m : Mapping(hs, k, m)}
<1> SUFFICES ASSUME T # {} PROVE FALSE
  OBVIOUS
<1>1. PICK k \in T : \A y \in T : k <= y
  <2>1. T \subseteq Nat
    OBVIOUS
  <2> HIDE DEF T
  <2> QED BY <2>1, Least
<1>2. k \in Nat /\ ~ \E m : Mapping(hs, k, m)
  OBVIOUS
<1>3. CASE k = 0
  <2>1. Mapping(hs, 0, [i \in 0..0 |-> <<>>])
    BY DEF Mapping
  <2> QED BY <1>2, <1>3, <2>1
<1>4. CASE k # 0
  <2>1. k - 1 \in Nat /\ ~(k - 1 \in T)
    BY <1>1, <1>2, <1>4
  <2>2. PICK m : Mapping(hs, k - 1, m)
    BY <2>1
  <2> DEFINE f == [i \in 0..k |-> IF i = k THEN Push(m[k - 1], hs[k]) ELSE m[i]]
  <2>3. \A i \in 0..(k - 1) : m[i] = IF i = 0 THEN <<>> ELSE Push(m[i - 1], hs[i])
    BY <2>2, <2>1 DEF Mapping
  <2>4. \A i \in 0..k : f[i] = IF i = 0 THEN <<>> ELSE Push(f[i - 1], hs[i])
    <3> SUFFICES ASSUME NEW i \in 0..k
                 PROVE  f[i] = IF i = 0 THEN <<>> ELSE Push(f[i - 1], hs[i])
      OBVIOUS
    <3>1. CASE i = k
      <4>1. f[i - 1] = m[k - 1]
        BY <3>1, <1>2, <1>4
      <4> QED BY <3>1, <4>1, <1>4
    <3>2. CASE i # k
      <4>1. i \in 0..(k - 1) /\ (i # 0 => i - 1 \in 0..k /\ i - 1 # k)
        BY <3>2, <1>2
      <4> QED BY <3>2, <4>1, <2>3
    <3> QED BY <3>1, <3>2
  <2>5. Mapping(hs, k, f)
    BY <2>4 DEF Mapping
  <2> HIDE DEF f
  <2> QED BY <1>2, <2>5
<1> QED BY <1>3, <1>4

\* A value that is pushed behind others is the first number if none of them is
\* one, and else leaves the first number where it is.
LEMMA AppendNumber ==
    ASSUME NEW s \in Seq(Seq(Chars)), NEW v \in Seq(Chars)
    PROVE  /\ \A u : FirstNumber(s, u) => FirstNumber(Append(s, v), u)
           /\ (\A k \in DOMAIN s : ~Numeral(s[k])) =>
                 IF Numeral(v) THEN FirstNumber(Append(s, v), v)
                 ELSE \A k \in DOMAIN Append(s, v) : ~Numeral(Append(s, v)[k])
<1> DEFINE t == Append(s, v)
<1>1. /\ Len(s) \in Nat /\ DOMAIN s = 1..Len(s) /\ DOMAIN t = 1..(Len(s) + 1)
      /\ \A k \in 1..Len(s) : t[k] = s[k]
      /\ t[Len(s) + 1] = v
  OBVIOUS
<1> HIDE DEF t
<1>2. ASSUME NEW u, FirstNumber(s, u) PROVE FirstNumber(t, u)
  <2>1. PICK k \in DOMAIN s : /\ s[k] = u /\ Numeral(u)
                              /\ \A j \in 1..(k - 1) : ~Numeral(s[j])
    BY <1>2 DEF FirstNumber
  <2>2. k \in DOMAIN t /\ t[k] = u /\ \A j \in 1..(k - 1) : t[j] = s[j]
    BY <1>1, <2>1
  <2> QED BY <2>1, <2>2 DEF FirstNumber
<1>3. ASSUME \A k \in DOMAIN s : ~Numeral(s[k]), Numeral(v) PROVE FirstNumber(t, v)
  <2>1. Len(s) + 1 \in DOMAIN t /\ t[Len(s) + 1] = v
    BY <1>1
  <2>2. \A j \in 1..(Len(s) + 1 - 1) : ~Numeral(t[j])
    <3>1. Len(s) + 1 - 1 = Len(s)
      BY <1>1
    <3>2. \A j \in 1..Len(s) : ~Numeral(t[j])
      BY <1>1, <1>3
    <3> QED BY <3>1, <3>2
  <2> QED BY <1>3, <2>1, <2>2 DEF FirstNumber
<1>4. ASSUME \A k \in DOMAIN s : ~Numeral(s[k]), ~Numeral(v)
      PROVE  \A k \in DOMAIN t : ~Numeral(t[k])
  <2> SUFFICES ASSUME NEW k \in DOMAIN t PROVE ~Numeral(t[k])
    OBVIOUS
  <2>1. k \in 1..Len(s) \/ k = Len(s) + 1
    BY <1>1
  <2> QED BY <1>1, <1>4, <2>1
<1> QED BY <1>2, <1>3, <1>4 DEF t

\* push and insert keep that.
LEMMA PushCollected ==
    ASSUME NEW hs \in Seq(Fields), NEW i \in 1..Len(hs), NEW m, Collected(m, hs, i - 1)
    PROVE  Collected(Push(m, hs[i]), hs, i)
<1> DEFINE p == Push(m, hs[i])
           h == hs[i]
<1>0. i \in Nat /\ 1..i = 1..(i - 1) \cup {i} /\ Len(hs) \in Nat
  OBVIOUS
<1>1. h \in Fields /\ h.name \in Seq(Chars) /\ h.value \in Seq(Chars)
  <2>1. h \in Fields
    BY <1>0
  <2> HIDE DEF h
  <2> QED BY <2>1 DEF Fields
<1>2. /\ DOMAIN p = DOMAIN m \cup {h.name}
      /\ \A n \in DOMAIN p : p[n] = IF n # h.name THEN m[n]
                                    ELSE IF n \in DOMAIN m THEN Append(m[n], h.value)
                                    ELSE <<h.value>>
  BY DEF Push
<1>3. DOMAIN m \subseteq Seq(Chars) /\ \A n \in DOMAIN m : m[n] \in Seq(Seq(Chars))
  BY DEF Collected
<1> HIDE DEF p, h
<1>4. DOMAIN p \subseteq Seq(Chars) /\ \A n \in DOMAIN p : p[n] \in Seq(Seq(Chars))
  <2>1. \A s \in Seq(Seq(Chars)), v \in Seq(Chars) :
           Append(s, v) \in Seq(Seq(Chars)) /\ <<v>> \in Seq(Seq(Chars))
    OBVIOUS
  <2>2. DOMAIN p \subseteq Seq(Chars)
    BY <1>1, <1>2, <1>3, Zenon
  <2>3. ASSUME NEW n \in DOMAIN p PROVE p[n] \in Seq(Seq(Chars))
    <3>1. CASE n # h.name
      BY <1>2, <1>3, <2>3, <3>1, Zenon
    <3>2. CASE n = h.name /\ n \in DOMAIN m
      <4>1. p[n] = Append(m[n], h.value) /\ m[n] \in Seq(Seq(Chars))
        BY <1>2, <1>3, <2>3, <3>2, Zenon
      <4> QED BY <1>1, <2>1, <4>1, Zenon
    <3>3. CASE n = h.name /\ n \notin DOMAIN m
      <4>1. p[n] = <<h.value>>
        BY <1>2, <2>3, <3>3, Zenon
      <4>2. <<h.value>> \in Seq(Seq(Chars))
        BY <1>1
      <4> QED BY <4>1, <4>2, Zenon
    <3> QED BY <3>1, <3>2, <3>3, Zenon
  <2> QED BY <2>2, <2>3
<1>5. LengthsIn(m) \in Seq(Seq(Chars))
  <2>1. <<>> \in Seq(Seq(Chars))
    OBVIOUS
  <2> QED BY <1>3, <2>1 DEF LengthsIn
<1>6. LengthsIn(p) = IF h.name = ContentLength THEN Append(LengthsIn(m), h.value)
                     ELSE LengthsIn(m)
  <2>1. Append(<<>>, h.value) = <<h.value>>
    BY <1>1
  <2>2. CASE h.name = ContentLength
    BY <1>2, <2>1, <2>2 DEF LengthsIn
  <2>3. CASE h.name # ContentLength
    BY <1>2, <2>3 DEF LengthsIn
  <2> QED BY <2>2, <2>3
<1>7. CASE /\ \A j \in 1..(i - 1) : ~GivesLength(hs[j])
           /\ \A k \in DOMAIN LengthsIn(m) : ~Numeral(LengthsIn(m)[k])
  <2>1. CASE GivesLength(h)
    <3>1. FirstNumber(LengthsIn(p), h.value)
      BY <1>1, <1>5, <1>6, <1>7, <2>1, AppendNumber DEF GivesLength
    <3>2. i \in 1..i
      BY <1>0
    <3> QED BY <1>4, <1>7, <2>1, <3>1, <3>2 DEF Collected, h, p
  <2>2. CASE ~GivesLength(h)
    <3>1. \A k \in DOMAIN LengthsIn(p) : ~Numeral(LengthsIn(p)[k])
      <4>1. CASE h.name = ContentLength
        <5>1. LengthsIn(p) = Append(LengthsIn(m), h.value) /\ ~Numeral(h.value)
          BY <1>6, <2>2, <4>1 DEF GivesLength
        <5> QED BY <1>1, <1>5, <1>7, <5>1, AppendNumber
      <4>2. CASE h.name # ContentLength
        BY <1>6, <1>7, <4>2
      <4> QED BY <4>1, <4>2
    <3>2. \A j \in 1..i : ~GivesLength(hs[j])
      BY <1>0, <1>7, <2>2 DEF h
    <3> QED BY <1>4, <3>1, <3>2 DEF Collected, p
  <2> QED BY <2>1, <2>2
<1>8. ASSUME NEW j \in 1..(i - 1), GivesLength(hs[j]),
             \A k \in 1..(j - 1) : ~GivesLength(hs[k]),
             FirstNumber(LengthsIn(m), hs[j].value)
      PROVE  Collected(p, hs, i)
  <2>1. FirstNumber(LengthsIn(p), hs[j].value)
    BY <1>1, <1>5, <1>6, <1>8, AppendNumber
  <2>2. j \in 1..i
    BY <1>0
  <2> QED BY <1>4, <1>8, <2>1, <2>2 DEF Collected
<1> QED BY <1>7, <1>8 DEF Collected, p

\* HeaderMap::new collects the values of all headers, in their order as far as
\* numbers go.
LEMMA MapCollects ==
    ASSUME NEW hs \in Seq(Fields)
    PROVE  Collected(HeaderMapNew(hs), hs, Len(hs))
<1> DEFINE F == CHOOSE m : Mapping(hs, Len(hs), m)
<1>0. Len(hs) \in Nat
  OBVIOUS
<1>1. Mapping(hs, Len(hs), F)
  BY <1>0, MappingExists, Zenon
<1>2. HeaderMapNew(hs) = F[Len(hs)]
  BY DEF HeaderMapNew, Mapping
<1> HIDE DEF F
<1>3. \A i \in 0..Len(hs) : F[i] = IF i = 0 THEN <<>> ELSE Push(F[i - 1], hs[i])
  BY <1>1 DEF Mapping
<1>4. \A i \in 0..Len(hs) : Collected(F[i], hs, i)
  <2> DEFINE T == {i \in 0..Len(hs) : ~ Collected(F[i], hs, i)}
  <2> SUFFICES ASSUME T # {} PROVE FALSE
    OBVIOUS
  <2>1. PICK i \in T : \A y \in T : i <= y
    <3>1. T \subseteq Nat
      BY <1>0
    <3> HIDE DEF T
    <3> QED BY <3>1, Least
  <2>2. i \in 0..Len(hs) /\ ~ Collected(F[i], hs, i)
    OBVIOUS
  <2>3. CASE i = 0
    <3>1. F[0] = <<>>
      BY <1>0, <1>3
    <3>2. Collected(<<>>, hs, 0)
      <4>1. DOMAIN <<>> = {} /\ 1..0 = {}
        OBVIOUS
      <4>2. LengthsIn(<<>>) = <<>>
        BY <4>1, Zenon DEF LengthsIn
      <4> QED BY <4>1, <4>2, Zenon DEF Collected
    <3> QED BY <2>2, <2>3, <3>1, <3>2
  <2>4. CASE i # 0
    <3>1. i - 1 \in 0..Len(hs) /\ ~(i - 1 \in T) /\ i \in 1..Len(hs)
      BY <1>0, <2>1, <2>2, <2>4
    <3>2. Collected(F[i - 1], hs, i - 1)
      BY <3>1
    <3>3. F[i] = Push(F[i - 1], hs[i])
      BY <1>3, <2>2, <2>4
    <3> HIDE DEF T
    <3> QED BY <2>2, <3>1, <3>2, <3>3, PushCollected
  <2> QED BY <2>3, <2>4
<1> QED BY <1>0, <1>2, <1>4

\* find_map and HeaderMap::new agree on the first content-length that is a
\* number.
LEMMA FirstIn ==
    ASSUME NEW hs \in Seq(Fields)
    PROVE  LET s == LengthsIn(HeaderMapNew(hs))
               v == ContentLengthOf(hs)
           IN /\ (v # None) <=> \E h \in Range(hs) : h.name = ContentLength /\ Numeral(h.value)
              /\ v # None => FirstNumber(s, v)
              /\ v = None => \A k \in DOMAIN s : ~Numeral(s[k])
              /\ s # <<>> /\ Numeral(s[1]) => v = s[1]
<1> DEFINE s == LengthsIn(HeaderMapNew(hs))
           I == {i \in 1..Len(hs) : hs[i].name = ContentLength /\ Numeral(hs[i].value)}
<1>0. Len(hs) \in Nat /\ DOMAIN hs = 1..Len(hs)
  OBVIOUS
<1>1. I \subseteq Nat
  BY <1>0
<1>2. ContentLengthOf(hs) = IF I = {} THEN None ELSE hs[Smallest(I)].value
  <2>1. I # {} => Smallest(I) \in I
    <3> HIDE DEF I
    <3> QED BY <1>1, SmallestIs
  <2>2. I # {} => Smallest(I) # 0
    BY <2>1
  <2> QED BY <2>2 DEF ContentLengthOf, SelectInSeq, Min, Smallest
<1>3. ASSUME I # {}
      PROVE  /\ Smallest(I) \in I /\ Smallest(I) \in 1..Len(hs)
             /\ Numeral(hs[Smallest(I)].value) /\ \A i \in I : Smallest(I) <= i
  <2>1. Smallest(I) \in I /\ \A i \in I : Smallest(I) <= i
    <3> HIDE DEF I
    <3> QED BY <1>1, <1>3, SmallestIs
  <2> QED BY <2>1
<1>4. (ContentLengthOf(hs) # None) <=> I # {}
  <2>1. I # {} => hs[Smallest(I)].value # None
    BY <1>3 DEF Numeral, None
  <2> QED BY <2>1, <1>2
<1>5. (I # {}) <=> \E h \in Range(hs) : h.name = ContentLength /\ Numeral(h.value)
  BY <1>0 DEF Range
<1>6. \A j \in 1..Len(hs) : j \in I <=> GivesLength(hs[j])
  BY DEF GivesLength
<1> HIDE DEF I
<1>7. \/ /\ I = {} /\ \A k \in DOMAIN s : ~Numeral(s[k])
      \/ \E j \in I : /\ \A k \in 1..(j - 1) : k \notin I
                      /\ FirstNumber(s, hs[j].value)
  <2>1. Collected(HeaderMapNew(hs), hs, Len(hs))
    BY MapCollects
  <2>2. CASE /\ \A j \in 1..Len(hs) : ~GivesLength(hs[j])
             /\ \A k \in DOMAIN s : ~Numeral(s[k])
    BY <1>6, <2>2 DEF I
  <2>3. ASSUME NEW j \in 1..Len(hs), GivesLength(hs[j]),
               \A k \in 1..(j - 1) : ~GivesLength(hs[k]), FirstNumber(s, hs[j].value)
        PROVE  j \in I /\ \A k \in 1..(j - 1) : k \notin I
    <3>1. \A k \in 1..(j - 1) : k \in 1..Len(hs)
      BY <1>0
    <3> QED BY <1>6, <2>3, <3>1
  <2> QED BY <2>1, <2>2, <2>3 DEF Collected
<1>8. ASSUME NEW j \in I, \A k \in 1..(j - 1) : k \notin I PROVE j = Smallest(I)
  <2>1. Smallest(I) \in I /\ Smallest(I) \in 1..Len(hs) /\ Smallest(I) <= j /\ j \in Nat
    BY <1>1, <1>3
  <2> QED BY <1>0, <1>8, <2>1
<1> HIDE DEF s
<1>9. I # {} => FirstNumber(s, ContentLengthOf(hs))
  BY <1>2, <1>7, <1>8
<1>10. I = {} => \A k \in DOMAIN s : ~Numeral(s[k])
  BY <1>7
<1>11. s \in Seq(Seq(Chars))
  <2>1. <<>> \in Seq(Seq(Chars))
    OBVIOUS
  <2> QED BY <2>1, MapCollects DEF s, LengthsIn, Collected
<1>12. ASSUME s # <<>>, Numeral(s[1]) PROVE ContentLengthOf(hs) = s[1]
  <2>1. 1 \in DOMAIN s /\ DOMAIN s \subseteq Nat \ {0}
    BY <1>11, <1>12
  <2>2. FirstNumber(s, ContentLengthOf(hs))
    BY <1>9, <1>10, <1>12, <2>1
  <2>3. PICK k \in DOMAIN s : /\ s[k] = ContentLengthOf(hs)
                              /\ \A j \in 1..(k - 1) : ~Numeral(s[j])
    BY <2>2 DEF FirstNumber
  <2>4. k = 1
    BY <1>12, <2>1, <2>3
  <2> QED BY <2>3, <2>4
<1> QED BY <1>4, <1>5, <1>9, <1>10, <1>12 DEF s

-----------------------------------------------------------------------------
(* A line                                                                  *)

\* The first colon is in the line.
LEMMA ColonRange ==
    ASSUME NEW w \in Seq(Chars)
    PROVE  ColonAt(w) \in 0..Len(w)
<1> DEFINE I == {i \in 1..Len(w) : w[i] = Colon}
<1>1. I \subseteq Nat /\ Len(w) \in Nat
  OBVIOUS
<1>2. I # {} => Smallest(I) \in I
  <2> HIDE DEF I
  <2> QED BY <1>1, SmallestIs
<1>3. ColonAt(w) = IF I # {} THEN Smallest(I) ELSE 0
  BY DEF ColonAt, SelectInSeq, Min, Smallest
<1> QED BY <1>1, <1>2, <1>3

\* What is cut out of a line is a word,
LEMMA PartsType ==
    ASSUME NEW w \in Seq(Chars)
    PROVE  NamePart(w) \in Seq(Chars) /\ ValuePart(w) \in Seq(Chars)
<1>1. ASSUME NEW u \in Seq(Chars) PROVE Before(u) \in Seq(Chars)
  <2>1. ColonAt(u) \in 0..Len(u) /\ Len(u) \in Nat
    BY ColonRange
  <2>2. ColonAt(u) # 0 => SubSeq(u, 1, ColonAt(u) - 1) \in Seq(Chars)
    BY <2>1
  <2> QED BY <2>2 DEF Before
<1>2. SubSeq(w, ColonAt(w) + 1, Len(w)) \in Seq(Chars)
  <2>1. ColonAt(w) \in 0..Len(w) /\ Len(w) \in Nat
    BY ColonRange
  <2> QED BY <2>1
<1> QED BY <1>1, <1>2 DEF NamePart, ValuePart

\* so is what is left of a word after trimming it,
LEMMA TrimType ==
    ASSUME NEW w \in Seq(Chars)
    PROVE  Trim(w) \in Seq(Chars)
<1>0. Len(w) \in Nat
  OBVIOUS
<1>1. RtrimTo(w) \in -1..Len(w)
  <2>1. Stops(w, Len(w)) \subseteq 0..Len(w)
    BY <1>0 DEF Stops
  <2>2. Stops(w, Len(w)) # {} => Biggest(Stops(w, Len(w))) \in Stops(w, Len(w))
    BY <1>0, <2>1, BiggestIs
  <2> QED BY <1>0, <2>1, <2>2, RtrimIs DEF Remains, Off, Panic
<1> DEFINE u == SubSeq(w, 1, RtrimTo(w))
<1>2. u \in Seq(Chars)
  BY <1>0, <1>1
<1> HIDE DEF u
<1>3. Len(u) \in Nat
  BY <1>2
<1>4. Starts(u, 1) \in Nat \ {0}
  <2>1. Inks(u, 1) \subseteq Nat \ {0} /\ Inks(u, 1) \subseteq Nat /\ Inks(u, 1) # {}
    BY <1>3 DEF Inks
  <2> QED BY <2>1, SmallestIs DEF Starts
<1>5. SubSeq(u, Starts(u, 1), Len(u)) \in Seq(Chars)
  BY <1>2, <1>3, <1>4
<1> QED BY <1>2, <1>5, LtrimIs DEF Trim, u

\* and a word in lower case.
LEMMA LowerType ==
    ASSUME NEW w \in Seq(Chars)
    PROVE  Lower(w) \in Seq(Chars)
<1>1. Len(w) \in Nat /\ DOMAIN w = 1..Len(w)
  OBVIOUS
<1>2. \A i \in 1..Len(w) : w[i] \in Chars
  OBVIOUS
<1>3. "k" \in Chars
  BY DEF Chars
<1>4. Lower(w) \in [1..Len(w) -> Chars]
  BY <1>1, <1>2, <1>3 DEF Lower
<1> HIDE DEF Lower
<1> QED BY <1>1, <1>4

\* The lines that may be read.
LEMMA WordsType ==
    ASSUME NEW n \in Nat, NEW w \in Words(n)
    PROVE  w \in Seq(Chars) /\ Len(w) \in Nat /\ Len(w) <= n
  BY DEF Words

\* The header made of a line.
LEMMA FieldType ==
    ASSUME NEW w \in Seq(Chars)
    PROVE  [name |-> Lower(Trim(NamePart(w))), value |-> Trim(ValuePart(w))] \in Fields
<1>1. Lower(Trim(NamePart(w))) \in Seq(Chars) /\ Trim(ValuePart(w)) \in Seq(Chars)
  BY PartsType, TrimType, LowerType
<1> QED BY <1>1 DEF Fields

-----------------------------------------------------------------------------
(* The head of a reply                                                     *)

\* Every step keeps the invariant: the code of a status that is gone on with
\* is one of 100 to 599, and no header line is read before it.
LEMMA StepReading ==
    Reading /\ [Next]_vars => Reading'
<1> SUFFICES ASSUME Reading, [Next]_vars PROVE Reading'
  OBVIOUS
<1>1. ASSUME NEW l \in StatusLines, ParseStatus(l) PROVE Reading'
  <2>1. pc' = "headers" => FromU16(status')
    <3> SUFFICES ASSUME pc' = "headers" PROVE FromU16(status')
      OBVIOUS
    <3>1. CodeOk(l.code)
      BY <1>1 DEF ParseStatus, StatusOutcome
    <3>2. status' = l.code[1] * 100 + l.code[2] * 10 + l.code[3]
      BY <1>1 DEF ParseStatus
    <3> QED BY <3>1, <3>2 DEF CodeOk, FromU16
  <2>2. pc' # "status"
    BY <1>1 DEF ParseStatus, StatusOutcome
  <2> QED BY <1>1, <2>1, <2>2 DEF Reading, ParseStatus
<1>2. ASSUME pc = "headers", NEW w \in Words(left), ParseHeader(w) PROVE Reading'
  <2>1. w \in Seq(Chars) /\ Len(w) \in Nat /\ Len(w) <= left
    BY WordsType DEF Reading
  <2>2. left' \in Nat /\ line' \in Seq(Chars)
    BY <1>2, <2>1 DEF Reading, ParseHeader
  <2>3. headers' \in Seq(Fields)
    <3> DEFINE h == [name |-> Lower(Trim(NamePart(w))), value |-> Trim(ValuePart(w))]
    <3>1. h \in Fields
      BY <2>1, FieldType
    <3>2. headers' = Append(headers, h) \/ headers' = headers
      BY <1>2 DEF ParseHeader
    <3> HIDE DEF h
    <3> QED BY <3>1, <3>2 DEF Reading
  <2>4. pc' # "status"
    BY <1>2 DEF ParseHeader, HeaderOutcome
  <2>5. FromU16(status')
    BY <1>2 DEF Reading, ParseHeader, FromU16
  <2> QED BY <2>2, <2>3, <2>4, <2>5 DEF Reading
<1>3. CASE Respond
  BY <1>3 DEF Reading, Respond
<1>4. CASE Done \/ UNCHANGED vars
  BY <1>4 DEF Reading, Done, vars, FromU16
<1> QED BY <1>1, <1>2, <1>3, <1>4 DEF Next

\* It holds at the start,
LEMMA InitReading == Init => Reading
  BY ParseBounds DEF Init, Reading

\* and throughout.
THEOREM AlwaysReading == Spec => []Reading
  BY InitReading, StepReading, PTL DEF Spec

\* A status line panics only if its first word is too short, and the unwrap
\* in Response::new never does.
THEOREM StatusSafe == Spec => []StatusIsSafe
<1>1. Init => StatusIsSafe
  BY DEF Init, StatusIsSafe
<1>2. Reading /\ StatusIsSafe /\ [Next]_vars => StatusIsSafe'
  <2> SUFFICES ASSUME Reading, StatusIsSafe, [Next]_vars PROVE StatusIsSafe'
    OBVIOUS
  <2>1. ASSUME NEW l \in StatusLines, ParseStatus(l) PROVE StatusIsSafe'
    <3>1. l.first \in 3..5
      BY DEF StatusLines
    <3> QED BY <2>1, <3>1 DEF ParseStatus, StatusOutcome, StatusIsSafe
  <2>2. ASSUME pc = "headers", NEW w \in Words(left), ParseHeader(w) PROVE StatusIsSafe'
    BY <2>2 DEF ParseHeader, HeaderOutcome, StatusIsSafe
  <2>3. CASE Respond
    BY <2>3 DEF Reading, Respond, StatusIsSafe
  <2>4. CASE Done \/ UNCHANGED vars
    BY <2>4 DEF StatusIsSafe, Done, vars
  <2> QED BY <2>1, <2>2, <2>3, <2>4 DEF Next
<1> QED BY <1>1, <1>2, AlwaysReading, PTL DEF Spec

\* A part of a line that makes the parser panic.
Bad(w) == WalksOff(w) /\ (Len(w) % 2 = 1 \/ build = "checked")

\* A header line makes the parser panic exactly if a part that it trims
\* walks off.
THEOREM Panics == Spec => []PanicsExactly
<1>1. Init => PanicsExactly
  BY DEF Init, PanicsExactly
<1>2. Reading /\ PanicsExactly /\ [Next]_vars => PanicsExactly'
  <2> SUFFICES ASSUME Reading, PanicsExactly, [Next]_vars PROVE PanicsExactly'
    OBVIOUS
  <2>1. ASSUME NEW l \in StatusLines, ParseStatus(l) PROVE PanicsExactly'
    BY <2>1 DEF ParseStatus, Reading, PanicsExactly
  <2>2. ASSUME pc = "headers", NEW w \in Words(left), ParseHeader(w) PROVE PanicsExactly'
    <3>1. w \in Seq(Chars)
      BY WordsType DEF Reading
    <3>2. NamePart(w) \in Seq(Chars) /\ ValuePart(w) \in Seq(Chars)
      BY <3>1, PartsType
    <3>3. /\ (RtrimTo(NamePart(w)) = Panic) <=> Bad(NamePart(w))
          /\ (RtrimTo(ValuePart(w)) = Panic) <=> Bad(ValuePart(w))
      BY <3>2, RtrimPanics DEF Bad
    <3>4. (HeaderOutcome(w) = "panic") <=>
              Bad(NamePart(w)) \/ (ColonAt(w) # 0 /\ Bad(ValuePart(w)))
      BY <3>3 DEF HeaderOutcome
    <3>5. line' = w /\ pc' = HeaderOutcome(w) /\ build' = build
      BY <2>2 DEF ParseHeader
    <3>6. (pc' = "panic") <=>
              Bad(NamePart(w)) \/ (ColonAt(w) # 0 /\ Bad(ValuePart(w)))
      BY <3>4, <3>5
    <3> QED BY <3>5, <3>6 DEF PanicsExactly, Bad
  <2>3. CASE Respond
    BY <2>3 DEF Respond, PanicsExactly
  <2>4. CASE Done \/ UNCHANGED vars
    BY <2>4 DEF PanicsExactly, Done, vars
  <2> QED BY <2>1, <2>2, <2>3, <2>4 DEF Next
<1> QED BY <1>1, <1>2, AlwaysReading, PTL DEF Spec

\* A line whose name and value are tame is parsed to what lies between its
\* spaces.
THEOREM TameParse == Spec => []TameLinesParse
<1>1. Init => TameLinesParse
  BY DEF Init, TameLinesParse
<1>2. Reading /\ TameLinesParse /\ [Next]_vars => TameLinesParse'
  <2> SUFFICES ASSUME Reading, TameLinesParse, [Next]_vars PROVE TameLinesParse'
    OBVIOUS
  <2>1. ASSUME NEW l \in StatusLines, ParseStatus(l) PROVE TameLinesParse'
    BY <2>1 DEF ParseStatus, Reading, TameLinesParse
  <2>2. ASSUME pc = "headers", NEW w \in Words(left), ParseHeader(w) PROVE TameLinesParse'
    <3> DEFINE h == [name |-> Lower(Trim(NamePart(w))), value |-> Trim(ValuePart(w))]
    <3>1. w \in Seq(Chars) /\ headers \in Seq(Fields)
      BY WordsType DEF Reading
    <3>2. NamePart(w) \in Seq(Chars) /\ ValuePart(w) \in Seq(Chars)
      BY <3>1, PartsType
    <3>3. line' = w
      BY <2>2 DEF ParseHeader
    <3> SUFFICES ASSUME ColonAt(w) # 0, Tame(NamePart(w)), Tame(ValuePart(w))
                 PROVE  /\ pc' # "panic"
                        /\ headers'[Len(headers')] =
                              [name  |-> Lower(Trimmed(NamePart(w))),
                               value |-> Trimmed(ValuePart(w))]
      BY <3>3 DEF TameLinesParse
    <3>4. pc' = "headers"
      BY <2>2, <3>2, TameTrim DEF ParseHeader, HeaderOutcome
    <3>5. h = [name |-> Lower(Trimmed(NamePart(w))), value |-> Trimmed(ValuePart(w))]
      BY <3>2, TameTrim
    <3>6. headers' = Append(headers, h) /\ h \in Fields
      BY <2>2, <3>1, <3>4, FieldType DEF ParseHeader
    <3>7. headers'[Len(headers')] = h
      <4> HIDE DEF h
      <4> QED BY <3>1, <3>6
    <3> QED BY <3>4, <3>5, <3>7
  <2>3. CASE Respond
    BY <2>3 DEF Respond, TameLinesParse
  <2>4. CASE Done \/ UNCHANGED vars
    BY <2>4 DEF TameLinesParse, Done, vars
  <2> QED BY <2>1, <2>2, <2>3, <2>4 DEF Next
<1> QED BY <1>1, <1>2, AlwaysReading, PTL DEF Spec

\* The Body's content_length is the first number among the values that the
\* HeaderMap holds (LengthsAgree), for any number of headers.
THEOREM Lengths == Spec => []LengthsAgree
<1>1. Init => LengthsAgree
  BY DEF Init, LengthsAgree
<1>2. Reading /\ LengthsAgree /\ [Next]_vars => LengthsAgree'
  <2> SUFFICES ASSUME Reading, LengthsAgree, [Next]_vars PROVE LengthsAgree'
    OBVIOUS
  <2>1. ASSUME NEW l \in StatusLines, ParseStatus(l) PROVE LengthsAgree'
    BY <2>1 DEF ParseStatus, StatusOutcome, LengthsAgree
  <2>2. ASSUME pc = "headers", NEW w \in Words(left), ParseHeader(w) PROVE LengthsAgree'
    BY <2>2 DEF ParseHeader, HeaderOutcome, LengthsAgree
  <2>3. CASE Respond
    <3>1. headers \in Seq(Fields)
      BY DEF Reading
    <3>2. length' = ContentLengthOf(headers) /\ map' = HeaderMapNew(headers) /\ headers' = headers
      BY <2>3 DEF Respond
    <3>3. LengthsIn(map') # <<>> => Get(ContentLength)' = LengthsIn(map')[1]
      BY DEF LengthsIn, Get
    <3> QED BY <3>1, <3>2, <3>3, FirstIn DEF LengthsAgree
  <2>4. CASE Done \/ UNCHANGED vars
    BY <2>4 DEF LengthsAgree, LengthsIn, Get, Done, vars
  <2> QED BY <2>1, <2>2, <2>3, <2>4 DEF Next
<1> QED BY <1>1, <1>2, AlwaysReading, PTL DEF Spec

-----------------------------------------------------------------------------
(* The head of a request.  The theorems below are about the specification  *)
(* of Request alone; its properties are those of RequestHead.              *)

CONSTANTS Hosts, MaxHeaders
VARIABLES enforce_http, first

Asking == INSTANCE Request

\* The function that the loop of build_req computes.
Copying(lines, hs, k, out) ==
    out = [i \in 0..k |-> IF i = 0 THEN lines
                          ELSE IF Asking!Sent(hs[i]) THEN Append(out[i - 1], hs[i])
                          ELSE out[i - 1]]

\* There is such a function.
LEMMA CopyingExists ==
    ASSUME NEW lines, NEW hs
    PROVE  \A k \in Nat : \E out : Copying(lines, hs, k, out)
<1> DEFINE T == {k \in Nat : ~ \E out : Copying(lines, hs, k, out)}
<1> SUFFICES ASSUME T # {} PROVE FALSE
  OBVIOUS
<1>1. PICK k \in T : \A y \in T : k <= y
  <2>1. T \subseteq Nat
    OBVIOUS
  <2> HIDE DEF T
  <2> QED BY <2>1, Least
<1>2. k \in Nat /\ ~ \E out : Copying(lines, hs, k, out)
  OBVIOUS
<1>3. CASE k = 0
  <2>1. Copying(lines, hs, 0, [i \in 0..0 |-> lines])
    BY DEF Copying
  <2> QED BY <1>2, <1>3, <2>1
<1>4. CASE k # 0
  <2>1. k - 1 \in Nat /\ ~(k - 1 \in T)
    BY <1>1, <1>2, <1>4
  <2>2. PICK out : Copying(lines, hs, k - 1, out)
    BY <2>1
  <2> DEFINE last == IF Asking!Sent(hs[k]) THEN Append(out[k - 1], hs[k]) ELSE out[k - 1]
             f == [i \in 0..k |-> IF i = k THEN last ELSE out[i]]
  <2>3. \A i \in 0..(k - 1) : out[i] = IF i = 0 THEN lines
                                       ELSE IF Asking!Sent(hs[i]) THEN Append(out[i - 1], hs[i])
                                       ELSE out[i - 1]
    BY <2>2, <2>1 DEF Copying
  <2>4. \A i \in 0..k : f[i] = IF i = 0 THEN lines
                               ELSE IF Asking!Sent(hs[i]) THEN Append(f[i - 1], hs[i])
                               ELSE f[i - 1]
    <3> SUFFICES ASSUME NEW i \in 0..k
                 PROVE  f[i] = IF i = 0 THEN lines
                               ELSE IF Asking!Sent(hs[i]) THEN Append(f[i - 1], hs[i])
                               ELSE f[i - 1]
      OBVIOUS
    <3>1. CASE i = k
      <4>1. f[i - 1] = out[k - 1]
        BY <3>1, <1>2, <1>4
      <4> QED BY <3>1, <4>1, <1>4
    <3>2. CASE i # k
      <4>1. i \in 0..(k - 1) /\ (i # 0 => i - 1 \in 0..k /\ i - 1 # k)
        BY <3>2, <1>2
      <4> QED BY <3>2, <4>1, <2>3
    <3> QED BY <3>1, <3>2
  <2>5. Copying(lines, hs, k, f)
    BY <2>4 DEF Copying
  <2> HIDE DEF f
  <2> QED BY <1>2, <2>5
<1> QED BY <1>3, <1>4

\* The positions up to i of the headers that are sent, and how many they are.
Kept(hs, i) == {j \in 1..i : Asking!Sent(hs[j])}
Count(hs, i) == Cardinality(Kept(hs, i))

\* How one header more changes them.
LEMMA CountStep ==
    ASSUME NEW hs, NEW i \in Nat
    PROVE  /\ Count(hs, 0) = 0 /\ Count(hs, i) \in Nat
           /\ Kept(hs, i + 1) = IF Asking!Sent(hs[i + 1]) THEN Kept(hs, i) \cup {i + 1}
                                ELSE Kept(hs, i)
           /\ Count(hs, i + 1) = IF Asking!Sent(hs[i + 1]) THEN Count(hs, i) + 1
                                 ELSE Count(hs, i)
<1>1. Kept(hs, i + 1) = IF Asking!Sent(hs[i + 1]) THEN Kept(hs, i) \cup {i + 1} ELSE Kept(hs, i)
  BY DEF Kept
<1>2. IsFiniteSet(Kept(hs, i))
  <2>1. IsFiniteSet(1..i)
    BY FS_Interval
  <2>2. Kept(hs, i) \subseteq 1..i
    BY DEF Kept
  <2> QED BY <2>1, <2>2, FS_Subset
<1>3. Count(hs, i) \in Nat
  BY <1>2, FS_CardinalityType DEF Count
<1>4. i + 1 \notin Kept(hs, i)
  BY DEF Kept
<1>5. Cardinality(Kept(hs, i) \cup {i + 1}) = Cardinality(Kept(hs, i)) + 1
  BY <1>2, <1>4, FS_AddElement
<1>6. Kept(hs, 0) = {}
  BY DEF Kept
<1>7. Count(hs, 0) = 0
  BY <1>6, FS_EmptySet DEF Count
<1> QED BY <1>1, <1>3, <1>5, <1>7 DEF Count

\* What the first i turns of the loop have made of two lines.
Copy(a, b, hs, i, out) ==
    /\ out \in Seq(Asking!Lines \cup {a, b}) /\ Len(out) = 2 + Count(hs, i)
    /\ out[1] = a /\ out[2] = b
    /\ \A j \in Kept(hs, i) : Count(hs, j) \in 1..Count(hs, i) /\ out[2 + Count(hs, j)] = hs[j]
    /\ \A k \in 3..Len(out) : Asking!Sent(out[k])

\* One turn of the loop.
LEMMA CopyStep ==
    ASSUME NEW a, NEW b, NEW hs \in Seq(Asking!Lines), NEW i \in Nat, i + 1 \in 1..Len(hs),
           NEW out, Copy(a, b, hs, i, out)
    PROVE  Copy(a, b, hs, i + 1, IF Asking!Sent(hs[i + 1]) THEN Append(out, hs[i + 1]) ELSE out)
<1> DEFINE L == Asking!Lines \cup {a, b}
           h == hs[i + 1]
           c == Count(hs, i)
<1>1. h \in L /\ c \in Nat
  <2>1. \A j \in 1..Len(hs) : hs[j] \in Asking!Lines
    OBVIOUS
  <2>2. h \in Asking!Lines
    BY <2>1
  <2>3. c \in Nat
    BY CountStep
  <2> QED BY <2>2, <2>3
<1>2. CASE ~Asking!Sent(h)
  <2>1. Kept(hs, i + 1) = Kept(hs, i) /\ Count(hs, i + 1) = Count(hs, i)
    BY <1>2, CountStep
  <2> QED BY <1>2, <2>1 DEF Copy
<1>3. CASE Asking!Sent(h)
  <2> DEFINE new == Append(out, h)
  <2>1. Kept(hs, i + 1) = Kept(hs, i) \cup {i + 1} /\ Count(hs, i + 1) = c + 1
    BY <1>3, CountStep
  <2>2. out \in Seq(L) /\ Len(out) = 2 + c /\ out[1] = a /\ out[2] = b
    BY DEF Copy
  <2>3. /\ new \in Seq(L) /\ Len(new) = Len(out) + 1
        /\ \A k \in 1..Len(out) : new[k] = out[k]
        /\ new[Len(out) + 1] = h
    <3> HIDE DEF L, h, c
    <3> QED BY <1>1, <2>2, AppendProperties
  <2> HIDE DEF new
  <2>4. new[1] = a /\ new[2] = b /\ Len(new) = 2 + Count(hs, i + 1)
    BY <1>1, <2>1, <2>2, <2>3
  <2>5. ASSUME NEW j \in Kept(hs, i + 1)
        PROVE  Count(hs, j) \in 1..Count(hs, i + 1) /\ new[2 + Count(hs, j)] = hs[j]
    <3>1. CASE j \in Kept(hs, i)
      <4>1. Count(hs, j) \in 1..c /\ out[2 + Count(hs, j)] = hs[j]
        BY <3>1 DEF Copy
      <4>2. 2 + Count(hs, j) \in 1..Len(out) /\ Count(hs, j) \in 1..(c + 1)
        <5> DEFINE d == Count(hs, j)
        <5> HIDE DEF d, c
        <5> QED BY <4>1, <1>1, <2>2 DEF d
      <4> QED BY <4>1, <4>2, <2>1, <2>3
    <3>2. CASE j = i + 1
      <4>1. Count(hs, j) = c + 1 /\ 2 + Count(hs, j) = Len(out) + 1
        BY <3>2, <2>1, <2>2, <1>1
      <4>2. c + 1 \in 1..(c + 1)
        BY <1>1
      <4> QED BY <3>2, <4>1, <4>2, <2>1, <2>3
    <3> QED BY <3>1, <3>2, <2>1
  <2>6. ASSUME NEW k \in 3..Len(new) PROVE Asking!Sent(new[k])
    <3>1. k \in 3..Len(out) \/ k = Len(out) + 1
      <4>1. Len(out) \in Nat /\ Len(new) = Len(out) + 1
        BY <2>2, <2>3, <1>1
      <4> QED BY <4>1
    <3>2. CASE k \in 3..Len(out)
      <4>1. new[k] = out[k]
        BY <3>2, <2>3
      <4> QED BY <3>2, <4>1 DEF Copy
    <3>3. CASE k = Len(out) + 1
      BY <3>3, <1>3, <2>3
    <3> QED BY <3>1, <3>2, <3>3
  <2>7. Copy(a, b, hs, i + 1, new)
    BY <2>3, <2>4, <2>5, <2>6 DEF Copy
  <2> QED BY <1>3, <2>7 DEF new
<1> QED BY <1>2, <1>3

\* The whole loop.
LEMMA CopyAll ==
    ASSUME NEW a, NEW b, NEW hs \in Seq(Asking!Lines)
    PROVE  Copy(a, b, hs, Len(hs), Asking!Copied(<<a, b>>, hs))
<1> DEFINE F == CHOOSE out : Copying(<<a, b>>, hs, Len(hs), out)
<1>0. Len(hs) \in Nat
  OBVIOUS
<1>1. Copying(<<a, b>>, hs, Len(hs), F)
  BY <1>0, CopyingExists, Zenon
<1>2. Asking!Copied(<<a, b>>, hs) = F[Len(hs)]
  BY DEF Asking!Copied, Copying
<1> HIDE DEF F
<1>3. \A i \in 0..Len(hs) : F[i] = IF i = 0 THEN <<a, b>>
                                   ELSE IF Asking!Sent(hs[i]) THEN Append(F[i - 1], hs[i])
                                   ELSE F[i - 1]
  BY <1>1 DEF Copying
<1>4. \A i \in 0..Len(hs) : Copy(a, b, hs, i, F[i])
  <2> DEFINE T == {i \in 0..Len(hs) : ~ Copy(a, b, hs, i, F[i])}
  <2> SUFFICES ASSUME T # {} PROVE FALSE
    OBVIOUS
  <2>1. PICK i \in T : \A y \in T : i <= y
    <3>1. T \subseteq Nat
      BY <1>0
    <3> HIDE DEF T
    <3> QED BY <3>1, Least
  <2>2. i \in 0..Len(hs) /\ ~ Copy(a, b, hs, i, F[i])
    OBVIOUS
  <2>3. CASE i = 0
    <3>1. F[0] = <<a, b>>
      BY <1>0, <1>3
    <3>2. Count(hs, 0) = 0 /\ Kept(hs, 0) = {}
      BY CountStep DEF Kept
    <3>3. Copy(a, b, hs, 0, <<a, b>>)
      BY <3>2 DEF Copy
    <3> QED BY <2>2, <2>3, <3>1, <3>3
  <2>4. CASE i # 0
    <3> DEFINE p == i - 1
    <3>1. p \in 0..Len(hs) /\ p \in Nat /\ ~(p \in T) /\ p + 1 = i /\ i \in 1..Len(hs)
      BY <1>0, <2>1, <2>2, <2>4
    <3>2. Copy(a, b, hs, p, F[p])
      BY <3>1
    <3>3. F[i] = IF Asking!Sent(hs[i]) THEN Append(F[p], hs[i]) ELSE F[p]
      BY <1>3, <2>2, <2>4
    <3> HIDE DEF T, p
    <3> QED BY <2>2, <3>1, <3>2, <3>3, CopyStep
  <2> QED BY <2>3, <2>4
<1> QED BY <1>0, <1>2, <1>4

\* What a Request or its builder holds.
Requests == [method : Asking!Methods, version : Asking!Versions, uri : Asking!Uris,
             headers : Seq(Asking!Lines), body : {"None", "Some"}]

\* The invariant holds at the start.
LEMMA InitAsked == Asking!Init => Asking!IInv
<1> SUFFICES ASSUME Asking!Init PROVE Asking!IInv
  OBVIOUS
<1>1. [scheme |-> "none", host |-> Asking!NoHost, path |-> "/"] \in Asking!Uris
  BY DEF Asking!Uris
<1>2. Asking!Default \in Requests
  <2>1. "GET" \in Asking!Methods /\ "HTTP/1.1" \in Asking!Versions
    BY DEF Asking!Methods, Asking!Versions
  <2>2. <<>> \in Seq(Asking!Lines)
    OBVIOUS
  <2> QED BY <1>1, <2>1, <2>2 DEF Asking!Default, Requests
<1>3. Asking!Default.headers = <<>>
  BY DEF Asking!Default
<1> QED BY <1>2, <1>3 DEF Asking!Init, Asking!IInv, Requests, Asking!HeadAsAsked, Asking!HostIsThere

\* The property, of a head, the host and the headers asked for.
Made(hd, host, hs) ==
    /\ \A i \in DOMAIN hd : hd[i].name.lower = "host" <=> i = 1
    /\ hd[1].value = host /\ hd[2] = Asking!Line("connection", "close")
    /\ Len(hd) = 2 + Count(hs, Len(hs))
    /\ \A i \in Kept(hs, Len(hs)) : hd[2 + Count(hs, i)] = hs[i]

\* HeadAsAsked in those words,
LEMMA AskedIsMade ==
    Asking!HeadAsAsked <=> (stage = "written" => Made(rest, req.uri.host, asked))
<1>1. ASSUME NEW i PROVE Asking!Others(i) = Kept(asked, i)
  BY DEF Asking!Others, Kept, Asking!Sent
<1>2. ASSUME NEW i PROVE Asking!Cardinality(Asking!Others(i)) = Count(asked, i)
  <2>1. ASSUME NEW S PROVE Asking!Cardinality(S) = Cardinality(S)
    BY Zenon DEF Asking!Cardinality, Cardinality
  <2> QED BY <1>1, <2>1 DEF Count
<1> QED BY <1>1, <1>2 DEF Asking!HeadAsAsked, Made

\* and after a step.
LEMMA AskedIsMadeNext ==
    (Asking!HeadAsAsked <=> (stage = "written" => Made(rest, req.uri.host, asked)))'
BY AskedIsMade, PTL

\* build_req makes the head that was asked for.
LEMMA HeadMade ==
    ASSUME Asking!IInv, Asking!BuildReq
    PROVE  Asking!IInv'
<1> DEFINE a == Asking!Line("host", req.uri.host)
           b == Asking!Line("connection", "close")
<1>1. req \in Requests /\ req.headers = asked /\ asked \in Seq(Asking!Lines)
  BY DEF Asking!IInv, Requests
<1>2. /\ req' = req /\ asked' = asked /\ stage' = "written"
      /\ rest' = Asking!Copied(<<a, b>>, asked)
  BY <1>1 DEF Asking!IInv, Asking!BuildReq
<1>3. Copy(a, b, asked, Len(asked), rest')
  BY <1>1, <1>2, CopyAll
<1>5. /\ a.name.lower = "host" /\ a.value = req.uri.host
      /\ b.name.lower # "host"
  BY DEF Asking!Line
<1> HIDE DEF a, b
<1>6. Len(rest') \in Nat /\ DOMAIN (rest') = 1..Len(rest') /\ Len(rest') >= 2
      /\ rest'[1] = a /\ rest'[2] = b
  <2>1. Count(asked, Len(asked)) \in Nat
    <3>1. Len(asked) \in Nat
      BY <1>1
    <3> QED BY <3>1, CountStep
  <2>2. rest' \in Seq(Asking!Lines \cup {a, b}) /\ Len(rest') = 2 + Count(asked, Len(asked))
    BY <1>3 DEF Copy
  <2> QED BY <1>3, <2>1, <2>2 DEF Copy
<1>7. \A i \in DOMAIN (rest') : rest'[i].name.lower = "host" <=> i = 1
  <2> SUFFICES ASSUME NEW i \in 1..Len(rest')
               PROVE  rest'[i].name.lower = "host" <=> i = 1
    BY <1>6
  <2>1. i = 1 \/ i = 2 \/ i \in 3..Len(rest')
    BY <1>6
  <2>2. CASE i \in 3..Len(rest')
    <3>1. Asking!Sent(rest'[i])
      BY <1>3, <2>2 DEF Copy
    <3> QED BY <2>2, <3>1 DEF Asking!Sent
  <2> QED BY <1>5, <1>6, <2>1, <2>2
<1>8. Asking!HeadAsAsked'
  <2>1. rest'[1].value = req.uri.host /\ rest'[2] = Asking!Line("connection", "close")
    BY <1>5, <1>6 DEF b
  <2>2. Made(rest', req.uri.host, asked)
    BY <1>3, <1>7, <2>1 DEF Copy, Made
  <2> QED BY <1>2, <2>2, AskedIsMadeNext
<1> QED BY <1>1, <1>2, <1>8 DEF Asking!IInv, Requests, Asking!HostIsThere

\* Every step keeps the invariant.
LEMMA StepAsked == Asking!IInv /\ [Asking!Next]_Asking!vars => Asking!IInv'
<1> SUFFICES ASSUME Asking!IInv, [Asking!Next]_Asking!vars PROVE Asking!IInv'
  OBVIOUS
<1>0. req \in Requests /\ req.headers = asked /\ asked \in Seq(Asking!Lines)
  BY DEF Asking!IInv, Requests
<1>1. ASSUME NEW r \in Requests, req' = r, r.headers = asked', stage' # "written", stage' # "panic",
             stage' = "connected" => r.uri.host # Asking!NoHost
      PROVE  Asking!IInv'
  BY <1>1 DEF Asking!IInv, Requests, Asking!HeadAsAsked, Asking!HostIsThere
<1>2. ASSUME NEW v \in Asking!Versions, Asking!Version(v) PROVE Asking!IInv'
  <2>1. [req EXCEPT !.version = v] \in Requests
        /\ [req EXCEPT !.version = v].headers = asked
    BY <1>0 DEF Requests
  <2>2. req' = [req EXCEPT !.version = v] /\ asked' = asked /\ stage' = "building"
    BY <1>2 DEF Asking!Version
  <2> QED BY <1>1, <2>1, <2>2
<1>3. ASSUME NEW u \in Asking!Uris, Asking!Uri(u) PROVE Asking!IInv'
  <2>1. [req EXCEPT !.uri = u] \in Requests
        /\ [req EXCEPT !.uri = u].headers = asked
    BY <1>0 DEF Requests
  <2>2. req' = [req EXCEPT !.uri = u] /\ asked' = asked /\ stage' = "building"
    BY <1>3 DEF Asking!Uri
  <2> QED BY <1>1, <2>1, <2>2
<1>4. ASSUME NEW h \in Asking!Headers, Asking!Header(h) PROVE Asking!IInv'
  <2>1. Append(asked, h) \in Seq(Asking!Lines)
    <3>1. h \in Asking!Lines
      BY DEF Asking!Lines
    <3> QED BY <1>0, <3>1
  <2> DEFINE r == [req EXCEPT !.headers = Append(asked, h)]
  <2>2. r \in Requests /\ r.headers = Append(asked, h)
    BY <1>0, <2>1 DEF Requests
  <2>3. req' = r /\ asked' = Append(asked, h) /\ stage' = "building"
    BY <1>0, <1>4 DEF Asking!Header
  <2> HIDE DEF r
  <2> QED BY <1>1, <2>2, <2>3
<1>5. ASSUME NEW b \in {"None", "Some"}, Asking!Build(b) PROVE Asking!IInv'
  <2>1. [req EXCEPT !.body = b] \in Requests
        /\ [req EXCEPT !.body = b].headers = asked
    BY <1>0 DEF Requests
  <2>2. req' = [req EXCEPT !.body = b] /\ asked' = asked /\ stage' = "request"
    BY <1>5 DEF Asking!Build
  <2> QED BY <1>1, <2>1, <2>2
<1>6. ASSUME NEW m \in Asking!Methods, NEW u \in Asking!Uris, Asking!New(m, u)
      PROVE  Asking!IInv'
  <2> DEFINE s == <<Asking!UserAgent>>
             r == [method |-> m, version |-> "HTTP/1.0", uri |-> u,
                   headers |-> s, body |-> "None"]
  <2>1. s \in Seq(Asking!Lines)
    <3>1. Asking!UserAgent \in Asking!Lines
      BY DEF Asking!Lines
    <3> QED BY <3>1
  <2>2. "HTTP/1.0" \in Asking!Versions
    BY DEF Asking!Versions
  <2> HIDE DEF s
  <2>3. r \in Requests /\ r.headers = s
    BY <2>1, <2>2 DEF Requests
  <2>4. req' = r /\ asked' = s /\ stage' = "request"
    BY <1>6 DEF Asking!New, s
  <2> HIDE DEF r
  <2> QED BY <1>1, <2>3, <2>4
<1>7. CASE Asking!Connect
  <2>1. req' = req /\ asked' = asked /\ stage' \in {"refused", "connected"}
        /\ (stage' = "connected" => req.uri.host # Asking!NoHost)
    BY <1>7 DEF Asking!Connect, Asking!Refused
  <2> QED BY <1>0, <1>1, <2>1
<1>8. CASE Asking!ConnectFails
  <2>1. req' = req /\ asked' = asked /\ stage' = "refused"
    BY <1>8 DEF Asking!ConnectFails
  <2> QED BY <1>0, <1>1, <2>1
<1>9. CASE Asking!BuildReq
  BY <1>9, HeadMade
<1>10. CASE Asking!Done \/ UNCHANGED Asking!vars
  <2>1. UNCHANGED <<stage, req, asked, rest>>
    BY <1>10 DEF Asking!Done, Asking!vars
  <2>2. Asking!HeadAsAsked'
    <3>1. stage = "written" => Made(rest, req.uri.host, asked)
      BY AskedIsMade DEF Asking!IInv
    <3> QED BY <2>1, <3>1, AskedIsMadeNext
  <2> QED BY <1>0, <2>1, <2>2 DEF Asking!IInv, Requests, Asking!HostIsThere
<1> QED
  BY <1>2, <1>3, <1>4, <1>5, <1>6, <1>7, <1>8, <1>9, <1>10 DEF Asking!Next, Asking!BuildEmpty

\* It holds throughout.
LEMMA AlwaysAsked == Asking!Spec => []Asking!IInv
BY InitAsked, StepAsked, PTL DEF Asking!Spec

\* The head names the host connected to, once, and then has the headers that
\* were asked for, in their order.
THEOREM AsAsked == Asking!Spec => []HeadAsAsked
<1>1. Asking!IInv => HeadAsAsked
  <2>1. ASSUME NEW S PROVE Asking!Cardinality(S) = Cardinality(S)
    BY Zenon DEF Asking!Cardinality, Cardinality
  <2>2. ASSUME NEW i PROVE Asking!Others(i) = Others(i)
    BY DEF Asking!Others, Others
  <2>3. ASSUME NEW n, NEW v PROVE Asking!Line(n, v) = Line(n, v)
    BY DEF Asking!Line, Line
  <2> QED BY <2>1, <2>2, <2>3 DEF Asking!IInv, Asking!HeadAsAsked, HeadAsAsked
<1> QED BY <1>1, AlwaysAsked, PTL

\* The unwrap of the Uri's host in build_req never panics.
THEOREM HostThere == Asking!Spec => []HostIsThere
<1>1. Asking!IInv => HostIsThere
  BY DEF Asking!IInv, Asking!HostIsThere, HostIsThere
<1> QED BY <1>1, AlwaysAsked, PTL
=============================================================================
