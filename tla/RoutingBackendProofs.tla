------------------------ MODULE RoutingBackendProofs ------------------------
(***************************************************************************)
(* Proofs about GraphCompiler::compile with its backends, for every set of *)
(* graphs that can be built and every width of the number formats.         *)
(***************************************************************************)
EXTENDS RoutingBackend, FusionRulesProofs

-----------------------------------------------------------------------------
(* Powers of two                                                            *)

\* The recursion that defines Pow2 has a solution.
LEMMA Pow2Exists == \E f : f = [n \in Nat |-> IF n = 0 THEN 1 ELSE 2 * f[n - 1]]
<1> DEFINE Upto(n, f) == /\ DOMAIN f = 0 .. n
                         /\ \A y \in 0 .. n : f[y] = IF y = 0 THEN 1 ELSE 2 * f[y - 1]
           Bad == {n \in Nat : ~\E f : Upto(n, f)}
<1>1. Bad = {}
  <2> SUFFICES ASSUME Bad # {} PROVE FALSE
    OBVIOUS
  <2>1. PICK n \in Bad : \A m \in Bad : n <= m
    <3>1. Bad \in SUBSET Nat
      OBVIOUS
    <3> HIDE DEF Bad
    <3> QED BY <3>1, Least
  <2>2. n \in Nat /\ ~\E f : Upto(n, f)
    OBVIOUS
  <2>3. CASE n = 0
    <3> DEFINE e == [y \in 0 .. 0 |-> 1]
    <3>1. Upto(0, e)
      OBVIOUS
    <3> QED BY <2>2, <2>3, <3>1, Zenon
  <2>4. CASE n # 0
    <3>1. n - 1 \in Nat /\ ~(n <= n - 1)
      BY <2>2, <2>4
    <3>2. n - 1 \notin Bad
      BY <2>1, <3>1
    <3>3. PICK f : Upto(n - 1, f)
      BY <3>1, <3>2
    <3> DEFINE g == [y \in 0 .. n |-> IF y = 0 THEN 1 ELSE 2 * f[y - 1]]
    <3>4. ASSUME NEW y \in 0 .. n, y # 0 PROVE g[y - 1] = f[y - 1]
      <4>1. y - 1 \in 0 .. (n - 1) /\ y - 1 \in 0 .. n
        BY <2>2, <3>4
      <4> QED BY <3>3, <4>1
    <3>5. Upto(n, g)
      BY <3>4, Zenon
    <3> HIDE DEF g
    <3> QED BY <2>2, <3>5
  <2> QED BY <2>3, <2>4
<1> DEFINE F(n) == CHOOSE f : Upto(n, f)
<1>2. ASSUME NEW n \in Nat PROVE Upto(n, F(n))
  <2>1. \E f : Upto(n, f)
    BY <1>1
  <2> HIDE DEF Upto
  <2> QED BY <2>1
<1> HIDE DEF F
<1>3. ASSUME NEW n \in Nat, n # 0 PROVE F(n)[n - 1] = F(n - 1)[n - 1]
  <2> DEFINE Off == {y \in 0 .. (n - 1) : F(n)[y] # F(n - 1)[y]}
  <2> SUFFICES ASSUME Off # {} PROVE FALSE
    BY <1>3
  <2>1. PICK y \in Off : \A z \in Off : y <= z
    <3>1. Off \in SUBSET Nat
      OBVIOUS
    <3> HIDE DEF Off
    <3> QED BY <3>1, Least
  <2>2. /\ y \in 0 .. (n - 1) /\ y \in 0 .. n /\ n - 1 \in Nat
        /\ F(n)[y] # F(n - 1)[y]
    BY <1>3
  <2>3. /\ F(n)[y] = IF y = 0 THEN 1 ELSE 2 * F(n)[y - 1]
        /\ F(n - 1)[y] = IF y = 0 THEN 1 ELSE 2 * F(n - 1)[y - 1]
    BY <1>2, <2>2
  <2>4. y # 0
    BY <2>2, <2>3
  <2>5. y - 1 \in 0 .. (n - 1) /\ ~(y <= y - 1)
    BY <2>2, <2>4
  <2>6. y - 1 \notin Off
    BY <2>1, <2>5
  <2> QED BY <2>2, <2>3, <2>4, <2>5, <2>6
<1> DEFINE P == [n \in Nat |-> F(n)[n]]
<1>4. ASSUME NEW n \in Nat PROVE P[n] = IF n = 0 THEN 1 ELSE 2 * P[n - 1]
  <2>1. n \in 0 .. n /\ (n # 0 => n - 1 \in Nat)
    OBVIOUS
  <2>2. F(n)[n] = IF n = 0 THEN 1 ELSE 2 * F(n)[n - 1]
    BY <1>2, <2>1
  <2> QED BY <1>3, <2>1, <2>2
<1>5. P = [n \in Nat |-> IF n = 0 THEN 1 ELSE 2 * P[n - 1]]
  BY <1>4
<1> HIDE DEF P
<1> QED BY <1>5

LEMMA Pow2Is ==
    /\ Pow2[0] = 1
    /\ \A n \in Nat : Pow2[n + 1] = 2 * Pow2[n]
<1>1. Pow2 = CHOOSE f : f = [n \in Nat |-> IF n = 0 THEN 1 ELSE 2 * f[n - 1]]
  BY DEF Pow2
<1>2. Pow2 = [n \in Nat |-> IF n = 0 THEN 1 ELSE 2 * Pow2[n - 1]]
  BY <1>1, Pow2Exists
<1>3. Pow2[0] = 1
  BY <1>2
<1>4. ASSUME NEW n \in Nat PROVE Pow2[n + 1] = 2 * Pow2[n]
  <2>1. n + 1 \in Nat /\ n + 1 # 0 /\ (n + 1) - 1 = n
    OBVIOUS
  <2> QED BY <1>2, <2>1
<1> QED BY <1>3, <1>4

\* A power of two is a positive number.
LEMMA Pow2Type == \A n \in Nat : Pow2[n] \in Nat \ {0}
<1> DEFINE Bad == {n \in Nat : Pow2[n] \notin Nat \ {0}}
<1> SUFFICES ASSUME Bad # {} PROVE FALSE
  OBVIOUS
<1>1. PICK n \in Bad : \A m \in Bad : n <= m
  <2>1. Bad \in SUBSET Nat
    OBVIOUS
  <2> HIDE DEF Bad
  <2> QED BY <2>1, Least
<1>2. n \in Nat /\ n # 0
  BY Pow2Is
<1>3. n - 1 \in Nat /\ ~(n <= n - 1) /\ (n - 1) + 1 = n
  BY <1>2
<1>4. Pow2[n - 1] \in Nat \ {0}
  BY <1>1, <1>3
<1>5. Pow2[n] = 2 * Pow2[n - 1]
  BY <1>3, Pow2Is
<1> QED BY <1>4, <1>5

\* The powers multiply.
LEMMA Pow2Sum == ASSUME NEW a \in Nat PROVE \A b \in Nat : Pow2[a + b] = Pow2[a] * Pow2[b]
<1> DEFINE Bad == {b \in Nat : Pow2[a + b] # Pow2[a] * Pow2[b]}
<1> SUFFICES ASSUME Bad # {} PROVE FALSE
  OBVIOUS
<1>1. PICK n \in Bad : \A m \in Bad : n <= m
  <2>1. Bad \in SUBSET Nat
    OBVIOUS
  <2> HIDE DEF Bad
  <2> QED BY <2>1, Least
<1>2. n \in Nat /\ Pow2[a + n] # Pow2[a] * Pow2[n]
  OBVIOUS
<1>3. n # 0
  <2>1. a + 0 = a /\ Pow2[a] * 1 = Pow2[a]
    BY Pow2Type
  <2> QED BY <1>2, <2>1, Pow2Is
<1>4. /\ n - 1 \in Nat /\ ~(n <= n - 1) /\ (n - 1) + 1 = n
      /\ a + (n - 1) \in Nat /\ (a + (n - 1)) + 1 = a + n
  BY <1>2, <1>3
<1>5. Pow2[a + (n - 1)] = Pow2[a] * Pow2[n - 1]
  BY <1>1, <1>4
<1>6. Pow2[n] = 2 * Pow2[n - 1] /\ Pow2[a + n] = 2 * Pow2[a + (n - 1)]
  BY <1>4, Pow2Is
<1>7. Pow2[a] \in Nat /\ Pow2[n - 1] \in Nat
  BY <1>4, Pow2Type
<1>8. \A x, y \in Nat : 2 * (x * y) = x * (2 * y)
  OBVIOUS
<1> QED BY <1>2, <1>5, <1>6, <1>7, <1>8

\* The powers grow.
LEMMA Pow2Grows == ASSUME NEW a \in Nat, NEW b \in Nat, a <= b PROVE Pow2[a] <= Pow2[b]
<1>1. b - a \in Nat /\ a + (b - a) = b
  OBVIOUS
<1>2. Pow2[b] = Pow2[a] * Pow2[b - a]
  BY <1>1, Pow2Sum
<1>3. Pow2[a] \in Nat /\ Pow2[b - a] \in Nat \ {0}
  BY <1>1, Pow2Type
<1>4. \A x \in Nat, y \in Nat \ {0} : x <= x * y
  OBVIOUS
<1> QED BY <1>2, <1>3, <1>4

-----------------------------------------------------------------------------
(* The conversions                                                          *)

\* The bounds of a quotient and of its rest.
LEMMA DivBounds ==
    ASSUME NEW n \in Nat, NEW p \in Nat \ {0}
    PROVE  /\ p <= n /\ n < 2 * p => n \div p = 1
           /\ n \div p = 1 => p <= n /\ n < 2 * p /\ n % p = n - p
<1>1. ASSUME NEW q \in Nat, NEW r \in 0 .. (p - 1) PROVE (q * p + r) \div p = q /\ (q * p + r) % p = r
  OBVIOUS
<1>2. ASSUME p <= n, n < 2 * p PROVE n \div p = 1 /\ n % p = n - p
  <2>1. n - p \in 0 .. (p - 1) /\ 1 * p + (n - p) = n
    BY <1>2
  <2> QED BY <1>1, <2>1
<1>3. ASSUME n < p PROVE n \div p = 0
  <2>1. n \in 0 .. (p - 1) /\ 0 * p + n = n
    BY <1>3
  <2> QED BY <1>1, <2>1
<1>4. ASSUME 2 * p <= n PROVE n \div p # 1
  <2>1. n \div p = 1 + ((n - p) \div p)
    OBVIOUS
  <2>2. n - p >= p
    BY <1>4
  <2>3. (n - p) \div p # 0
    BY <2>2
  <2> QED BY <2>1, <2>3
<1> QED BY <1>2, <1>3, <1>4

\* The widths, and the facts about the formats that the conversions rest on.
LEMMA Widths ==
    /\ ExpBits \in Nat \ {0} /\ ManBits \in Nat \ {0}
    /\ WideExpBits \in Nat \ {0} /\ WideManBits \in Nat \ {0}
    /\ Shift \in Nat /\ WideManBits = ManBits + Shift
    /\ Pow2[ExpBits - 1] \in Nat \ {0} /\ Pow2[WideExpBits - 1] \in Nat \ {0}
    /\ Pow2[ManBits] \in Nat \ {0} /\ Pow2[Shift] \in Nat \ {0}
    /\ Pow2[WideManBits] = Pow2[ManBits] * Pow2[Shift]
    /\ Top(ExpBits) = 2 * Pow2[ExpBits - 1] - 1
    /\ Top(WideExpBits) = 2 * Pow2[WideExpBits - 1] - 1
    /\ Bias(ExpBits) = Pow2[ExpBits - 1] - 1
    /\ Bias(WideExpBits) = Pow2[WideExpBits - 1] - 1
    /\ Pow2[WideExpBits - 1] > Pow2[ExpBits - 1] + ManBits
<1>1. /\ ExpBits \in Nat \ {0} /\ ManBits \in Nat \ {0}
      /\ WideExpBits \in Nat \ {0} /\ WideManBits \in Nat \ {0}
      /\ Shift >= 0 /\ Bias(WideExpBits) > Bias(ExpBits) + ManBits
  BY HalfAssumption
<1>2. Shift \in Nat /\ WideManBits = ManBits + Shift
  BY <1>1 DEF Shift
<1>3. /\ ExpBits - 1 \in Nat /\ (ExpBits - 1) + 1 = ExpBits
      /\ WideExpBits - 1 \in Nat /\ (WideExpBits - 1) + 1 = WideExpBits
  BY <1>1
<1>4. /\ Pow2[ExpBits] = 2 * Pow2[ExpBits - 1]
      /\ Pow2[WideExpBits] = 2 * Pow2[WideExpBits - 1]
  BY <1>3, Pow2Is
<1>5. /\ Pow2[ExpBits - 1] \in Nat \ {0} /\ Pow2[WideExpBits - 1] \in Nat \ {0}
      /\ Pow2[ManBits] \in Nat \ {0} /\ Pow2[Shift] \in Nat \ {0}
  BY <1>1, <1>2, <1>3, Pow2Type
<1>6. Pow2[WideManBits] = Pow2[ManBits] * Pow2[Shift]
  BY <1>1, <1>2, Pow2Sum
<1>7. /\ Top(ExpBits) = 2 * Pow2[ExpBits - 1] - 1
      /\ Top(WideExpBits) = 2 * Pow2[WideExpBits - 1] - 1
  BY <1>4 DEF Top
<1>8. /\ Bias(ExpBits) = Pow2[ExpBits - 1] - 1
      /\ Bias(WideExpBits) = Pow2[WideExpBits - 1] - 1
  BY DEF Bias
<1> QED BY <1>1, <1>2, <1>5, <1>6, <1>7, <1>8

\* The loop on a subnormal finds its k: there is one, and with it the mantissa
\* starts at bit ManBits.
LEMMA ShiftFound ==
    ASSUME NEW m \in 1 .. (Pow2[ManBits] - 1)
    PROVE  /\ \E k \in 1 .. ManBits : (m * Pow2[k]) \div Pow2[ManBits] = 1
           /\ \A k \in 1 .. ManBits : (m * Pow2[k]) \div Pow2[ManBits] = 1 =>
                /\ m * Pow2[k] \in Pow2[ManBits] .. (2 * Pow2[ManBits] - 1)
                /\ (m * Pow2[k]) % Pow2[ManBits] = m * Pow2[k] - Pow2[ManBits]
<1> DEFINE p == Pow2[ManBits]
           Big == {k \in Nat : m * Pow2[k] >= p}
<1>1. p \in Nat \ {0} /\ m \in Nat \ {0} /\ m < p /\ ManBits \in Nat \ {0}
  BY Widths
<1>2. \A k \in Nat : m * Pow2[k] \in Nat
  BY <1>1, Pow2Type
<1>3. ManBits \in Big
  <2>1. \A x \in Nat \ {0}, y \in Nat : x * y >= y
    OBVIOUS
  <2> QED BY <1>1, <2>1
<1>4. PICK k \in Big : \A j \in Big : k <= j
  <2>1. Big \in SUBSET Nat /\ Big # {}
    BY <1>3
  <2> HIDE DEF Big
  <2> QED BY <2>1, Least
<1>5. k \in Nat /\ k <= ManBits /\ m * Pow2[k] >= p
  BY <1>3, <1>4
<1>6. k # 0
  BY <1>1, <1>5, Pow2Is
<1>7. k \in 1 .. ManBits /\ k - 1 \in Nat /\ (k - 1) + 1 = k /\ ~(k <= k - 1)
  BY <1>1, <1>5, <1>6
<1>8. m * Pow2[k - 1] < p
  BY <1>1, <1>2, <1>4, <1>7
<1>9. Pow2[k] = 2 * Pow2[k - 1] /\ Pow2[k - 1] \in Nat
  BY <1>7, Pow2Is, Pow2Type
<1>10. m * Pow2[k] < 2 * p
  <2>1. \A x, y \in Nat : x * (2 * y) = 2 * (x * y)
    OBVIOUS
  <2> QED BY <1>1, <1>2, <1>7, <1>8, <1>9, <2>1
<1> HIDE DEF p
<1>11. (m * Pow2[k]) \div p = 1
  BY <1>1, <1>2, <1>5, <1>10, DivBounds, Zenon
<1>12. ASSUME NEW j \in 1 .. ManBits, (m * Pow2[j]) \div p = 1
       PROVE  m * Pow2[j] \in p .. (2 * p - 1) /\ (m * Pow2[j]) % p = m * Pow2[j] - p
  <2>1. m * Pow2[j] \in Nat
    BY <1>2
  <2>2. p <= m * Pow2[j] /\ m * Pow2[j] < 2 * p /\ (m * Pow2[j]) % p = m * Pow2[j] - p
    BY <1>1, <1>12, <2>1, DivBounds
  <2> QED BY <1>1, <2>1, <2>2
<1> QED BY <1>7, <1>11, <1>12 DEF p

\* A mantissa of the narrow format, moved up, fits the wide one.
LEMMA ManFits ==
    ASSUME NEW m \in 0 .. Top(ManBits)
    PROVE  /\ m \in Nat /\ m < Pow2[ManBits]
           /\ m * Pow2[Shift] \in 0 .. Top(WideManBits)
           /\ m * Pow2[Shift] = 0 <=> m = 0
           /\ (m * Pow2[Shift]) \div Pow2[Shift] = m
<1>1. m \in Nat /\ m <= Pow2[ManBits] - 1 /\ Pow2[Shift] \in Nat \ {0} /\ Pow2[ManBits] \in Nat \ {0}
  BY Widths DEF Top
<1>2. ASSUME NEW x \in Nat, NEW y \in Nat, NEW z \in Nat \ {0}, x <= y - 1
      PROVE  x * z \in 0 .. (y * z - 1)
  <2> DEFINE a == x * z
             b == y * z
             c == (y - 1) * z
  <2>1. a \in Int /\ b \in Int /\ a >= 0 /\ z \in Int /\ z >= 1
    BY <1>2
  <2>2. a <= c
    BY <1>2
  <2>3. c = b - z
    BY <1>2
  <2> HIDE DEF a, b, c
  <2>4. a \in 0 .. (b - 1)
    BY <2>1, <2>2, <2>3
  <2> QED BY <2>4 DEF a, b
<1>3. m * Pow2[Shift] \in 0 .. (Pow2[ManBits] * Pow2[Shift] - 1)
  BY <1>1, <1>2
<1>4. \A x \in Nat, z \in Nat \ {0} : (x * z) \div z = x /\ (x * z = 0 <=> x = 0)
  OBVIOUS
<1>5. m * Pow2[Shift] \in 0 .. Top(WideManBits)
  BY <1>3, Widths DEF Top
<1>6. /\ m * Pow2[Shift] = 0 <=> m = 0
      /\ (m * Pow2[Shift]) \div Pow2[Shift] = m
  BY <1>1, <1>4
<1>7. m \in Nat /\ m < Pow2[ManBits]
  BY <1>1
<1> QED BY <1>5, <1>6, <1>7

\* fp16_to_fp32 keeps the value of every pattern.
LEMMA WidenKeeps == ASSUME half \in Halves PROVE WidenExact
<1> DEFINE m == half.man
           e == half.exp
           w == fp16_to_fp32(half)
           E == Pow2[ExpBits - 1]
           W == Pow2[WideExpBits - 1]
           M == Pow2[ManBits]
           S == Pow2[Shift]
           B == W - E
<1>1. /\ half.sign \in 0 .. 1 /\ e \in 0 .. Top(ExpBits) /\ m \in 0 .. Top(ManBits)
  BY DEF Halves, Pattern
<1>2. /\ m \in Nat /\ m < M
      /\ m * S \in 0 .. Top(WideManBits)
      /\ m * S = 0 <=> m = 0
  BY <1>1, ManFits
<1>3. /\ E \in Nat \ {0} /\ W \in Nat \ {0} /\ M \in Nat \ {0} /\ S \in Nat \ {0}
      /\ Top(ExpBits) = 2 * E - 1 /\ Top(WideExpBits) = 2 * W - 1
      /\ Bias(ExpBits) = E - 1 /\ Bias(WideExpBits) = W - 1
      /\ B \in Nat /\ B > ManBits
      /\ ManBits \in Nat \ {0} /\ Shift \in Nat /\ WideManBits \in Nat
      /\ WideManBits = ManBits + Shift /\ Pow2[WideManBits] = M * S
      /\ Top(WideManBits) = M * S - 1
  BY Widths DEF Top
\* The units of the two formats.
<1>4. /\ Bias(WideExpBits) + WideManBits - Bias(WideExpBits) - WideManBits = 0
      /\ Bias(WideExpBits) + WideManBits - Bias(ExpBits) - ManBits = B + Shift
      /\ B + Shift \in Nat
  BY <1>3
<1>5. /\ Magnitude(half, ExpBits, ManBits) =
           IF e = 0 THEN m * Pow2[B + Shift] ELSE (M + m) * Pow2[e - 1 + (B + Shift)]
      /\ Magnitude(w, WideExpBits, WideManBits) =
           IF w.exp = 0 THEN w.man * Pow2[0] ELSE (M * S + w.man) * Pow2[w.exp - 1 + 0]
  BY <1>3, <1>4 DEF Magnitude
<1>6. Pow2[B + Shift] = Pow2[B] * S /\ Pow2[B] \in Nat
  BY <1>3, Pow2Sum, Pow2Type, Zenon
<1>7. CASE e = 0 /\ m = 0
  <2>0. e # Top(ExpBits)
    BY <1>3, <1>7
  <2>1. w = [sign |-> half.sign, exp |-> 0, man |-> 0]
    BY <1>7, <2>0 DEF fp16_to_fp32
  <2>2. /\ w \in Pattern(WideExpBits, WideManBits)
        /\ w.exp < Top(WideExpBits) /\ w.sign = half.sign /\ w.exp = 0 /\ w.man = 0
    BY <1>1, <1>2, <1>3, <2>1 DEF Pattern
  <2>4. 0 * Pow2[B + Shift] = 0 /\ 0 * Pow2[0] = 0
    BY <1>4, Pow2Type
  <2>5. Magnitude(w, WideExpBits, WideManBits) = Magnitude(half, ExpBits, ManBits)
    BY <1>5, <1>7, <2>2, <2>4
  <2> QED BY <2>2, <2>0, <2>5 DEF WidenExact
<1>8. CASE e = 0 /\ m # 0
  <2> DEFINE k == CHOOSE k \in 1 .. ManBits : (m * Pow2[k]) \div M = 1
             n == m * Pow2[k]
  <2>1. m \in 1 .. (M - 1)
    BY <1>2, <1>3, <1>8
  <2>2. k \in 1 .. ManBits /\ n \div M = 1
    BY <2>1, ShiftFound
  <2>3. n \in M .. (2 * M - 1) /\ n % M = n - M
    BY <2>1, <2>2, ShiftFound, Zenon
  <2>0. e # Top(ExpBits)
    BY <1>3, <1>8
  <2>4. w = [sign |-> half.sign, exp |-> 1 - k + Bias(WideExpBits) - Bias(ExpBits),
             man |-> (n % M) * S]
    BY <1>8, <2>0 DEF fp16_to_fp32
  <2> HIDE DEF k, n
  <2>5. /\ k \in Nat /\ B - k \in Nat /\ 1 - k + Bias(WideExpBits) - Bias(ExpBits) = 1 + (B - k)
        /\ 1 + (B - k) \in 1 .. (Top(WideExpBits) - 1)
    BY <1>3, <2>2
  <2>6. n - M \in 0 .. Top(ManBits)
    BY <1>3, <2>3 DEF Top
  <2>7. (n - M) * S \in 0 .. Top(WideManBits)
    BY <2>6, ManFits
  <2>8. w = [sign |-> half.sign, exp |-> 1 + (B - k), man |-> (n - M) * S]
    BY <2>3, <2>4, <2>5
  <2> HIDE DEF w, B
  <2>9. /\ w \in Pattern(WideExpBits, WideManBits)
        /\ w.exp < Top(WideExpBits) /\ w.sign = half.sign
        /\ w.exp # 0 /\ w.exp - 1 + 0 = B - k /\ w.man = (n - M) * S
    BY <1>1, <1>3, <2>5, <2>7, <2>8 DEF Pattern
  <2>10. Magnitude(w, WideExpBits, WideManBits) = (M * S + (n - M) * S) * Pow2[B - k]
    BY <1>5, <2>9
  <2>11. M * S + (n - M) * S = n * S
    BY <1>3, <2>3
  <2>12. Pow2[B] = Pow2[k] * Pow2[B - k] /\ Pow2[k] \in Nat /\ Pow2[B - k] \in Nat
    <3>1. k + (B - k) = B
      BY <1>3, <2>5
    <3> QED BY <2>5, <3>1, Pow2Sum, Pow2Type, Zenon
  <2>13. (n * S) * Pow2[B - k] = m * (Pow2[B] * S)
    <3>1. \A x, y, z, s \in Nat : ((x * y) * s) * z = x * ((y * z) * s)
      OBVIOUS
    <3> QED BY <1>2, <1>3, <2>12, <3>1 DEF n
  <2>14. Magnitude(w, WideExpBits, WideManBits) = Magnitude(half, ExpBits, ManBits)
    BY <1>5, <1>6, <1>8, <2>10, <2>11, <2>13
  <2> QED BY <2>9, <2>14, <2>0 DEF WidenExact, w
<1>9. CASE e = Top(ExpBits)
  <2>1. e # 0
    BY <1>3, <1>9
  <2>2. w = [sign |-> half.sign, exp |-> Top(WideExpBits), man |-> m * S]
    BY <1>9, <2>1 DEF fp16_to_fp32
  <2>3. Top(WideExpBits) \in 0 .. Top(WideExpBits)
    BY <1>3
  <2>4. /\ w \in Pattern(WideExpBits, WideManBits)
        /\ w.exp = Top(WideExpBits) /\ w.sign = half.sign /\ w.man = m * S
    BY <1>1, <1>2, <2>2, <2>3 DEF Pattern
  <2>5. ~(e < Top(ExpBits))
    BY <1>3, <1>9
  <2> QED BY <1>2, <2>4, <2>5 DEF WidenExact
<1>10. CASE e # 0 /\ e # Top(ExpBits)
  <2>1. w = [sign |-> half.sign, exp |-> e + Bias(WideExpBits) - Bias(ExpBits), man |-> m * S]
    BY <1>10 DEF fp16_to_fp32
  <2>2. /\ e + Bias(WideExpBits) - Bias(ExpBits) = e + B
        /\ e + B \in 1 .. (Top(WideExpBits) - 1)
        /\ e - 1 \in Nat
    BY <1>1, <1>3, <1>10
  <2> HIDE DEF w, B
  <2>3. /\ w \in Pattern(WideExpBits, WideManBits)
        /\ w.exp < Top(WideExpBits) /\ w.sign = half.sign
        /\ w.exp # 0 /\ w.exp - 1 + 0 = (e - 1) + B /\ w.man = m * S
    BY <1>1, <1>2, <1>3, <2>1, <2>2 DEF Pattern
  <2>4. /\ Magnitude(w, WideExpBits, WideManBits) = (M * S + m * S) * Pow2[(e - 1) + B]
        /\ Magnitude(half, ExpBits, ManBits) = (M + m) * Pow2[(e - 1) + (B + Shift)]
    BY <1>5, <1>10, <2>3
  <2>5. /\ Pow2[(e - 1) + (B + Shift)] = Pow2[(e - 1) + B] * S
        /\ Pow2[(e - 1) + B] \in Nat
    <3>1. (e - 1) + (B + Shift) = ((e - 1) + B) + Shift /\ (e - 1) + B \in Nat
      BY <1>3, <2>2
    <3> QED BY <1>3, <3>1, Pow2Sum, Pow2Type, Zenon
  <2>6. \A x, y, z, s \in Nat : (x * s + y * s) * z = (x + y) * (z * s)
    OBVIOUS
  <2>7. Magnitude(w, WideExpBits, WideManBits) = Magnitude(half, ExpBits, ManBits)
    BY <1>2, <1>3, <2>4, <2>5, <2>6
  <2> QED BY <1>10, <2>3, <2>7 DEF WidenExact, w
<1> QED BY <1>7, <1>8, <1>9, <1>10

\* What libane_matmul_f16 does to a weight and back.
LEMMA NarrowAfterWiden ==
    ASSUME half \in Halves
    PROVE  fp32_to_fp16(widen_weight(half)) =
             IF half.exp \in {0, Top(ExpBits)} THEN [half EXCEPT !.man = 0] ELSE half
<1> DEFINE m == half.man
           e == half.exp
           w == widen_weight(half)
           E == Pow2[ExpBits - 1]
           W == Pow2[WideExpBits - 1]
           S == Pow2[Shift]
           x == w.exp - Bias(WideExpBits) + Bias(ExpBits)
<1>1. /\ half = [sign |-> half.sign, exp |-> e, man |-> m]
      /\ e \in 0 .. Top(ExpBits) /\ m \in 0 .. Top(ManBits)
  BY DEF Halves, Pattern
<1>2. (m * S) \div S = m
  BY <1>1, ManFits
<1>3. /\ E \in Nat \ {0} /\ W \in Nat \ {0}
      /\ Top(ExpBits) = 2 * E - 1 /\ Top(WideExpBits) = 2 * W - 1
      /\ Bias(ExpBits) = E - 1 /\ Bias(WideExpBits) = W - 1
      /\ W > E
  BY Widths
<1>4. w.sign = half.sign /\ w.man = m * S
  BY DEF widen_weight
<1>5. w.exp = CASE e = 0 -> 0
                [] e = Top(ExpBits) -> Top(WideExpBits)
                [] OTHER -> e + Bias(WideExpBits) - Bias(ExpBits)
  BY DEF widen_weight
<1>6. fp32_to_fp16(w) =
        CASE x <= 0 -> [sign |-> w.sign, exp |-> 0, man |-> 0]
          [] x >= Top(ExpBits) -> [sign |-> w.sign, exp |-> Top(ExpBits), man |-> 0]
          [] OTHER -> [sign |-> w.sign, exp |-> x, man |-> w.man \div S]
  BY DEF fp32_to_fp16
<1>7. [half EXCEPT !.man = 0] = [sign |-> half.sign, exp |-> e, man |-> 0]
  BY <1>1
<1> HIDE DEF w, x
<1>8. CASE e = 0
  <2>1. w.exp = 0
    <3>1. e # Top(ExpBits)
      BY <1>3, <1>8
    <3> QED BY <1>5, <1>8, <3>1
  <2>2. x <= 0
    BY <1>3, <2>1 DEF x
  <2>3. x \in Int /\ ~(x >= Top(ExpBits))
    BY <1>3, <2>1 DEF x
  <2> QED BY <1>4, <1>6, <1>7, <1>8, <2>2, <2>3 DEF w
<1>9. CASE e = Top(ExpBits)
  <2>1. e # 0
    BY <1>3, <1>9
  <2>2. w.exp = Top(WideExpBits)
    BY <1>5, <1>9, <2>1
  <2>3. ~(x <= 0) /\ x >= Top(ExpBits)
    BY <1>3, <2>2 DEF x
  <2> QED BY <1>4, <1>6, <1>7, <1>9, <2>3 DEF w
<1>10. CASE e # 0 /\ e # Top(ExpBits)
  <2>1. w.exp = e + Bias(WideExpBits) - Bias(ExpBits)
    BY <1>5, <1>10
  <2>2. x = e /\ ~(x <= 0) /\ ~(x >= Top(ExpBits))
    BY <1>1, <1>3, <1>10, <2>1 DEF x
  <2> QED BY <1>1, <1>2, <1>4, <1>6, <1>10, <2>2 DEF w
<1> QED BY <1>8, <1>9, <1>10

LEMMA SurvivesFollows == half \in Halves => WeightsSurvive
<1> SUFFICES ASSUME half \in Halves PROVE WeightsSurvive
  OBVIOUS
<1>1. ASSUME half.man = 0 PROVE [half EXCEPT !.man = 0] = half
  BY <1>1 DEF Halves, Pattern
<1> QED BY <1>1, WidenKeeps, NarrowAfterWiden DEF WeightsSurvive

-----------------------------------------------------------------------------
(* The plan                                                                 *)

\* What the graph and the plan are while the groups are compiled, and the
\* weight.
BackInv == PlanInv /\ stage \in {"fuse", "compile", "ready", "rejected", "threw"} /\ half \in Halves

LEMMA BackStarts == Init => BackInv
<1> SUFFICES ASSUME Init PROVE BackInv
  OBVIOUS
<1>1. PICK g \in Graphs : /\ tensors = g.tensors /\ nodes = g.nodes
                          /\ inputs = g.inputs /\ outputs = g.outputs
                          /\ half = g.half
  BY DEF Init
<1>2. GraphTypeOK /\ half \in Halves
  BY <1>1, GraphsAssumption, Zenon DEF GraphTypeOK
<1>3. WellFormed /\ CheckWeights /\ stage = "fuse"
  BY DEF Init
<1>4. GraphInv
  BY <1>2, <1>3 DEF GraphInv
<1>5. errors = {} /\ in_degree = <<>> /\ queue = <<>> /\ done = <<>>
  BY DEF Init, ValidatorInit
<1>6. ValidatorInv
  BY <1>3, <1>5 DEF ValidatorInv, ValidatorTypeOK
<1>7. groups = <<>> /\ next = 1 /\ side = 0
  BY DEF Init, FuseInit
<1>8. Grouped(<<>>, 1, 0)
  BY <1>4, NoGroups, Lists
<1>9. FuseInv
  BY <1>3, <1>7, <1>8 DEF FuseInv
<1> QED BY <1>2, <1>3, <1>4, <1>6, <1>9 DEF BackInv, PlanInv

\* A step makes the plan or leaves it alone; only the planner changes it.
BackSteps ==
    \/ /\ Fuse /\ UNCHANGED <<milVars, espressoVars, allocVars, half>>
       /\ stage = "fuse" /\ stage' \in {"fuse", "compile", "rejected"}
    \/ /\ AllocStep /\ UNCHANGED <<milVars, espressoVars>> /\ stage = "compile" /\ stage' = "compile"
       /\ UNCHANGED <<graphVars, errors, topoVars, fuseVars, half>>
    \/ /\ Route /\ stage = "compile" /\ stage' \in {"compile", "rejected", "threw"}
       /\ UNCHANGED <<graphVars, errors, topoVars, fuseVars, half>>
    \/ /\ CompileEnd /\ stage = "compile" /\ stage' = "ready"
       /\ UNCHANGED <<graphVars, errors, topoVars, fuseVars, half>>
    \/ UNCHANGED vars

LEMMA BackCases == BackInv /\ [Next]_vars => BackSteps
<1> SUFFICES ASSUME BackInv, [Next]_vars PROVE BackSteps
  OBVIOUS
<1>1. CASE Fuse /\ UNCHANGED <<milVars, espressoVars, allocVars, half>>
  BY <1>1, PlanFuses DEF BackInv, BackSteps
<1>2. CASE AllocStep /\ UNCHANGED <<milVars, espressoVars>>
           /\ UNCHANGED <<graphVars, errors, topoVars, fuseVars, half>>
  <2>1. stage = "compile" /\ stage' = "compile"
    BY <1>2 DEF AllocStep, AllocBegin, AllocTurn
  <2> QED BY <1>2, <2>1 DEF BackSteps
<1>3. CASE Route /\ UNCHANGED <<graphVars, errors, topoVars, fuseVars, half>>
  <2>1. stage = "compile"
    BY <1>3 DEF Route
  <2>2. EspressoStep => stage' \in {"compile", "rejected"}
    BY <2>1 DEF EspressoStep, EspressoBegin, EspressoWrite, EspressoLoad
  <2>3. MilStep => stage' \in {"compile", "rejected", "threw"}
    BY <2>1 DEF MilStep, MilBegin, MilNode, MilNodeThrows, MilBuild, MilCompile
  <2>4. stage' \in {"compile", "rejected", "threw"}
    <3>1. EspressoStep \/ MilStep
      BY <1>3 DEF Route
    <3> QED BY <2>2, <2>3, <3>1
  <2> QED BY <1>3, <2>1, <2>4 DEF BackSteps
<1>4. CASE CompileEnd /\ UNCHANGED <<graphVars, errors, topoVars, fuseVars, half>>
  <2>1. stage = "compile" /\ stage' = "ready"
    BY <1>4 DEF CompileEnd
  <2> QED BY <1>4, <2>1 DEF BackSteps
<1>5. CASE UNCHANGED vars
  BY <1>5 DEF BackSteps
<1> QED BY <1>1, <1>2, <1>3, <1>4, <1>5 DEF Next, Done

LEMMA BackKeeps == BackInv /\ BackSteps => BackInv'
<1> SUFFICES ASSUME BackInv, BackSteps PROVE BackInv'
  OBVIOUS
<1>1. CASE Fuse /\ half' = half
  BY <1>1, PlanFuses DEF BackInv
<1>2. CASE /\ UNCHANGED <<graphVars, errors, topoVars, fuseVars, half>>
           /\ stage = "compile" /\ stage' \in {"compile", "ready", "rejected", "threw"}
  <2>1. UNCHANGED <<graphVars, errors, topoVars, fuseVars>> /\ half' = half
    BY <1>2
  <2>2. PlanInv'
    BY <1>2, <2>1, PlanSame DEF BackInv
  <2> QED BY <1>2, <2>1, <2>2 DEF BackInv
<1>3. CASE UNCHANGED vars
  <2>1. UNCHANGED <<graphVars, errors, topoVars, fuseVars>> /\ half' = half /\ stage' = stage
    BY <1>3 DEF vars, planVars
  <2>2. PlanInv'
    BY <2>1, PlanSame DEF BackInv
  <2> QED BY <2>1, <2>2 DEF BackInv
<1> QED BY <1>1, <1>2, <1>3 DEF BackSteps

\* PlanInv holds of RoutingBackend's plan too: a graph that was validated is
\* partitioned as GroupsPartition, NothingMissed and GroupsSupplied say, while
\* the backends compile it.
THEOREM BackInvariant == Spec => []BackInv
<1>1. Init => BackInv
  BY BackStarts
<1>2. BackInv /\ [Next]_vars => BackInv'
  BY BackCases, BackKeeps
<1> QED BY <1>1, <1>2, PTL DEF Spec

\* What GroupsPartition, NothingMissed and GroupsSupplied say of the planner,
\* for the compiler and its backends.
THEOREM BackendPlans == Spec => [](Partition /\ HiddenUnread /\ InputsSupplied)
<1>1. BackInv => Partition /\ HiddenUnread /\ InputsSupplied
  BY PartitionFollows, HiddenFollows, SuppliedFollows DEF BackInv
<1> QED BY <1>1, BackInvariant, PTL

\* Every weight survives fp16_to_fp32 exactly, and every normal number, zero and
\* infinity survives libane_matmul_f16's widening and narrowing, whatever the
\* widths of the formats (WeightsSurvive).
THEOREM HalvesSurvive == Spec => []WeightsSurvive
<1>1. BackInv => WeightsSurvive
  BY SurvivesFollows DEF BackInv
<1> QED BY <1>1, BackInvariant, PTL

-----------------------------------------------------------------------------
(* The size of the surfaces                                                 *)

\* Rounding up gives a number that is not smaller.
LEMMA RoundUpAbove ==
    ASSUME NEW x \in Nat, NEW k \in Nat \ {0}
    PROVE  RoundUp(x, k) \in Nat /\ RoundUp(x, k) >= x
<1> DEFINE n == x + k - 1
           q == n \div k
<1>1. n \in Nat
  OBVIOUS
<1> HIDE DEF n
<1>2. q \in Nat /\ k * q + k > n
  BY <1>1
<1> HIDE DEF q
<1>3. k * q \in Nat /\ q * k = k * q
  BY <1>2
<1>4. \A p \in Nat : p + k > n => p >= x
  BY DEF n
<1>5. RoundUp(x, k) = q * k
  BY DEF RoundUp, q, n
<1> QED BY <1>2, <1>3, <1>4, <1>5

\* The search starts at a size that holds every tensor.
LEMMA StartHolds ==
    ASSUME GraphInv
    PROVE  Start \in Nat /\ \A x \in TensorId : Start >= Bytes(ShapeOf(x))
<1> DEFINE size == Len(tensors)
           S(n) == {MinAlloc} \cup {Bytes(ShapeOf(x)) : x \in 1 .. n}
           Largest(m, n) == m \in S(n) /\ \A y \in S(n) : m >= y
           Bad == {n \in 0 .. size : ~\E m : Largest(m, n)}
<1>1. size \in Nat /\ TensorId = 1 .. size
  BY Lists DEF TensorId
<1>2. \A x \in 1 .. size : Bytes(ShapeOf(x)) \in Nat
  <2> TAKE x \in 1 .. size
  <2>1. tensors[x] \in TensorRec
    BY <1>1, Lists
  <2>2. ShapeOf(x) \in [c : Nat, s : Nat]
    BY <2>1, GraphAssumption DEF TensorRec, ShapeOf
  <2> QED BY <2>2 DEF Bytes
<1>3. MinAlloc \in Nat /\ Lane \in Nat \ {0}
  BY AllocAssumption
<1>4. \A n \in 0 .. size : S(n) \in SUBSET Nat
  BY <1>1, <1>2, <1>3
<1>5. Bad = {}
  <2> SUFFICES ASSUME Bad # {} PROVE FALSE
    BY Zenon
  <2>1. PICK n \in Bad : \A m \in Bad : n <= m
    <3>1. Bad \in SUBSET Nat
      BY <1>1
    <3> HIDE DEF Bad
    <3> QED BY <3>1, Least
  <2>2. n \in 0 .. size /\ ~\E m : Largest(m, n)
    OBVIOUS
  <2>3. CASE n = 0
    <3>1. S(0) = {MinAlloc}
      OBVIOUS
    <3>2. Largest(MinAlloc, 0)
      BY <1>3, <3>1
    <3> QED BY <2>2, <2>3, <3>2
  <2>4. CASE n # 0
    <3>1. n - 1 \in 0 .. size /\ ~(n <= n - 1) /\ n \in 1 .. size
      BY <1>1, <2>2, <2>4
    <3>2. PICK m : Largest(m, n - 1)
      BY <2>1, <3>1, Zenon
    <3> DEFINE b == Bytes(ShapeOf(n))
    <3>3. S(n) = S(n - 1) \cup {b}
      <4>1. 1 .. n = (1 .. (n - 1)) \cup {n}
        BY <1>1, <3>1
      <4> QED BY <4>1
    <3>4. b \in Nat /\ m \in Nat /\ \A y \in S(n - 1) : y \in Nat /\ m >= y
      BY <1>2, <1>4, <3>1, <3>2
    <3>5. m \in S(n - 1)
      BY <3>2
    <3> DEFINE t == IF b >= m THEN b ELSE m
    <3> HIDE DEF S, b
    <3>6. t \in S(n) /\ \A y \in S(n) : t >= y
      BY <3>3, <3>4, <3>5
    <3> QED BY <2>2, <3>6
  <2> QED BY <2>3, <2>4
<1>6. \E m : Largest(m, size)
  <2>1. size \in 0 .. size
    BY <1>1
  <2> QED BY <1>5, <2>1, Zenon
<1>7. Largest(Max(S(size)), size)
  <2> HIDE DEF S
  <2> QED BY <1>6 DEF Max
<1>8. S(size) = {MinAlloc} \cup {Bytes(ShapeOf(x)) : x \in TensorId}
  BY <1>1
<1>9. Max(S(size)) \in Nat /\ \A x \in TensorId : Max(S(size)) >= Bytes(ShapeOf(x))
  <2>1. \A x \in TensorId : Bytes(ShapeOf(x)) \in S(size)
    BY <1>1
  <2>2. size \in 0 .. size
    BY <1>1
  <2> DEFINE top == Max(S(size))
  <2>3. top \in S(size) /\ \A y \in S(size) : top >= y
    BY <1>7, Zenon
  <2>4. top \in Nat
    BY <1>4, <2>2, <2>3
  <2> HIDE DEF S, top
  <2>5. top \in Nat /\ \A x \in TensorId : top >= Bytes(ShapeOf(x))
    BY <2>1, <2>3, <2>4, Zenon
  <2> QED BY <2>5 DEF top
<1>10. Start = RoundUp(Max(S(size)), Lane)
  BY <1>8 DEF Start
<1> DEFINE top == Max(S(size))
<1> HIDE DEF top
<1>11. RoundUp(top, Lane) \in Nat /\ RoundUp(top, Lane) >= top
  <2>1. top \in Nat
    BY <1>9 DEF top
  <2> QED BY <1>3, <2>1, RoundUpAbove
<1>12. \A x \in TensorId : Start >= Bytes(ShapeOf(x))
  <2> TAKE x \in TensorId
  <2>1. top >= Bytes(ShapeOf(x)) /\ top \in Nat /\ Bytes(ShapeOf(x)) \in Nat
    BY <1>1, <1>2, <1>9 DEF top
  <2> QED BY <1>10, <1>11, <2>1 DEF top
<1> QED BY <1>10, <1>11, <1>12 DEF top

\* The turns of the loop: all the sizes before target have failed, and the
\* loop ends at one that suits or after MaxIter turns.
AllocInv ==
    /\ settled \in BOOLEAN
    /\ stage = "fuse" => target = 0
    /\ target = 0 => iter = 0 /\ ~settled
    /\ target # 0 =>
         /\ iter \in 0 .. MaxIter
         /\ target = Start + iter * Lane
         /\ \A k \in 0 .. (iter - 1) : ~SuitsAll(Start + k * Lane)
         /\ settled => iter = MaxIter \/ SuitsAll(target)

LEMMA AllocStarts == Init => AllocInv
BY Zenon DEF Init, AllocInit, AllocInv

\* The start of the search depends on the graph alone.
LEMMA StartSame ==
    ASSUME UNCHANGED graphVars
    PROVE  Start' = Start /\ \A t : SuitsAll(t)' = SuitsAll(t)
<1>1. tensors' = tensors /\ inputs' = inputs /\ outputs' = outputs
  BY DEF graphVars
<1>2. \A x : ShapeOf(x)' = ShapeOf(x)
  BY <1>1 DEF ShapeOf
<1>3. Start' = Start
  BY <1>1, <1>2, Zenon DEF Start, TensorId
<1>4. \A t, x : Suits(t, x)' = Suits(t, x)
  BY <1>2 DEF Suits
<1> QED BY <1>1, <1>3, <1>4 DEF SuitsAll

LEMMA AllocKeeps == BackInv /\ AllocInv /\ BackSteps => AllocInv'
<1> SUFFICES ASSUME BackInv, AllocInv, BackSteps PROVE AllocInv'
  OBVIOUS
<1>1. UNCHANGED graphVars
  BY DEF BackSteps, Fuse, vars, planVars
<1>2. Start' = Start /\ \A t : SuitsAll(t)' = SuitsAll(t)
  BY <1>1, StartSame
<1>3. CASE UNCHANGED allocVars /\ (stage' = stage \/ stage' # "fuse")
  BY <1>2, <1>3 DEF AllocInv, allocVars
<1>4. CASE AllocStep /\ stage' = "compile"
  <2>1. Start \in Nat /\ Lane \in Nat /\ MaxIter \in Nat \ {0} /\ settled \in BOOLEAN
    BY StartHolds, AllocAssumption DEF BackInv, PlanInv, AllocInv
  <2>2. CASE AllocBegin
    <3>1. target = 0 /\ target' = Start /\ iter' = iter /\ settled' = settled
      BY <2>2 DEF AllocBegin
    <3>2. iter = 0 /\ ~settled
      BY <3>1 DEF AllocInv
    <3>3. Start = Start + 0 * Lane /\ 0 \in 0 .. MaxIter /\ 0 .. (0 - 1) = {}
      BY <2>1
    <3> QED BY <1>2, <1>4, <2>1, <3>1, <3>2, <3>3 DEF AllocInv
  <2>3. CASE AllocTurn
    <3>1. /\ target # 0 /\ ~settled
          /\ iter \in 0 .. MaxIter /\ target = Start + iter * Lane
          /\ \A k \in 0 .. (iter - 1) : ~SuitsAll(Start + k * Lane)
      BY <2>3 DEF AllocTurn, AllocInv
    <3>2. CASE iter < MaxIter /\ ~SuitsAll(target)
      <4>1. target' = target + Lane /\ iter' = iter + 1 /\ settled' = settled
        BY <2>3, <3>2 DEF AllocTurn
      <4>2. /\ iter + 1 \in 0 .. MaxIter /\ (iter + 1) - 1 = iter
            /\ Start + iter * Lane + Lane = Start + (iter + 1) * Lane
        BY <2>1, <3>1, <3>2
      <4>3. \A k \in 0 .. iter : ~SuitsAll(Start + k * Lane)
        <5> TAKE k \in 0 .. iter
        <5>1. k = iter \/ k \in 0 .. (iter - 1)
          BY <3>1
        <5> QED BY <3>1, <3>2, <5>1
      <4>4. target' # 0
        BY <2>1, <3>1, <4>1, AllocAssumption
      <4> QED BY <1>2, <1>4, <3>1, <4>1, <4>2, <4>3, <4>4 DEF AllocInv
    <3>3. CASE ~(iter < MaxIter /\ ~SuitsAll(target))
      <4>1. settled' = TRUE /\ target' = target /\ iter' = iter
        BY <2>3, <3>3 DEF AllocTurn
      <4>2. iter = MaxIter \/ SuitsAll(target)
        BY <2>1, <3>1, <3>3
      <4> QED BY <1>2, <1>4, <3>1, <4>1, <4>2 DEF AllocInv
    <3> QED BY <3>2, <3>3
  <2> QED BY <1>4, <2>2, <2>3 DEF AllocStep
<1> QED BY <1>3, <1>4 DEF BackSteps, Route, CompileEnd, vars, planVars

LEMMA AllocFollows == BackInv /\ AllocInv => AllocRight
<1> SUFFICES ASSUME BackInv, AllocInv, settled PROVE AllocRight
  BY DEF AllocRight
<1>1. /\ Start \in Nat /\ Lane \in Nat \ {0} /\ MaxIter \in Nat \ {0}
      /\ \A x \in TensorId : Start >= Bytes(ShapeOf(x))
  BY StartHolds, AllocAssumption DEF BackInv, PlanInv
<1>2. /\ iter \in 0 .. MaxIter /\ target = Start + iter * Lane
      /\ \A k \in 0 .. (iter - 1) : ~SuitsAll(Start + k * Lane)
      /\ iter = MaxIter \/ SuitsAll(target)
  BY DEF AllocInv
<1>3. \A x \in TensorId : target >= Bytes(ShapeOf(x))
  <2>1. \A x \in TensorId : Bytes(ShapeOf(x)) \in Int
    <3> TAKE x \in TensorId
    <3>1. tensors[x] \in TensorRec
      BY Lists DEF BackInv, PlanInv
    <3>2. ShapeOf(x) \in [c : Nat, s : Nat]
      BY <3>1, GraphAssumption DEF TensorRec, ShapeOf
    <3> QED BY <3>2 DEF Bytes
  <2>2. target >= Start /\ target \in Int
    <3>1. iter * Lane \in Nat
      BY <1>1, <1>2
    <3> QED BY <1>1, <1>2, <3>1
  <2> QED BY <1>1, <2>1, <2>2
<1> DEFINE tried == {Start + k * Lane : k \in 0 .. (MaxIter - 1)}
           good == {t \in tried : SuitsAll(t)}
<1>4. target = IF good = {} THEN Start + MaxIter * Lane ELSE Min(good)
  <2>1. CASE iter = MaxIter
    <3>1. good = {}
      BY <1>2, <2>1
    <3> QED BY <1>2, <2>1, <3>1
  <2>2. CASE iter # MaxIter
    <3>1. iter \in 0 .. (MaxIter - 1) /\ SuitsAll(target)
      BY <1>1, <1>2, <2>2
    <3>2. target \in good
      BY <1>2, <3>1
    <3>3. ASSUME NEW t \in good PROVE t >= target /\ t \in Int
      <4>1. PICK k \in 0 .. (MaxIter - 1) : t = Start + k * Lane
        OBVIOUS
      <4>2. SuitsAll(Start + k * Lane)
        BY <4>1
      <4>3. k >= iter
        BY <1>1, <1>2, <4>2
      <4>4. k * Lane >= iter * Lane /\ k * Lane \in Int /\ iter * Lane \in Int
        BY <1>1, <1>2, <4>3
      <4> QED BY <1>1, <1>2, <4>1, <4>4
    <3> HIDE DEF good
    <3>4. \A t \in good : (\A y \in good : t <= y) => t = target
      BY <3>2, <3>3
    <3>5. target \in good /\ \A y \in good : target <= y
      BY <3>2, <3>3
    <3>6. Min(good) = target
      BY <3>4, <3>5 DEF Min
    <3> QED BY <3>2, <3>6
  <2> QED BY <2>1, <2>2
<1> QED BY <1>3, <1>4 DEF AllocRight

LEMMA AllocInvariant == Spec => []AllocInv
<1>1. Init => AllocInv
  BY AllocStarts
<1>2. BackInv /\ AllocInv /\ [Next]_vars => AllocInv'
  BY BackCases, AllocKeeps
<1> QED BY <1>1, <1>2, BackInvariant, PTL DEF Spec

\* GraphCompiler::compile gives every surface a size that holds every tensor
\* of the graph and is the first candidate that suits all its inputs and
\* outputs, or the last one tried (AllocRight).
THEOREM SurfacesHold == Spec => []AllocRight
<1>1. BackInv /\ AllocInv => AllocRight
  BY AllocFollows
<1> QED BY <1>1, AllocInvariant, BackInvariant, PTL

-----------------------------------------------------------------------------
(* The bundle                                                               *)

\* The files written so far have what the builder puts into them, and there are
\* no others; a bundle is begun only for a group that EspressoBackend owns.
EspressoInv ==
    /\ gi \in Nat \ {0}
    /\ espresso \in 0 .. 9
    /\ espresso = 0 /\ stage \in {"fuse", "compile"} => bundle = <<>>
    /\ espresso # 0 =>
         /\ stage = "compile" /\ settled /\ gi <= Len(groups) /\ EspressoOwns(Current)
         /\ DOMAIN bundle = {BundleFiles[k] : k \in 1 .. (espresso - 1)}
         /\ \A k \in 1 .. (espresso - 1) :
              bundle[BundleFiles[k]] = Contents(Builder, BundleFiles[k])

LEMMA EspressoStarts == Init => EspressoInv
BY DEF Init, EspressoInit, MilInit, EspressoInv

\* What is written depends on the graph, the groups and which one it is.
LEMMA BuilderSame ==
    ASSUME UNCHANGED <<graphVars, groups, gi>>
    PROVE  Builder' = Builder /\ EspressoOwns(Current)' = EspressoOwns(Current)
<1>1. tensors' = tensors /\ nodes' = nodes /\ groups' = groups /\ gi' = gi
  BY DEF graphVars
<1>2. Current' = Current /\ Only' = Only /\ \A x : ShapeOf(x)' = ShapeOf(x)
  BY <1>1 DEF Current, Only, ShapeOf
<1>3. IC' = IC /\ OC' = OC
  BY <1>1, <1>2 DEF IC, OC
<1>4. UserWeights(Only)' = UserWeights(Only)
  BY <1>1, <1>2 DEF UserWeights, WeightCount, IsMask
<1>5. Builder' = Builder
  BY <1>2, <1>3, <1>4 DEF Builder
<1>6. EspressoOwns(Current)' = EspressoOwns(Current)
  BY <1>1, <1>2 DEF EspressoOwns
<1> QED BY <1>5, <1>6

\* The names of the files differ.
LEMMA FilesDiffer ==
    /\ Len(BundleFiles) = 8 /\ DOMAIN BundleFiles = 1 .. 8
    /\ BundleFiles[4] = "net" /\ BundleFiles[5] = "shape"
    /\ BundleFiles[6] = "weights" /\ BundleFiles[7] = "metadata"
    /\ \A j, k \in 1 .. 8 : BundleFiles[j] = BundleFiles[k] => j = k
<1>1. /\ Len(BundleFiles) = 8 /\ DOMAIN BundleFiles = 1 .. 8
      /\ BundleFiles[1] = "model" /\ BundleFiles[2] = "analytics"
      /\ BundleFiles[3] = "neural_network_optionals"
      /\ BundleFiles[4] = "net" /\ BundleFiles[5] = "shape"
      /\ BundleFiles[6] = "weights" /\ BundleFiles[7] = "metadata"
      /\ BundleFiles[8] = "coremldata"
  BY DEF BundleFiles
<1>2. \A j \in 1 .. 8 : j = 1 \/ j = 2 \/ j = 3 \/ j = 4 \/ j = 5 \/ j = 6 \/ j = 7 \/ j = 8
  OBVIOUS
<1>3. ASSUME NEW j \in 1 .. 8, NEW k \in 1 .. 8, BundleFiles[j] = BundleFiles[k] PROVE j = k
  BY <1>1, <1>2, <1>3
<1> QED BY <1>1, <1>3

LEMMA EspressoKeeps == BackInv /\ AllocInv /\ EspressoInv /\ BackSteps => EspressoInv'
<1> SUFFICES ASSUME BackInv, AllocInv, EspressoInv, BackSteps PROVE EspressoInv'
  OBVIOUS
<1>1. UNCHANGED graphVars
  BY DEF BackSteps, Fuse, vars, planVars
<1>2. CASE /\ UNCHANGED <<milVars, espressoVars>>
           /\ espresso = 0 /\ (stage \in {"fuse", "compile"} \/ stage' = stage)
  BY <1>2 DEF EspressoInv, milVars, espressoVars
<1>3. CASE /\ UNCHANGED <<milVars, espressoVars, groups>> /\ espresso # 0
           /\ stage' = stage /\ settled' = settled
  <2>1. gi' = gi /\ espresso' = espresso /\ bundle' = bundle /\ groups' = groups
    BY <1>3 DEF milVars, espressoVars
  <2>2. Builder' = Builder /\ EspressoOwns(Current)' = EspressoOwns(Current)
    BY <1>1, <2>1, BuilderSame
  <2> QED BY <1>3, <2>1, <2>2 DEF EspressoInv
<1>4. CASE /\ stage = "compile" /\ settled /\ gi <= Len(groups) /\ EspressoOwns(Current)
           /\ EspressoStep /\ UNCHANGED <<graphVars, groups, settled>>
  <2>1. groups' = groups /\ settled' = settled /\ gi \in Nat \ {0}
    BY <1>4 DEF EspressoInv
  <2>2. CASE EspressoBegin
    <3>1. CASE espresso' = 1 /\ stage' = stage
      <4>1. gi' = gi /\ bundle' = bundle /\ espresso = 0
        BY <2>2 DEF EspressoBegin
      <4>2. bundle = <<>> /\ DOMAIN <<>> = {} /\ 1 .. (1 - 1) = {} /\ 1 \in 0 .. 9
        BY <1>4, <4>1 DEF EspressoInv
      <4>3. EspressoOwns(Current)' = EspressoOwns(Current)
        BY <1>1, <2>1, <4>1, BuilderSame
      <4> QED BY <1>4, <2>1, <3>1, <4>1, <4>2, <4>3 DEF EspressoInv
    <3>2. CASE stage' = "rejected" /\ espresso' = espresso
      BY <1>4, <2>1, <2>2, <3>2 DEF EspressoInv, EspressoBegin
    <3> QED BY <2>2, <3>1, <3>2 DEF EspressoBegin
  <2>3. CASE EspressoWrite
    <3>1. espresso \in 1 .. 8 /\ gi' = gi
      BY <2>3, FilesDiffer DEF EspressoWrite, Writing
    <3>2. Builder' = Builder /\ EspressoOwns(Current)' = EspressoOwns(Current)
      BY <1>1, <2>1, <3>1, BuilderSame
    <3> DEFINE file == BundleFiles[espresso]
    <3>3. CASE /\ bundle' = [f \in DOMAIN bundle \cup {file} |->
                               IF f = file THEN Contents(Builder, file) ELSE bundle[f]]
               /\ espresso' = espresso + 1 /\ stage' = stage
      <4>1. /\ DOMAIN bundle = {BundleFiles[k] : k \in 1 .. (espresso - 1)}
            /\ \A k \in 1 .. (espresso - 1) :
                 bundle[BundleFiles[k]] = Contents(Builder, BundleFiles[k])
        BY <3>1 DEF EspressoInv
      <4>2. /\ espresso' \in 0 .. 9 /\ espresso' # 0 /\ espresso' - 1 = espresso
            /\ \A k \in 1 .. espresso : k \in 1 .. (espresso - 1) \/ k = espresso
            /\ \A k \in 1 .. (espresso - 1) : k \in 1 .. espresso /\ k # espresso
            /\ 1 .. espresso \subseteq 1 .. 8 /\ espresso \in 1 .. espresso
        BY <3>1, <3>3
      <4>3. DOMAIN bundle' = {BundleFiles[k] : k \in 1 .. (espresso' - 1)}
        <5>1. DOMAIN bundle' = DOMAIN bundle \cup {file}
          BY <3>3
        <5>2. \A f : f \in DOMAIN bundle \cup {file} <=> \E k \in 1 .. espresso : f = BundleFiles[k]
          BY <4>1, <4>2
        <5> QED BY <4>2, <5>1, <5>2
      <4>4. ASSUME NEW k \in 1 .. (espresso' - 1)
            PROVE  bundle'[BundleFiles[k]] = Contents(Builder, BundleFiles[k])
        <5>1. k \in 1 .. espresso
          BY <4>2, Zenon
        <5>2. CASE k = espresso
          BY <3>3, <5>2
        <5>3. CASE k \in 1 .. (espresso - 1)
          <6>1. BundleFiles[k] # file
            BY <3>1, <4>2, <5>3, FilesDiffer
          <6>2. BundleFiles[k] \in DOMAIN bundle
            BY <4>1, <5>3
          <6> QED BY <3>3, <4>1, <5>3, <6>1, <6>2
        <5> QED BY <4>2, <5>1, <5>2, <5>3
      <4>5. stage' = "compile" /\ settled' /\ gi' <= Len(groups') /\ EspressoOwns(Current)'
        BY <1>4, <2>1, <3>1, <3>2, <3>3
      <4>6. \A k \in 1 .. (espresso' - 1) :
              bundle'[BundleFiles[k]] = Contents(Builder', BundleFiles[k])
        BY <3>2, <4>4
      <4>7. gi' \in Nat \ {0}
        BY <2>1, <3>1
      <4> HIDE DEF file
      <4> QED BY <4>2, <4>3, <4>5, <4>6, <4>7, Zenon DEF EspressoInv
    <3>4. CASE stage' = "rejected" /\ espresso' = 0
      BY <2>1, <3>1, <3>4 DEF EspressoInv
    <3> QED BY <2>3, <3>3, <3>4 DEF EspressoWrite
  <2>4. CASE EspressoLoad
    <3>1. espresso' = 0 /\ bundle' = <<>> /\ gi' \in {gi, gi + 1}
      BY <2>4 DEF EspressoLoad
    <3> QED BY <2>1, <3>1 DEF EspressoInv
  <2> QED BY <1>4, <2>2, <2>3, <2>4 DEF EspressoStep
<1>5. CASE /\ stage = "compile" /\ ~EspressoOwns(Current) /\ MilStep /\ UNCHANGED espressoVars
  <2>1. espresso = 0 /\ bundle = <<>> /\ gi \in Nat \ {0}
    BY <1>5 DEF EspressoInv
  <2>2. gi' \in {gi, gi + 1}
    BY <1>5 DEF MilStep, MilBegin, MilNode, MilNodeThrows, MilBuild, MilCompile, milVars
  <2>3. espresso' = espresso /\ bundle' = bundle
    BY <1>5 DEF espressoVars
  <2> QED BY <2>1, <2>2, <2>3 DEF EspressoInv
<1>6. CASE Route /\ UNCHANGED <<graphVars, errors, topoVars, fuseVars, half>>
  <2>1. stage = "compile" /\ settled /\ gi <= Len(groups) /\ UNCHANGED <<graphVars, groups, settled>>
    BY <1>6 DEF Route, fuseVars, allocVars
  <2> QED BY <1>4, <1>5, <1>6, <2>1 DEF Route
<1>7. CASE Fuse /\ UNCHANGED <<milVars, espressoVars, allocVars, half>> /\ stage = "fuse"
  <2>1. espresso = 0
    BY <1>7 DEF EspressoInv
  <2> QED BY <1>2, <1>7, <2>1
<1>8. CASE AllocStep /\ UNCHANGED <<milVars, espressoVars>> /\ stage = "compile" /\ stage' = "compile"
  <2>1. ~settled
    BY <1>8 DEF AllocStep, AllocBegin, AllocTurn, AllocInv
  <2>2. espresso = 0
    BY <2>1 DEF EspressoInv
  <2> QED BY <1>2, <1>8, <2>2
<1>9. CASE CompileEnd /\ stage = "compile" /\ stage' = "ready"
           /\ UNCHANGED <<graphVars, errors, topoVars, fuseVars, half>>
  <2>1. gi > Len(groups) /\ UNCHANGED <<milVars, espressoVars>>
    BY <1>9 DEF CompileEnd
  <2>2. espresso = 0
    <3>1. Len(groups) \in Nat /\ gi \in Nat
      BY GroupsAre, GroupLists DEF BackInv, EspressoInv
    <3> QED BY <2>1, <3>1 DEF EspressoInv
  <2> QED BY <1>2, <1>9, <2>1, <2>2
<1>10. CASE UNCHANGED vars
  <2>1. UNCHANGED <<milVars, espressoVars, groups>> /\ stage' = stage /\ settled' = settled
    BY <1>10 DEF vars, planVars, fuseVars, allocVars
  <2> QED BY <1>2, <1>3, <2>1
<1> QED BY <1>6, <1>7, <1>8, <1>9, <1>10 DEF BackSteps

\* The product of column 0: the weights W are [oc, ic], the columns x are
\* [ic, s].
LEMMA ConvColumn ==
    ASSUME NEW ic \in Nat, NEW oc \in Nat, NEW s \in Nat \ {0}, NEW W, NEW x,
           NEW o \in 0 .. (oc - 1)
    PROVE  LET ts == <<[type |-> ConvW(oc, ic), val |-> W], [type |-> T(ic, s), val |-> x]>>
               d == TypeOf("conv", ts, <<>>).dims IN
           /\ o * s \in Index(d)
           /\ ElementAt("conv", ts, <<>>, Coord(d, o * s)) =
                Reduce("reduce_sum", [k \in 1 .. ic |-> Elem("mul", <<W[o * ic + k - 1], x[(k - 1) * s]>>)])
<1> DEFINE ts == <<[type |-> ConvW(oc, ic), val |-> W], [type |-> T(ic, s), val |-> x]>>
           d == TypeOf("conv", ts, <<>>).dims
           co == Coord(d, o * s)
<1>1. /\ ts[1].type.dims = <<oc, ic, 1, 1>> /\ ts[2].type.dims = <<1, ic, 1, s>>
      /\ ts[1].val = W /\ ts[2].val = x
  BY DEF ConvW, T, Fp16
<1>2. d = <<1, oc, 1, s>>
  <2> HIDE DEF ts
  <2> QED BY <1>1 DEF TypeOf, Fp16, Reductions
<1> HIDE DEF d, ts
<1>3. o * s \in Nat /\ o * s \in 0 .. (oc * s - 1)
  <2>1. (o + 1) * s <= oc * s
    OBVIOUS
  <2>2. o * s >= 0 /\ (o + 1) * s = o * s + s /\ o * s \in Int /\ oc * s \in Int
    OBVIOUS
  <2> QED BY <2>1, <2>2
<1>4. o * s \in Index(d)
  BY <1>2, <1>3 DEF Index, Numel
<1>5. co[2] = o /\ co[4] = 0
  <2>1. (o * s) \div s = o /\ (o * s) % s = 0 /\ o % oc = o
    OBVIOUS
  <2>2. 1 * s = s
    OBVIOUS
  <2> QED BY <1>2, <2>1, <2>2 DEF Coord
<1> HIDE DEF co
<1>6. ElementAt("conv", ts, <<>>, co) =
        Reduce("reduce_sum", [c \in 1 .. ic |->
            Elem("mul", <<W[Flat(<<oc, ic, 1, 1>>, <<o, c - 1, 0, 0>>)],
                          x[Flat(<<1, ic, 1, s>>, <<0, c - 1, 0, 0>>)]>>)])
  <2>1. ElementAt("conv", ts, <<>>, co) =
          Reduce("reduce_sum", [c \in 1 .. ts[1].type.dims[2] |->
            Elem("mul", <<ts[1].val[Flat(ts[1].type.dims, <<co[2], c - 1, 0, 0>>)],
                          ts[2].val[Flat(ts[2].type.dims, <<0, c - 1, 0, co[4]>>)]>>)])
    BY DEF ElementAt, Reductions
  <2>2. ts[1].type.dims[2] = ic
    BY <1>1
  <2> QED BY <1>1, <1>5, <2>1, <2>2
<1>7. ASSUME NEW c \in 1 .. ic
      PROVE  /\ Flat(<<oc, ic, 1, 1>>, <<o, c - 1, 0, 0>>) = o * ic + c - 1
             /\ Flat(<<1, ic, 1, s>>, <<0, c - 1, 0, 0>>) = (c - 1) * s
  <2>1. /\ o * ic + (c - 1) \in Int
        /\ ((o * ic + (c - 1)) * 1 + 0) * 1 + 0 = o * ic + c - 1
        /\ ((0 * ic + (c - 1)) * 1 + 0) * s + 0 = (c - 1) * s
    OBVIOUS
  <2> QED BY <2>1 DEF Flat
<1>8. [c \in 1 .. ic |-> Elem("mul", <<W[Flat(<<oc, ic, 1, 1>>, <<o, c - 1, 0, 0>>)],
                                         x[Flat(<<1, ic, 1, s>>, <<0, c - 1, 0, 0>>)]>>)]
        = [k \in 1 .. ic |-> Elem("mul", <<W[o * ic + k - 1], x[(k - 1) * s]>>)]
  <2> DEFINE A(c) == Elem("mul", <<W[Flat(<<oc, ic, 1, 1>>, <<o, c - 1, 0, 0>>)],
                                   x[Flat(<<1, ic, 1, s>>, <<0, c - 1, 0, 0>>)]>>)
             B(c) == Elem("mul", <<W[o * ic + c - 1], x[(c - 1) * s]>>)
  <2>1. ASSUME NEW c \in 1 .. ic PROVE A(c) = B(c)
    BY <1>7
  <2> HIDE DEF A, B
  <2>2. [c \in 1 .. ic |-> A(c)] = [c \in 1 .. ic |-> B(c)]
    BY <2>1
  <2> QED BY <2>2 DEF A, B
<1>9. ElementAt("conv", ts, <<>>, co) =
        Reduce("reduce_sum", [k \in 1 .. ic |-> Elem("mul", <<W[o * ic + k - 1], x[(k - 1) * s]>>)])
  BY <1>6, <1>8, Zenon
<1> QED BY <1>4, <1>9 DEF co, d, ts

\* The node of a group that EspressoBackend owns.
LEMMA OwnedNode ==
    ASSUME BackInv, stage = "compile", gi \in 1 .. Len(groups), EspressoOwns(Current)
    PROVE  /\ Only \in NodeId /\ Members(Current) = {Only}
           /\ nodes[Only].op = "MATMUL" /\ nodes[Only].weights = "exact"
           /\ nodes[Only].inputs \in Seq(Nat) /\ Len(nodes[Only].inputs) = 1
           /\ nodes[Only].inputs[1] \in TensorId /\ nodes[Only].output \in TensorId
           /\ IC \in Nat /\ OC \in Nat
           /\ ShapeOf(nodes[Only].output).s = SeqAlign
<1>1. /\ GraphInv /\ Shaped(groups, next, side) /\ groups \in Seq(Group)
      /\ next \in 1 .. (Len(nodes) + 1) /\ Len(nodes) \in Nat
  BY GroupsAre DEF BackInv
<1>2. /\ Len(Current.node_ids) = 1 /\ nodes[Only].op = "MATMUL"
      /\ ShapeOf(nodes[Only].output).s = SeqAlign
  BY DEF EspressoOwns, Only
<1>3. Current.node_ids \in Seq(Nat) /\ DOMAIN Current.node_ids = 1 .. 1
  BY <1>1, <1>2, GroupLists DEF Current
<1>4. Only \in NodeId
  <2>1. 1 \in 1 .. Len(Current.node_ids)
    BY <1>2
  <2>2. Only \in 1 .. (next - 1)
    BY <1>1, <2>1 DEF Shaped, Only, Current
  <2> QED BY <1>1, <2>2 DEF NodeId
<1>5. Members(Current) = {Only}
  <2>1. 1 .. 1 = {1}
    OBVIOUS
  <2> QED BY <1>3, <2>1 DEF Members, Only
<1>6. CheckWeights
  BY DEF BackInv, PlanInv, ValidatorInv
<1>7. NodeOK(nodes[Only])
  BY <1>4, <1>6 DEF CheckWeights
<1>8. Len(nodes[Only].inputs) = 1 /\ nodes[Only].weights = "exact"
  BY <1>2, <1>7 DEF NodeOK, LinearOK, UnaryOK, TableOK, MaskOK, BinaryOK, ConcatOK, ReshapingOK,
                    UnaryOps, BinaryOps, ReduceOps, ScatterOps
<1>9. /\ nodes[Only].inputs \in Seq(Nat) /\ nodes[Only].output \in TensorId
      /\ nodes[Only].inputs[1] \in 1 .. (nodes[Only].output - 1)
  BY <1>1, <1>4, <1>8, Lists DEF GraphInv, WellFormed
<1>10. nodes[Only].inputs[1] \in TensorId
  <2>1. Len(tensors) \in Nat
    BY <1>1, Lists
  <2> QED BY <1>9, <2>1 DEF TensorId
<1>11. IC \in Nat /\ OC \in Nat
  <2>1. \A x \in TensorId : ShapeOf(x).c \in Nat
    <3> TAKE x \in TensorId
    <3>1. tensors[x] \in TensorRec
      BY <1>1, Lists
    <3> QED BY <3>1, GraphAssumption DEF TensorRec, ShapeOf
  <2> QED BY <1>9, <1>10, <2>1 DEF IC, OC
<1> QED BY <1>2, <1>4, <1>5, <1>8, <1>9, <1>10, <1>11

\* Row o of the weights W times column 0 of x.
Column(W, x, ic, s, o) ==
    Reduce("reduce_sum", [k \in 1 .. ic |-> Elem("mul", <<W[o * ic + k - 1], x[(k - 1) * s]>>)])

\* The program of MilBackend for a product, run on x: the column 0 of what it
\* returns.
LEMMA ProductAlone ==
    ASSUME NEW i \in NodeId, nodes[i].op = "MATMUL", nodes[i].weights = "exact",
           nodes[i].inputs \in Seq(Nat), Len(nodes[i].inputs) = 1,
           NEW ic \in Nat, NEW oc \in Nat, NEW s \in Nat \ {0},
           ShapeOf(nodes[i].inputs[1]) = Sh(ic, s), ShapeOf(nodes[i].output) = Sh(oc, s),
           NEW x, NEW o \in 0 .. (oc - 1)
    PROVE  RunAlone(i, <<x>>).val[o * s] =
             Column(from_fp16_transposed(UserWeights(i), ic, oc), x, ic, s, o)
<1> DEFINE n == nodes[i]
           in == TensorVar(n.inputs[1])
           out == TensorVar(n.output)
           wn == Append(out, "W")
           f == NodeToFragment(i, in, out)
           p == Program([j \in DOMAIN n.inputs |-> TensorVar(n.inputs[j])], <<>>, f.body, f.output_name)
           args == [j \in DOMAIN n.inputs |-> Tensor(n.inputs[j], <<x>>[j])]
           blobs == Blobs(NodeEntries(i))
           W == from_fp16_transposed(UserWeights(i), ic, oc)
           load == File(ConvW(oc, ic), wn, <<i>>)
           conv == Let(T(oc, s), out, "conv", <<wn, in>>)
           xt == [type |-> T(ic, s), val |-> x]
<1>1. DOMAIN n.inputs = {1}
  <2>1. 1 .. 1 = {1}
    OBVIOUS
  <2> QED BY <2>1
<1>2. GammaFile(i) = <<i>>
  BY DEF GammaFile
<1>3. f.body = <<load, conv>> /\ f.output_name = out
  <2>1. f = matmul_fragment(ic, oc, s, in, out, <<i>>)
    BY <1>2 DEF NodeToFragment, Sh, ScatterOps
  <2> HIDE DEF f
  <2> QED BY <2>1 DEF matmul_fragment, Frag
<1>4. blobs[<<i>>] = W
  <2> DEFINE e == [file |-> <<i>>, data |-> W]
  <2>1. NodeEntries(i) = <<e>>
    BY DEF NodeEntries, Sh
  <2>2. Blobs(<<e>>) = [g \in {<<e>>[k].file : k \in DOMAIN <<e>>} |->
                          <<e>>[CHOOSE k \in DOMAIN <<e>> : <<e>>[k].file = g].data]
    BY DEF Blobs
  <2>3. DOMAIN <<e>> = {1} /\ <<e>>[1] = e /\ e.file = <<i>> /\ e.data = W
    OBVIOUS
  <2>4. <<i>> \in {<<e>>[k].file : k \in DOMAIN <<e>>}
    BY <2>3
  <2>5. (CHOOSE k \in DOMAIN <<e>> : <<e>>[k].file = <<i>>) = 1
    BY <2>3
  <2> HIDE DEF e
  <2>6. Blobs(<<e>>)[<<i>>] = <<e>>[CHOOSE k \in DOMAIN <<e>> : <<e>>[k].file = <<i>>].data
    BY <2>2, <2>4, Zenon
  <2> QED BY <2>1, <2>3, <2>5, <2>6, Zenon
<1>5. /\ p.body = <<load, conv>> /\ p.ret = out
      /\ p.params = [j \in {1} |-> in]
  BY <1>1, <1>3 DEF Program
<1>6. args = [j \in {1} |-> xt]
  BY <1>1 DEF Tensor, Sh
<1> HIDE DEF args, p, f
<1>7. /\ DOMAIN Bind(p.params, args) = {in} /\ Bind(p.params, args)[in] = xt
  <2>1. ToSet(p.params) = {in}
    BY <1>5 DEF ToSet
  <2>2. (CHOOSE j \in DOMAIN args : p.params[j] = in) = 1
    BY <1>5, <1>6
  <2> QED BY <1>6, <2>1, <2>2 DEF Bind
<1> DEFINE e0 == Bind(p.params, args)
           e1 == Exec(e0, load, blobs)
           e2 == Exec(e1, conv, blobs)
<1>8. RunAlone(i, <<x>>) = e2[out]
  <2>1. RunAlone(i, <<x>>) = Result(p, args, blobs)
    BY DEF RunAlone, p, args, f
  <2>2. Result(p, args, blobs) = Run(<<load, conv>>, e0, blobs)[out]
    BY <1>5 DEF Result, Environment
  <2> HIDE DEF load, conv, e0, blobs
  <2> QED BY <2>1, <2>2, RunTwo
<1>17. DOMAIN e0 = {in} /\ e0[in] = xt
  BY <1>7
<1>9. load.op = "file" /\ load.name = wn /\ load.type = ConvW(oc, ic) /\ load.val = <<i>>
  BY DEF File, Statement
<1>10. /\ conv.op = "conv" /\ conv.op \notin Consts /\ conv.name = out
       /\ conv.args = <<wn, in>> /\ conv.attrs = <<>>
  BY DEF Let, Statement, Consts
<1>11. in # wn
  BY DEF TensorVar
<1> HIDE DEF load, conv, blobs, e0, xt, W, in, out, wn
<1>12. /\ e1[wn] = [type |-> ConvW(oc, ic), val |-> W] /\ e1[in] = xt
  <2>1. Exec(e0, load, blobs)[load.name] = [type |-> load.type, val |-> blobs[load.val]]
    BY <1>9, ExecFile, Zenon
  <2>2. Exec(e0, load, blobs)[in] = e0[in]
    BY <1>9, <1>11, <1>17, ExecOld
  <2> QED BY <1>4, <1>9, <1>17, <2>1, <2>2
<1> HIDE DEF e1
<1> DEFINE ts == <<[type |-> ConvW(oc, ic), val |-> W], xt>>
           d == TypeOf("conv", ts, <<>>).dims
<1>13. Operands(e1, conv) = ts /\ Attributes(e1, conv) = <<>>
  BY <1>10, <1>12 DEF Operands, Attributes
<1>14. e2[out].val = [j \in Index(d) |-> ElementAt("conv", ts, <<>>, Coord(d, j))]
  <2> HIDE DEF ts
  <2>1. e2[conv.name] = Computed("conv", ts, <<>>)
    BY <1>10, <1>13, ExecOp
  <2> QED BY <1>10, <2>1 DEF Computed
<1>15. /\ o * s \in Index(d)
       /\ ElementAt("conv", ts, <<>>, Coord(d, o * s)) =
            Reduce("reduce_sum", [k \in 1 .. ic |-> Elem("mul", <<W[o * ic + k - 1], x[(k - 1) * s]>>)])
  BY ConvColumn, SMTT(30) DEF xt
<1> HIDE DEF d, ts
<1>16. e2[out].val[o * s] =
         Reduce("reduce_sum", [k \in 1 .. ic |-> Elem("mul", <<W[o * ic + k - 1], x[(k - 1) * s]>>)])
  BY <1>14, <1>15
<1> HIDE DEF e2
<1> QED BY <1>8, <1>16 DEF W, Column

LEMMA BundleFollows == BackInv /\ EspressoInv => BundleRight
<1> SUFFICES ASSUME BackInv, EspressoInv, Loading PROVE BundleRight
  BY Zenon DEF BundleRight
<1>1. espresso = 9 /\ espresso - 1 = 8
  BY FilesDiffer DEF Loading
<1>2. /\ stage = "compile" /\ gi \in 1 .. Len(groups) /\ EspressoOwns(Current)
      /\ DOMAIN bundle = {BundleFiles[k] : k \in 1 .. 8}
      /\ \A k \in 1 .. 8 : bundle[BundleFiles[k]] = Contents(Builder, BundleFiles[k])
  <2>1. Len(groups) \in Nat /\ gi \in Nat \ {0} /\ gi <= Len(groups)
    BY <1>1, GroupsAre, GroupLists DEF BackInv, EspressoInv
  <2> QED BY <1>1, <2>1 DEF EspressoInv
<1>3. /\ Only \in NodeId /\ Members(Current) = {Only}
      /\ nodes[Only].op = "MATMUL" /\ nodes[Only].weights = "exact"
      /\ nodes[Only].inputs \in Seq(Nat) /\ Len(nodes[Only].inputs) = 1
      /\ nodes[Only].inputs[1] \in TensorId /\ nodes[Only].output \in TensorId
      /\ IC \in Nat /\ OC \in Nat
      /\ ShapeOf(nodes[Only].output).s = SeqAlign
  BY <1>2, OwnedNode
<1>4. DOMAIN bundle = ToSet(BundleFiles)
  BY <1>2, FilesDiffer DEF ToSet
<1> DEFINE V == from_fp16(transpose_fp16_to_fp32(UserWeights(Only), IC, OC), 0, IC * OC)
           layer == [type |-> "inner_product", bottom |-> "input", top |-> "output",
                     nB |-> IC, nC |-> OC, blob_weights |-> 1, has_relu |-> 0]
<1>5. /\ bundle["net"] = Builder.layers /\ bundle["shape"] = Builder.shapes
      /\ bundle["weights"] = Builder.weights
      /\ bundle["metadata"] = <<Builder.inputs, Builder.outputs>>
  <2>1. 4 \in 1 .. 8 /\ 5 \in 1 .. 8 /\ 6 \in 1 .. 8 /\ 7 \in 1 .. 8
    OBVIOUS
  <2>2. /\ Contents(Builder, "net") = Builder.layers /\ Contents(Builder, "shape") = Builder.shapes
        /\ Contents(Builder, "weights") = Builder.weights
        /\ Contents(Builder, "metadata") = <<Builder.inputs, Builder.outputs>>
    BY DEF Contents
  <2> QED BY <1>2, <2>1, <2>2, FilesDiffer
<1>6. /\ bundle["net"] = <<layer>>
      /\ bundle["shape"] = [input |-> [w |-> 1, k |-> IC], output |-> [w |-> 1, k |-> OC]]
      /\ bundle["weights"] = V
      /\ bundle["metadata"] = <<[name |-> "input", channels |-> IC, seq |-> 1],
                                [name |-> "output", channels |-> OC, seq |-> 1]>>
  BY <1>5 DEF Builder, inner_product
<1>7. LET l == bundle["net"][1]
          shapes == bundle["shape"] IN
      /\ shapes[l.bottom] = [w |-> 1, k |-> l.nB]
      /\ shapes[l.top] = [w |-> 1, k |-> l.nC]
      /\ bundle["metadata"][1].channels = l.nB
      /\ bundle["metadata"][2].channels = l.nC
      /\ DOMAIN bundle["weights"] = 0 .. (l.nB * l.nC - 1)
      /\ l.nB = IC /\ l.nC = OC
  BY <1>6 DEF from_fp16
<1>8. ASSUME Fits(Current), NEW o \in 0 .. (OC - 1)
      PROVE  LET x == Unknowns[nodes[Only].inputs[1]]
                 s == ShapeOf(nodes[Only].output).s
             IN InnerProduct(bundle, [k \in 0 .. (IC - 1) |-> x[k * s]])[o]
                  = RunAlone(Only, <<x>>).val[o * s]
  <2> DEFINE x == Unknowns[nodes[Only].inputs[1]]
             s == ShapeOf(nodes[Only].output).s
             col == [k \in 0 .. (IC - 1) |-> x[k * s]]
             W == from_fp16_transposed(UserWeights(Only), IC, OC)
  <2>1. s \in Nat \ {0}
    BY <1>3, BuilderAssumption
  <2>2. ShapeOf(nodes[Only].inputs[1]) = Sh(IC, s) /\ ShapeOf(nodes[Only].output) = Sh(OC, s)
    <3>1. ShapeFits(Only)
      BY <1>3, <1>8 DEF Fits
    <3>2. s = ShapeOf(nodes[Only].inputs[1]).s
      BY <1>3, <3>1 DEF ShapeFits, BinaryOps, ReduceOps
    <3>3. \A y \in TensorId : ShapeOf(y) \in [c : Nat, s : Nat]
      <4> TAKE y \in TensorId
      <4>1. tensors[y] \in TensorRec
        BY Lists DEF BackInv, PlanInv
      <4> QED BY <4>1, GraphAssumption DEF TensorRec, ShapeOf
    <3>4. \A q \in [c : Nat, s : Nat] : q = Sh(q.c, q.s)
      BY DEF Sh
    <3> QED BY <1>3, <3>2, <3>3, <3>4 DEF IC, OC
  <2> HIDE DEF s
  <2>3. RunAlone(Only, <<x>>).val[o * s] =
          Reduce("reduce_sum", [k \in 1 .. IC |-> Elem("mul", <<W[o * IC + k - 1], x[(k - 1) * s]>>)])
    <3> HIDE DEF x
    <3>1. RunAlone(Only, <<x>>).val[o * s] = Column(W, x, IC, s, o)
      BY <1>3, <1>8, <2>1, <2>2, ProductAlone
    <3> QED BY <3>1 DEF Column
  <2>4. InnerProduct(bundle, col)[o] =
          Reduce("reduce_sum", [k \in 1 .. IC |-> Elem("mul", <<V[o * IC + k - 1], col[k - 1]>>)])
    <3> HIDE DEF V, col
    <3>1. bundle["net"][1].nC = OC /\ bundle["net"][1].nB = IC
      BY <1>6
    <3> QED BY <1>6, <1>8, <3>1 DEF InnerProduct
  <2>5. ASSUME NEW k \in 1 .. IC
        PROVE  V[o * IC + k - 1] = W[o * IC + k - 1] /\ col[k - 1] = x[(k - 1) * s]
    <3>1. k - 1 \in 0 .. (IC - 1)
      BY <1>3
    <3>2. o * IC + k - 1 \in 0 .. (IC * OC - 1)
      <4>1. (o + 1) * IC <= OC * IC /\ OC * IC = IC * OC
        BY <1>3, <1>8
      <4>2. o * IC >= 0 /\ o * IC \in Int /\ IC * OC \in Int /\ (o + 1) * IC = o * IC + IC
        BY <1>3, <1>8
      <4>3. \A a, b \in Int : a >= 0 /\ a + IC <= b => a + k - 1 \in 0 .. (b - 1)
        BY <1>3
      <4> QED BY <4>1, <4>2, <4>3
    <3> DEFINE j == o * IC + k - 1
    <3>3. V[j] = transpose_fp16_to_fp32(UserWeights(Only), IC, OC)[j]
      <4>1. 0 + j = j
        BY <3>2
      <4> HIDE DEF j
      <4> QED BY <3>2, <4>1 DEF from_fp16, j
    <3>4. transpose_fp16_to_fp32(UserWeights(Only), IC, OC) = W
      BY DEF transpose_fp16_to_fp32, from_fp16_transposed
    <3> QED BY <3>1, <3>3, <3>4
  <2> DEFINE A(k) == Elem("mul", <<W[o * IC + k - 1], x[(k - 1) * s]>>)
             B(k) == Elem("mul", <<V[o * IC + k - 1], col[k - 1]>>)
  <2>6. ASSUME NEW k \in 1 .. IC PROVE A(k) = B(k)
    <3> HIDE DEF V, W, col, x
    <3> QED BY <2>5
  <2>7. [k \in 1 .. IC |-> A(k)] = [k \in 1 .. IC |-> B(k)]
    <3> HIDE DEF A, B
    <3> QED BY <2>6
  <2> QED BY <2>3, <2>4, <2>7, Zenon DEF s
<1> QED BY <1>4, <1>7, <1>8, Zenon DEF BundleRight

\* A bundle that EspressoBackend hands to ane_load_mlmodelc is complete, agrees
\* with itself, and computes what MilBackend's program for the same product
\* computes: for every shape and every weight (BundleRight).
THEOREM BundlesRight == Spec => []BundleRight
<1>1. Init => EspressoInv
  BY EspressoStarts
<1>2. BackInv /\ AllocInv /\ EspressoInv /\ [Next]_vars => EspressoInv'
  BY BackCases, EspressoKeeps
<1>3. Spec => []EspressoInv
  BY <1>1, <1>2, BackInvariant, AllocInvariant, PTL DEF Spec
<1>4. BackInv /\ EspressoInv => BundleRight
  BY BundleFollows
<1> QED BY <1>3, <1>4, BackInvariant, PTL

-----------------------------------------------------------------------------
(* The fragment of a node                                                   *)

\* The fragment of node i when its first input has the name of its tensor, what
\* it reads, and the weight files it names, with their dimensions.
FragOf(i) == NodeToFragment(i, TensorVar(nodes[i].inputs[1]), TensorVar(nodes[i].output))
BodyOf(i) == FragOf(i).body
ReadsOf(i) == {TensorVar(nodes[i].inputs[j]) : j \in 1 .. Len(nodes[i].inputs)}
FilesOf(i) ==
    LET n == nodes[i]  a == ShapeOf(n.inputs[1])  o == ShapeOf(n.output) IN
    IF n.weights = "none" THEN {}
    ELSE IF n.op = "MATMUL" THEN {<<<<i>>, <<o.c, a.c, 1, 1>>>>}
    ELSE IF n.op = "RMSNORM" THEN {<<<<i>>, <<1, a.c, 1, 1>>>>}
    ELSE IF n.op \in {"LAYERNORM", "LAYER_NORM"}
      THEN {<<<<i>>, <<1, a.c, 1, 1>>>>, <<BetaFile(i), <<1, a.c, 1, 1>>>>}
    ELSE IF IsMask(n) THEN {<<<<i>>, <<1, o.c, 1, o.s>>>>}
    ELSE {}

\* The inputs of node i have the dimensions of their tensors.
Arrived(E, i) ==
    \A j \in 1 .. Len(nodes[i].inputs) :
        LET x == nodes[i].inputs[j] IN Full(E, TensorVar(x), ShapeOf(x).c, ShapeOf(x).s)

\* What is asked of the body b of node i.
Sound(i, b) ==
    /\ Neat(b, nodes[i].output, ReadsOf(i))
    /\ FilesIn(b, FilesOf(i))
    /\ ShapeFits(i) /\ nodes[i].op # "CONCAT" =>
         /\ b[Len(b)].type = T(ShapeOf(nodes[i].output).c, ShapeOf(nodes[i].output).s)
         /\ \A E : Arrived(E, i) => Fine(b, E)

\* A node that the validator has accepted.
Accepted(i) ==
    LET n == nodes[i] IN
    /\ n.op \in Op /\ NodeOK(n)
    /\ Len(n.inputs) \in Nat \ {0} /\ n.output \in TensorId /\ n.factor \in Int
    /\ \A j \in 1 .. Len(n.inputs) : n.inputs[j] \in TensorId /\ n.inputs[j] < n.output
    /\ \A x \in TensorId : ShapeOf(x).c \in Nat \ {0} /\ ShapeOf(x).s \in Nat \ {0}

LEMMA NodeAccepted ==
    ASSUME GraphInv, CheckWeights, NEW i \in NodeId
    PROVE  Accepted(i)
<1> DEFINE n == nodes[i]
<1>1. NodeOK(n)
  BY DEF CheckWeights
<1>2. n \in Node
  BY Lists DEF NodeId
<1>3. n.op \in Op /\ n.inputs \in Seq(Nat) /\ n.factor \in Int
  BY <1>2 DEF Node
<1>4. Len(n.inputs) \in Nat /\ DOMAIN n.inputs = 1 .. Len(n.inputs)
  BY <1>3
<1>5. Len(n.inputs) # 0
  BY <1>1 DEF NodeOK, LinearOK, UnaryOK, TableOK, MaskOK, BinaryOK, ConcatOK, ReshapingOK
<1>6. /\ n.output \in TensorId
      /\ \A j \in 1 .. Len(n.inputs) : n.inputs[j] \in 1 .. (n.output - 1)
  BY DEF GraphInv, WellFormed
<1>7. Len(tensors) \in Nat /\ TensorId = 1 .. Len(tensors)
  BY Lists DEF TensorId
<1>8. \A j \in 1 .. Len(n.inputs) : n.inputs[j] \in TensorId /\ n.inputs[j] < n.output
  <2> TAKE j \in 1 .. Len(n.inputs)
  <2>1. n.inputs[j] \in Nat /\ n.inputs[j] \in 1 .. (n.output - 1)
    BY <1>3, <1>4, <1>6
  <2> HIDE DEF n
  <2> QED BY <1>6, <1>7, <2>1
<1>9. ASSUME NEW x \in TensorId PROVE ShapeOf(x).c \in Nat \ {0} /\ ShapeOf(x).s \in Nat \ {0}
  <2>1. tensors[x] \in TensorRec
    BY <1>7, Lists
  <2>2. ShapeOf(x) \in Shape
    BY <2>1 DEF TensorRec, ShapeOf
  <2>3. ShapeOf(x) \in [c : Nat \ {0}, s : Nat \ {0}]
    BY <2>2, GraphAssumption
  <2> QED BY <2>3
<1> QED BY <1>1, <1>3, <1>4, <1>5, <1>6, <1>8, <1>9 DEF Accepted

\* A node with one input.
LEMMA SoundOne ==
    ASSUME NEW i, NEW b, Accepted(i), Len(nodes[i].inputs) = 1,
           NEW x, x = TensorVar(nodes[i].inputs[1]),
           Neat(b, nodes[i].output, {x}), FilesIn(b, FilesOf(i)),
           ShapeFits(i) => b[Len(b)].type = T(ShapeOf(nodes[i].output).c, ShapeOf(nodes[i].output).s),
           ShapeFits(i) => \A E : Full(E, x, ShapeOf(nodes[i].inputs[1]).c, ShapeOf(nodes[i].inputs[1]).s)
                                    => Fine(b, E)
    PROVE  Sound(i, b)
<1>1. ReadsOf(i) = {x}
  BY DEF ReadsOf
<1>2. \A E : Arrived(E, i) => Full(E, x, ShapeOf(nodes[i].inputs[1]).c, ShapeOf(nodes[i].inputs[1]).s)
  BY DEF Arrived
<1> QED BY <1>1, <1>2 DEF Sound

\* A node with two.
LEMMA SoundTwo ==
    ASSUME NEW i, NEW b, Accepted(i), Len(nodes[i].inputs) = 2,
           NEW x, x = TensorVar(nodes[i].inputs[1]), NEW y, y = TensorVar(nodes[i].inputs[2]),
           Neat(b, nodes[i].output, {x, y}), FilesIn(b, FilesOf(i)),
           ShapeFits(i) => b[Len(b)].type = T(ShapeOf(nodes[i].output).c, ShapeOf(nodes[i].output).s),
           ShapeFits(i) => \A E : Full(E, x, ShapeOf(nodes[i].inputs[1]).c, ShapeOf(nodes[i].inputs[1]).s) =>
             (Full(E, y, ShapeOf(nodes[i].inputs[2]).c, ShapeOf(nodes[i].inputs[2]).s) => Fine(b, E))
    PROVE  Sound(i, b)
<1>1. ReadsOf(i) = {x, y}
  BY DEF ReadsOf
<1>2. \A E : Arrived(E, i) => /\ Full(E, x, ShapeOf(nodes[i].inputs[1]).c, ShapeOf(nodes[i].inputs[1]).s)
                              /\ Full(E, y, ShapeOf(nodes[i].inputs[2]).c, ShapeOf(nodes[i].inputs[2]).s)
  BY DEF Arrived
<1> QED BY <1>1, <1>2 DEF Sound

\* The names of a node in its fragment.
In1(i) == TensorVar(nodes[i].inputs[1])
In2(i) == TensorVar(nodes[i].inputs[2])
In3(i) == TensorVar(nodes[i].inputs[3])
Out(i) == nodes[i].output
OutC(i) == ShapeOf(nodes[i].output).c
OutS(i) == ShapeOf(nodes[i].output).s
InC(i) == ShapeOf(nodes[i].inputs[1]).c
InS(i) == ShapeOf(nodes[i].inputs[1]).s

\* A node with one input, and one with two, whose fragments make what the shapes
\* say.
LEMMA SoundMakes ==
    ASSUME NEW i, NEW b, Accepted(i), Len(nodes[i].inputs) = 1, NEW F, FilesOf(i) = F,
           NEW ic, NEW is, NEW oc, NEW os, Makes(b, Out(i), In1(i), F, ic, is, oc, os),
           ShapeFits(i) => ic = InC(i) /\ is = InS(i) /\ oc = OutC(i) /\ os = OutS(i)
    PROVE  Sound(i, b)
<1>1. /\ Neat(b, Out(i), {In1(i)}) /\ FilesIn(b, F) /\ b[Len(b)].type = T(oc, os)
      /\ \A E : Full(E, In1(i), ic, is) => Fine(b, E)
  BY Zenon DEF Makes
<1>2. ShapeFits(i) => b[Len(b)].type = T(OutC(i), OutS(i))
  BY <1>1
<1>3. ShapeFits(i) => \A E : Full(E, In1(i), InC(i), InS(i)) => Fine(b, E)
  BY <1>1
<1> QED BY <1>1, <1>2, <1>3, SoundOne DEF InC, InS, OutC, OutS, In1, Out

LEMMA SoundMakes2 ==
    ASSUME NEW i, NEW b, Accepted(i), Len(nodes[i].inputs) = 2, NEW F, FilesOf(i) = F,
           Makes2(b, Out(i), In1(i), In2(i), F, OutC(i), OutS(i)),
           ShapeFits(i) => /\ ShapeOf(nodes[i].output) = ShapeOf(nodes[i].inputs[1])
                           /\ ShapeOf(nodes[i].output) = ShapeOf(nodes[i].inputs[2])
    PROVE  Sound(i, b)
<1>1. /\ Neat(b, Out(i), {In1(i), In2(i)}) /\ FilesIn(b, F) /\ b[Len(b)].type = T(OutC(i), OutS(i))
      /\ \A E : Full(E, In1(i), OutC(i), OutS(i)) /\ Full(E, In2(i), OutC(i), OutS(i)) => Fine(b, E)
  BY Zenon DEF Makes2
<1>2. ShapeFits(i) => \A E : Full(E, In1(i), ShapeOf(nodes[i].inputs[1]).c, ShapeOf(nodes[i].inputs[1]).s) =>
             (Full(E, In2(i), ShapeOf(nodes[i].inputs[2]).c, ShapeOf(nodes[i].inputs[2]).s) => Fine(b, E))
  BY <1>1 DEF OutC, OutS
<1> QED BY <1>1, <1>2, SoundTwo DEF OutC, OutS, In1, In2, Out

\* SELECT has three.
LEMMA SoundMakes3 ==
    ASSUME NEW i, NEW b, Accepted(i), Len(nodes[i].inputs) = 3, nodes[i].weights = "none",
           Makes3(b, Out(i), In1(i), In2(i), In3(i), OutC(i), OutS(i)),
           \A j \in 1 .. 3 : ShapeOf(nodes[i].inputs[j]) = ShapeOf(nodes[i].output)
    PROVE  Sound(i, b)
<1>1. /\ Neat(b, Out(i), {In1(i), In2(i), In3(i)}) /\ FilesIn(b, {}) /\ b[Len(b)].type = T(OutC(i), OutS(i))
      /\ \A E : Full(E, In1(i), OutC(i), OutS(i)) /\ Full(E, In2(i), OutC(i), OutS(i)) /\ Full(E, In3(i), OutC(i), OutS(i)) => Fine(b, E)
  BY Zenon DEF Makes3
<1>2. ReadsOf(i) = {In1(i), In2(i), In3(i)}
  BY DEF ReadsOf, In1, In2, In3
<1>3. ASSUME NEW E, Arrived(E, i)
      PROVE  /\ Full(E, In1(i), OutC(i), OutS(i)) /\ Full(E, In2(i), OutC(i), OutS(i))
             /\ Full(E, In3(i), OutC(i), OutS(i))
  BY <1>3 DEF Arrived, In1, In2, In3, OutC, OutS
<1>4. FilesOf(i) = {}
  BY DEF FilesOf
<1> QED BY <1>1, <1>2, <1>3, <1>4 DEF Sound, Out, OutC, OutS

\* The dimensions of a node's tensors.
LEMMA PosShapes ==
    ASSUME NEW i, Accepted(i)
    PROVE  Pos(OutC(i)) /\ Pos(OutS(i)) /\ Pos(InC(i)) /\ Pos(InS(i))
BY DEF Accepted, Pos, OutC, OutS, InC, InS

LEMMA GeluNode ==
    ASSUME NEW i, Accepted(i), nodes[i].op = "GELU"
    PROVE  Sound(i, BodyOf(i)) /\ FragOf(i).output_name = <<Out(i)>>
<1> DEFINE b == BodyOf(i)
<1>1. FragOf(i) = gelu_fragment(OutC(i), OutS(i), In1(i), <<Out(i)>>)
  BY DEF FragOf, NodeToFragment, ScatterOps, OutC, OutS, InC, InS, In1, In2, In3, Out, TensorVar
<1>2. FragOf(i).output_name = <<Out(i)>>
  BY <1>1 DEF gelu_fragment, Plain, Frag
<1>3. b = gelu_fragment(OutC(i), OutS(i), In1(i), <<Out(i)>>).body
  BY <1>1 DEF BodyOf
<1> HIDE DEF b
<1>4. Len(nodes[i].inputs) = 1 /\ nodes[i].weights = "none"
  BY DEF Accepted, NodeOK, LinearOK, UnaryOK, TableOK, MaskOK, BinaryOK, ConcatOK, ReshapingOK, UnaryOps, BinaryOps, ReduceOps, ScatterOps, NormOps
<1>5. Makes(b, Out(i), In1(i), {}, OutC(i), OutS(i), OutC(i), OutS(i))
  BY <1>3, PosShapes, GeluFragment
<1>6. FilesOf(i) = {}
  BY <1>4 DEF FilesOf
<1>7. ShapeFits(i) => OutC(i) = InC(i) /\ OutS(i) = InS(i)
  BY DEF ShapeFits, ReduceOps, BinaryOps, OutC, OutS, InC, InS
<1>8. Sound(i, b)
  BY <1>4, <1>5, <1>6, <1>7, SoundMakes
<1> QED BY <1>2, <1>8 DEF b

LEMMA SiluNode ==
    ASSUME NEW i, Accepted(i), nodes[i].op = "SILU"
    PROVE  Sound(i, BodyOf(i)) /\ FragOf(i).output_name = <<Out(i)>>
<1> DEFINE b == BodyOf(i)
<1>1. FragOf(i) = silu_fragment(OutC(i), OutS(i), In1(i), <<Out(i)>>)
  BY DEF FragOf, NodeToFragment, ScatterOps, OutC, OutS, InC, InS, In1, In2, In3, Out, TensorVar
<1>2. FragOf(i).output_name = <<Out(i)>>
  BY <1>1 DEF silu_fragment, Plain, Frag
<1>3. b = silu_fragment(OutC(i), OutS(i), In1(i), <<Out(i)>>).body
  BY <1>1 DEF BodyOf
<1> HIDE DEF b
<1>4. Len(nodes[i].inputs) = 1 /\ nodes[i].weights = "none"
  BY DEF Accepted, NodeOK, LinearOK, UnaryOK, TableOK, MaskOK, BinaryOK, ConcatOK, ReshapingOK, UnaryOps, BinaryOps, ReduceOps, ScatterOps, NormOps
<1>5. Makes(b, Out(i), In1(i), {}, OutC(i), OutS(i), OutC(i), OutS(i))
  BY <1>3, PosShapes, SiluFragment
<1>6. FilesOf(i) = {}
  BY <1>4 DEF FilesOf
<1>7. ShapeFits(i) => OutC(i) = InC(i) /\ OutS(i) = InS(i)
  BY DEF ShapeFits, ReduceOps, BinaryOps, OutC, OutS, InC, InS
<1>8. Sound(i, b)
  BY <1>4, <1>5, <1>6, <1>7, SoundMakes
<1> QED BY <1>2, <1>8 DEF b

LEMMA SoftmaxNode ==
    ASSUME NEW i, Accepted(i), nodes[i].op = "SOFTMAX"
    PROVE  Sound(i, BodyOf(i)) /\ FragOf(i).output_name = <<Out(i)>>
<1> DEFINE b == BodyOf(i)
<1>1. FragOf(i) = softmax_fragment(OutC(i), OutS(i), In1(i), <<Out(i)>>)
  BY DEF FragOf, NodeToFragment, ScatterOps, OutC, OutS, InC, InS, In1, In2, In3, Out, TensorVar
<1>2. FragOf(i).output_name = <<Out(i)>>
  BY <1>1 DEF softmax_fragment, Plain, Frag
<1>3. b = softmax_fragment(OutC(i), OutS(i), In1(i), <<Out(i)>>).body
  BY <1>1 DEF BodyOf
<1> HIDE DEF b
<1>4. Len(nodes[i].inputs) = 1 /\ nodes[i].weights = "none"
  BY DEF Accepted, NodeOK, LinearOK, UnaryOK, TableOK, MaskOK, BinaryOK, ConcatOK, ReshapingOK, UnaryOps, BinaryOps, ReduceOps, ScatterOps, NormOps
<1>5. Makes(b, Out(i), In1(i), {}, OutC(i), OutS(i), OutC(i), OutS(i))
  BY <1>3, PosShapes, SoftmaxFragment
<1>6. FilesOf(i) = {}
  BY <1>4 DEF FilesOf
<1>7. ShapeFits(i) => OutC(i) = InC(i) /\ OutS(i) = InS(i)
  BY DEF ShapeFits, ReduceOps, BinaryOps, OutC, OutS, InC, InS
<1>8. Sound(i, b)
  BY <1>4, <1>5, <1>6, <1>7, SoundMakes
<1> QED BY <1>2, <1>8 DEF b

LEMMA NegNode ==
    ASSUME NEW i, Accepted(i), nodes[i].op = "NEG"
    PROVE  Sound(i, BodyOf(i)) /\ FragOf(i).output_name = <<Out(i)>>
<1> DEFINE b == BodyOf(i)
<1>1. FragOf(i) = neg_fragment(OutC(i), OutS(i), In1(i), <<Out(i)>>)
  BY DEF FragOf, NodeToFragment, ScatterOps, OutC, OutS, InC, InS, In1, In2, In3, Out, TensorVar
<1>2. FragOf(i).output_name = <<Out(i)>>
  BY <1>1 DEF neg_fragment, Plain, Frag
<1>3. b = neg_fragment(OutC(i), OutS(i), In1(i), <<Out(i)>>).body
  BY <1>1 DEF BodyOf
<1> HIDE DEF b
<1>4. Len(nodes[i].inputs) = 1 /\ nodes[i].weights = "none"
  BY DEF Accepted, NodeOK, LinearOK, UnaryOK, TableOK, MaskOK, BinaryOK, ConcatOK, ReshapingOK, UnaryOps, BinaryOps, ReduceOps, ScatterOps, NormOps
<1>5. Makes(b, Out(i), In1(i), {}, OutC(i), OutS(i), OutC(i), OutS(i))
  BY <1>3, PosShapes, NegFragment
<1>6. FilesOf(i) = {}
  BY <1>4 DEF FilesOf
<1>7. ShapeFits(i) => OutC(i) = InC(i) /\ OutS(i) = InS(i)
  BY DEF ShapeFits, ReduceOps, BinaryOps, OutC, OutS, InC, InS
<1>8. Sound(i, b)
  BY <1>4, <1>5, <1>6, <1>7, SoundMakes
<1> QED BY <1>2, <1>8 DEF b

LEMMA SinhNode ==
    ASSUME NEW i, Accepted(i), nodes[i].op = "SINH"
    PROVE  Sound(i, BodyOf(i)) /\ FragOf(i).output_name = <<Out(i)>>
<1> DEFINE b == BodyOf(i)
<1>1. FragOf(i) = sinh_fragment(OutC(i), OutS(i), In1(i), <<Out(i)>>)
  BY DEF FragOf, NodeToFragment, ScatterOps, OutC, OutS, InC, InS, In1, In2, In3, Out, TensorVar
<1>2. FragOf(i).output_name = <<Out(i)>>
  BY <1>1 DEF sinh_fragment, Plain, Frag
<1>3. b = sinh_fragment(OutC(i), OutS(i), In1(i), <<Out(i)>>).body
  BY <1>1 DEF BodyOf
<1> HIDE DEF b
<1>4. Len(nodes[i].inputs) = 1 /\ nodes[i].weights = "none"
  BY DEF Accepted, NodeOK, LinearOK, UnaryOK, TableOK, MaskOK, BinaryOK, ConcatOK, ReshapingOK, UnaryOps, BinaryOps, ReduceOps, ScatterOps, NormOps
<1>5. Makes(b, Out(i), In1(i), {}, OutC(i), OutS(i), OutC(i), OutS(i))
  BY <1>3, PosShapes, SinhFragment
<1>6. FilesOf(i) = {}
  BY <1>4 DEF FilesOf
<1>7. ShapeFits(i) => OutC(i) = InC(i) /\ OutS(i) = InS(i)
  BY DEF ShapeFits, ReduceOps, BinaryOps, OutC, OutS, InC, InS
<1>8. Sound(i, b)
  BY <1>4, <1>5, <1>6, <1>7, SoundMakes
<1> QED BY <1>2, <1>8 DEF b

LEMMA CoshNode ==
    ASSUME NEW i, Accepted(i), nodes[i].op = "COSH"
    PROVE  Sound(i, BodyOf(i)) /\ FragOf(i).output_name = <<Out(i)>>
<1> DEFINE b == BodyOf(i)
<1>1. FragOf(i) = cosh_fragment(OutC(i), OutS(i), In1(i), <<Out(i)>>)
  BY DEF FragOf, NodeToFragment, ScatterOps, OutC, OutS, InC, InS, In1, In2, In3, Out, TensorVar
<1>2. FragOf(i).output_name = <<Out(i)>>
  BY <1>1 DEF cosh_fragment, Plain, Frag
<1>3. b = cosh_fragment(OutC(i), OutS(i), In1(i), <<Out(i)>>).body
  BY <1>1 DEF BodyOf
<1> HIDE DEF b
<1>4. Len(nodes[i].inputs) = 1 /\ nodes[i].weights = "none"
  BY DEF Accepted, NodeOK, LinearOK, UnaryOK, TableOK, MaskOK, BinaryOK, ConcatOK, ReshapingOK, UnaryOps, BinaryOps, ReduceOps, ScatterOps, NormOps
<1>5. Makes(b, Out(i), In1(i), {}, OutC(i), OutS(i), OutC(i), OutS(i))
  BY <1>3, PosShapes, CoshFragment
<1>6. FilesOf(i) = {}
  BY <1>4 DEF FilesOf
<1>7. ShapeFits(i) => OutC(i) = InC(i) /\ OutS(i) = InS(i)
  BY DEF ShapeFits, ReduceOps, BinaryOps, OutC, OutS, InC, InS
<1>8. Sound(i, b)
  BY <1>4, <1>5, <1>6, <1>7, SoundMakes
<1> QED BY <1>2, <1>8 DEF b

LEMMA TanNode ==
    ASSUME NEW i, Accepted(i), nodes[i].op = "TAN"
    PROVE  Sound(i, BodyOf(i)) /\ FragOf(i).output_name = <<Out(i)>>
<1> DEFINE b == BodyOf(i)
<1>1. FragOf(i) = tan_fragment(OutC(i), OutS(i), In1(i), <<Out(i)>>)
  BY DEF FragOf, NodeToFragment, ScatterOps, OutC, OutS, InC, InS, In1, In2, In3, Out, TensorVar
<1>2. FragOf(i).output_name = <<Out(i)>>
  BY <1>1 DEF tan_fragment, Plain, Frag
<1>3. b = tan_fragment(OutC(i), OutS(i), In1(i), <<Out(i)>>).body
  BY <1>1 DEF BodyOf
<1> HIDE DEF b
<1>4. Len(nodes[i].inputs) = 1 /\ nodes[i].weights = "none"
  BY DEF Accepted, NodeOK, LinearOK, UnaryOK, TableOK, MaskOK, BinaryOK, ConcatOK, ReshapingOK, UnaryOps, BinaryOps, ReduceOps, ScatterOps, NormOps
<1>5. Makes(b, Out(i), In1(i), {}, OutC(i), OutS(i), OutC(i), OutS(i))
  BY <1>3, PosShapes, TanFragment
<1>6. FilesOf(i) = {}
  BY <1>4 DEF FilesOf
<1>7. ShapeFits(i) => OutC(i) = InC(i) /\ OutS(i) = InS(i)
  BY DEF ShapeFits, ReduceOps, BinaryOps, OutC, OutS, InC, InS
<1>8. Sound(i, b)
  BY <1>4, <1>5, <1>6, <1>7, SoundMakes
<1> QED BY <1>2, <1>8 DEF b

LEMMA AsinNode ==
    ASSUME NEW i, Accepted(i), nodes[i].op = "ASIN"
    PROVE  Sound(i, BodyOf(i)) /\ FragOf(i).output_name = <<Out(i)>>
<1> DEFINE b == BodyOf(i)
<1>1. FragOf(i) = asin_fragment(OutC(i), OutS(i), In1(i), <<Out(i)>>)
  BY DEF FragOf, NodeToFragment, ScatterOps, OutC, OutS, InC, InS, In1, In2, In3, Out, TensorVar
<1>2. FragOf(i).output_name = <<Out(i)>>
  BY <1>1 DEF asin_fragment, Plain, Frag
<1>3. b = asin_fragment(OutC(i), OutS(i), In1(i), <<Out(i)>>).body
  BY <1>1 DEF BodyOf
<1> HIDE DEF b
<1>4. Len(nodes[i].inputs) = 1 /\ nodes[i].weights = "none"
  BY DEF Accepted, NodeOK, LinearOK, UnaryOK, TableOK, MaskOK, BinaryOK, ConcatOK, ReshapingOK, UnaryOps, BinaryOps, ReduceOps, ScatterOps, NormOps
<1>5. Makes(b, Out(i), In1(i), {}, OutC(i), OutS(i), OutC(i), OutS(i))
  BY <1>3, PosShapes, AsinFragment
<1>6. FilesOf(i) = {}
  BY <1>4 DEF FilesOf
<1>7. ShapeFits(i) => OutC(i) = InC(i) /\ OutS(i) = InS(i)
  BY DEF ShapeFits, ReduceOps, BinaryOps, OutC, OutS, InC, InS
<1>8. Sound(i, b)
  BY <1>4, <1>5, <1>6, <1>7, SoundMakes
<1> QED BY <1>2, <1>8 DEF b

LEMMA AcosNode ==
    ASSUME NEW i, Accepted(i), nodes[i].op = "ACOS"
    PROVE  Sound(i, BodyOf(i)) /\ FragOf(i).output_name = <<Out(i)>>
<1> DEFINE b == BodyOf(i)
<1>1. FragOf(i) = acos_fragment(OutC(i), OutS(i), In1(i), <<Out(i)>>)
  BY DEF FragOf, NodeToFragment, ScatterOps, OutC, OutS, InC, InS, In1, In2, In3, Out, TensorVar
<1>2. FragOf(i).output_name = <<Out(i)>>
  BY <1>1 DEF acos_fragment, Plain, Frag
<1>3. b = acos_fragment(OutC(i), OutS(i), In1(i), <<Out(i)>>).body
  BY <1>1 DEF BodyOf
<1> HIDE DEF b
<1>4. Len(nodes[i].inputs) = 1 /\ nodes[i].weights = "none"
  BY DEF Accepted, NodeOK, LinearOK, UnaryOK, TableOK, MaskOK, BinaryOK, ConcatOK, ReshapingOK, UnaryOps, BinaryOps, ReduceOps, ScatterOps, NormOps
<1>5. Makes(b, Out(i), In1(i), {}, OutC(i), OutS(i), OutC(i), OutS(i))
  BY <1>3, PosShapes, AcosFragment
<1>6. FilesOf(i) = {}
  BY <1>4 DEF FilesOf
<1>7. ShapeFits(i) => OutC(i) = InC(i) /\ OutS(i) = InS(i)
  BY DEF ShapeFits, ReduceOps, BinaryOps, OutC, OutS, InC, InS
<1>8. Sound(i, b)
  BY <1>4, <1>5, <1>6, <1>7, SoundMakes
<1> QED BY <1>2, <1>8 DEF b

LEMMA LogNode ==
    ASSUME NEW i, Accepted(i), nodes[i].op = "LOG"
    PROVE  Sound(i, BodyOf(i)) /\ FragOf(i).output_name = <<Out(i)>>
<1> DEFINE b == BodyOf(i)
<1>1. FragOf(i) = log_fragment(OutC(i), OutS(i), In1(i), <<Out(i)>>)
  BY DEF FragOf, NodeToFragment, ScatterOps, OutC, OutS, InC, InS, In1, In2, In3, Out, TensorVar
<1>2. FragOf(i).output_name = <<Out(i)>>
  BY <1>1 DEF log_fragment, Plain, Frag
<1>3. b = log_fragment(OutC(i), OutS(i), In1(i), <<Out(i)>>).body
  BY <1>1 DEF BodyOf
<1> HIDE DEF b
<1>4. Len(nodes[i].inputs) = 1 /\ nodes[i].weights = "none"
  BY DEF Accepted, NodeOK, LinearOK, UnaryOK, TableOK, MaskOK, BinaryOK, ConcatOK, ReshapingOK, UnaryOps, BinaryOps, ReduceOps, ScatterOps, NormOps
<1>5. Makes(b, Out(i), In1(i), {}, OutC(i), OutS(i), OutC(i), OutS(i))
  BY <1>3, PosShapes, LogFragment
<1>6. FilesOf(i) = {}
  BY <1>4 DEF FilesOf
<1>7. ShapeFits(i) => OutC(i) = InC(i) /\ OutS(i) = InS(i)
  BY DEF ShapeFits, ReduceOps, BinaryOps, OutC, OutS, InC, InS
<1>8. Sound(i, b)
  BY <1>4, <1>5, <1>6, <1>7, SoundMakes
<1> QED BY <1>2, <1>8 DEF b

LEMMA RsqrtNode ==
    ASSUME NEW i, Accepted(i), nodes[i].op = "RSQRT"
    PROVE  Sound(i, BodyOf(i)) /\ FragOf(i).output_name = <<Out(i)>>
<1> DEFINE b == BodyOf(i)
<1>1. FragOf(i) = rsqrt_fragment(OutC(i), OutS(i), In1(i), <<Out(i)>>)
  BY DEF FragOf, NodeToFragment, ScatterOps, OutC, OutS, InC, InS, In1, In2, In3, Out, TensorVar
<1>2. FragOf(i).output_name = <<Out(i)>>
  BY <1>1 DEF rsqrt_fragment, Plain, Frag
<1>3. b = rsqrt_fragment(OutC(i), OutS(i), In1(i), <<Out(i)>>).body
  BY <1>1 DEF BodyOf
<1> HIDE DEF b
<1>4. Len(nodes[i].inputs) = 1 /\ nodes[i].weights = "none"
  BY DEF Accepted, NodeOK, LinearOK, UnaryOK, TableOK, MaskOK, BinaryOK, ConcatOK, ReshapingOK, UnaryOps, BinaryOps, ReduceOps, ScatterOps, NormOps
<1>5. Makes(b, Out(i), In1(i), {}, OutC(i), OutS(i), OutC(i), OutS(i))
  BY <1>3, PosShapes, RsqrtFragment
<1>6. FilesOf(i) = {}
  BY <1>4 DEF FilesOf
<1>7. ShapeFits(i) => OutC(i) = InC(i) /\ OutS(i) = InS(i)
  BY DEF ShapeFits, ReduceOps, BinaryOps, OutC, OutS, InC, InS
<1>8. Sound(i, b)
  BY <1>4, <1>5, <1>6, <1>7, SoundMakes
<1> QED BY <1>2, <1>8 DEF b

LEMMA HardswishNode ==
    ASSUME NEW i, Accepted(i), nodes[i].op = "HARDSWISH"
    PROVE  Sound(i, BodyOf(i)) /\ FragOf(i).output_name = <<Out(i)>>
<1> DEFINE b == BodyOf(i)
<1>1. FragOf(i) = hardswish_fragment(OutC(i), OutS(i), In1(i), <<Out(i)>>)
  BY DEF FragOf, NodeToFragment, ScatterOps, OutC, OutS, InC, InS, In1, In2, In3, Out, TensorVar
<1>2. FragOf(i).output_name = <<Out(i)>>
  BY <1>1 DEF hardswish_fragment, Plain, Frag
<1>3. b = hardswish_fragment(OutC(i), OutS(i), In1(i), <<Out(i)>>).body
  BY <1>1 DEF BodyOf
<1> HIDE DEF b
<1>4. Len(nodes[i].inputs) = 1 /\ nodes[i].weights = "none"
  BY DEF Accepted, NodeOK, LinearOK, UnaryOK, TableOK, MaskOK, BinaryOK, ConcatOK, ReshapingOK, UnaryOps, BinaryOps, ReduceOps, ScatterOps, NormOps
<1>5. Makes(b, Out(i), In1(i), {}, OutC(i), OutS(i), OutC(i), OutS(i))
  BY <1>3, PosShapes, HardswishFragment
<1>6. FilesOf(i) = {}
  BY <1>4 DEF FilesOf
<1>7. ShapeFits(i) => OutC(i) = InC(i) /\ OutS(i) = InS(i)
  BY DEF ShapeFits, ReduceOps, BinaryOps, OutC, OutS, InC, InS
<1>8. Sound(i, b)
  BY <1>4, <1>5, <1>6, <1>7, SoundMakes
<1> QED BY <1>2, <1>8 DEF b

LEMMA LeakyReluNode ==
    ASSUME NEW i, Accepted(i), nodes[i].op = "LEAKY_RELU"
    PROVE  Sound(i, BodyOf(i)) /\ FragOf(i).output_name = <<Out(i)>>
<1> DEFINE b == BodyOf(i)
<1>1. FragOf(i) = leaky_relu_fragment(OutC(i), OutS(i), In1(i), <<Out(i)>>)
  BY DEF FragOf, NodeToFragment, ScatterOps, OutC, OutS, InC, InS, In1, In2, In3, Out, TensorVar
<1>2. FragOf(i).output_name = <<Out(i)>>
  BY <1>1 DEF leaky_relu_fragment, Plain, Frag
<1>3. b = leaky_relu_fragment(OutC(i), OutS(i), In1(i), <<Out(i)>>).body
  BY <1>1 DEF BodyOf
<1> HIDE DEF b
<1>4. Len(nodes[i].inputs) = 1 /\ nodes[i].weights = "none"
  BY DEF Accepted, NodeOK, LinearOK, UnaryOK, TableOK, MaskOK, BinaryOK, ConcatOK, ReshapingOK, UnaryOps, BinaryOps, ReduceOps, ScatterOps, NormOps
<1>5. Makes(b, Out(i), In1(i), {}, OutC(i), OutS(i), OutC(i), OutS(i))
  BY <1>3, PosShapes, LeakyReluFragment
<1>6. FilesOf(i) = {}
  BY <1>4 DEF FilesOf
<1>7. ShapeFits(i) => OutC(i) = InC(i) /\ OutS(i) = InS(i)
  BY DEF ShapeFits, ReduceOps, BinaryOps, OutC, OutS, InC, InS
<1>8. Sound(i, b)
  BY <1>4, <1>5, <1>6, <1>7, SoundMakes
<1> QED BY <1>2, <1>8 DEF b

LEMMA EluNode ==
    ASSUME NEW i, Accepted(i), nodes[i].op = "ELU"
    PROVE  Sound(i, BodyOf(i)) /\ FragOf(i).output_name = <<Out(i)>>
<1> DEFINE b == BodyOf(i)
<1>1. FragOf(i) = elu_fragment(OutC(i), OutS(i), In1(i), <<Out(i)>>)
  BY DEF FragOf, NodeToFragment, ScatterOps, OutC, OutS, InC, InS, In1, In2, In3, Out, TensorVar
<1>2. FragOf(i).output_name = <<Out(i)>>
  BY <1>1 DEF elu_fragment, Plain, Frag
<1>3. b = elu_fragment(OutC(i), OutS(i), In1(i), <<Out(i)>>).body
  BY <1>1 DEF BodyOf
<1> HIDE DEF b
<1>4. Len(nodes[i].inputs) = 1 /\ nodes[i].weights = "none"
  BY DEF Accepted, NodeOK, LinearOK, UnaryOK, TableOK, MaskOK, BinaryOK, ConcatOK, ReshapingOK, UnaryOps, BinaryOps, ReduceOps, ScatterOps, NormOps
<1>5. Makes(b, Out(i), In1(i), {}, OutC(i), OutS(i), OutC(i), OutS(i))
  BY <1>3, PosShapes, EluFragment
<1>6. FilesOf(i) = {}
  BY <1>4 DEF FilesOf
<1>7. ShapeFits(i) => OutC(i) = InC(i) /\ OutS(i) = InS(i)
  BY DEF ShapeFits, ReduceOps, BinaryOps, OutC, OutS, InC, InS
<1>8. Sound(i, b)
  BY <1>4, <1>5, <1>6, <1>7, SoundMakes
<1> QED BY <1>2, <1>8 DEF b

LEMMA AvgPoolNode ==
    ASSUME NEW i, Accepted(i), nodes[i].op = "AVG_POOL"
    PROVE  Sound(i, BodyOf(i)) /\ FragOf(i).output_name = <<Out(i)>>
<1> DEFINE b == BodyOf(i)
<1>1. FragOf(i) = One(OutC(i), OutS(i), "identity", <<In1(i)>>, <<Out(i)>>)
  BY DEF FragOf, NodeToFragment, ScatterOps, OutC, OutS, InC, InS, In1, In2, In3, Out, TensorVar, avg_pool_fragment
<1>2. FragOf(i).output_name = <<Out(i)>>
  BY <1>1 DEF One, Plain, Frag
<1>3. b = One(OutC(i), OutS(i), "identity", <<In1(i)>>, <<Out(i)>>).body
  BY <1>1 DEF BodyOf
<1> HIDE DEF b
<1>4. Len(nodes[i].inputs) = 1 /\ nodes[i].weights = "none"
  BY DEF Accepted, NodeOK, LinearOK, UnaryOK, TableOK, MaskOK, BinaryOK, ConcatOK, ReshapingOK, UnaryOps, BinaryOps, ReduceOps, ScatterOps, NormOps
<1>5. Makes(b, Out(i), In1(i), {}, OutC(i), OutS(i), OutC(i), OutS(i))
  <2>1. Plainly("identity")
    BY DEF Plainly, Elementwise, Reductions, Consts, Comparing
  <2> QED BY <1>3, <2>1, PosShapes, UnaryFragment
<1>6. FilesOf(i) = {}
  BY <1>4 DEF FilesOf
<1>7. ShapeFits(i) => OutC(i) = InC(i) /\ OutS(i) = InS(i)
  BY DEF ShapeFits, ReduceOps, BinaryOps, OutC, OutS, InC, InS
<1>8. Sound(i, b)
  BY <1>4, <1>5, <1>6, <1>7, SoundMakes
<1> QED BY <1>2, <1>8 DEF b

LEMMA MaxPoolNode ==
    ASSUME NEW i, Accepted(i), nodes[i].op = "MAX_POOL"
    PROVE  Sound(i, BodyOf(i)) /\ FragOf(i).output_name = <<Out(i)>>
<1> DEFINE b == BodyOf(i)
<1>1. FragOf(i) = One(OutC(i), OutS(i), "identity", <<In1(i)>>, <<Out(i)>>)
  BY DEF FragOf, NodeToFragment, ScatterOps, OutC, OutS, InC, InS, In1, In2, In3, Out, TensorVar, max_pool_fragment
<1>2. FragOf(i).output_name = <<Out(i)>>
  BY <1>1 DEF One, Plain, Frag
<1>3. b = One(OutC(i), OutS(i), "identity", <<In1(i)>>, <<Out(i)>>).body
  BY <1>1 DEF BodyOf
<1> HIDE DEF b
<1>4. Len(nodes[i].inputs) = 1 /\ nodes[i].weights = "none"
  BY DEF Accepted, NodeOK, LinearOK, UnaryOK, TableOK, MaskOK, BinaryOK, ConcatOK, ReshapingOK, UnaryOps, BinaryOps, ReduceOps, ScatterOps, NormOps
<1>5. Makes(b, Out(i), In1(i), {}, OutC(i), OutS(i), OutC(i), OutS(i))
  <2>1. Plainly("identity")
    BY DEF Plainly, Elementwise, Reductions, Consts, Comparing
  <2> QED BY <1>3, <2>1, PosShapes, UnaryFragment
<1>6. FilesOf(i) = {}
  BY <1>4 DEF FilesOf
<1>7. ShapeFits(i) => OutC(i) = InC(i) /\ OutS(i) = InS(i)
  BY DEF ShapeFits, ReduceOps, BinaryOps, OutC, OutS, InC, InS
<1>8. Sound(i, b)
  BY <1>4, <1>5, <1>6, <1>7, SoundMakes
<1> QED BY <1>2, <1>8 DEF b

LEMMA SqrtNode ==
    ASSUME NEW i, Accepted(i), nodes[i].op = "SQRT"
    PROVE  Sound(i, BodyOf(i)) /\ FragOf(i).output_name = <<Out(i)>>
<1> DEFINE b == BodyOf(i)
<1>1. FragOf(i) = One(OutC(i), OutS(i), "sqrt", <<In1(i)>>, <<Out(i)>>)
  BY DEF FragOf, NodeToFragment, ScatterOps, OutC, OutS, InC, InS, In1, In2, In3, Out, TensorVar, sqrt_fragment
<1>2. FragOf(i).output_name = <<Out(i)>>
  BY <1>1 DEF One, Plain, Frag
<1>3. b = One(OutC(i), OutS(i), "sqrt", <<In1(i)>>, <<Out(i)>>).body
  BY <1>1 DEF BodyOf
<1> HIDE DEF b
<1>4. Len(nodes[i].inputs) = 1 /\ nodes[i].weights = "none"
  BY DEF Accepted, NodeOK, LinearOK, UnaryOK, TableOK, MaskOK, BinaryOK, ConcatOK, ReshapingOK, UnaryOps, BinaryOps, ReduceOps, ScatterOps, NormOps
<1>5. Makes(b, Out(i), In1(i), {}, OutC(i), OutS(i), OutC(i), OutS(i))
  <2>1. Plainly("sqrt")
    BY DEF Plainly, Elementwise, Reductions, Consts, Comparing
  <2> QED BY <1>3, <2>1, PosShapes, UnaryFragment
<1>6. FilesOf(i) = {}
  BY <1>4 DEF FilesOf
<1>7. ShapeFits(i) => OutC(i) = InC(i) /\ OutS(i) = InS(i)
  BY DEF ShapeFits, ReduceOps, BinaryOps, OutC, OutS, InC, InS
<1>8. Sound(i, b)
  BY <1>4, <1>5, <1>6, <1>7, SoundMakes
<1> QED BY <1>2, <1>8 DEF b

LEMMA ReluNode ==
    ASSUME NEW i, Accepted(i), nodes[i].op = "RELU"
    PROVE  Sound(i, BodyOf(i)) /\ FragOf(i).output_name = <<Out(i)>>
<1> DEFINE b == BodyOf(i)
<1>1. FragOf(i) = One(OutC(i), OutS(i), "relu", <<In1(i)>>, <<Out(i)>>)
  BY DEF FragOf, NodeToFragment, ScatterOps, OutC, OutS, InC, InS, In1, In2, In3, Out, TensorVar, relu_fragment
<1>2. FragOf(i).output_name = <<Out(i)>>
  BY <1>1 DEF One, Plain, Frag
<1>3. b = One(OutC(i), OutS(i), "relu", <<In1(i)>>, <<Out(i)>>).body
  BY <1>1 DEF BodyOf
<1> HIDE DEF b
<1>4. Len(nodes[i].inputs) = 1 /\ nodes[i].weights = "none"
  BY DEF Accepted, NodeOK, LinearOK, UnaryOK, TableOK, MaskOK, BinaryOK, ConcatOK, ReshapingOK, UnaryOps, BinaryOps, ReduceOps, ScatterOps, NormOps
<1>5. Makes(b, Out(i), In1(i), {}, OutC(i), OutS(i), OutC(i), OutS(i))
  <2>1. Plainly("relu")
    BY DEF Plainly, Elementwise, Reductions, Consts, Comparing
  <2> QED BY <1>3, <2>1, PosShapes, UnaryFragment
<1>6. FilesOf(i) = {}
  BY <1>4 DEF FilesOf
<1>7. ShapeFits(i) => OutC(i) = InC(i) /\ OutS(i) = InS(i)
  BY DEF ShapeFits, ReduceOps, BinaryOps, OutC, OutS, InC, InS
<1>8. Sound(i, b)
  BY <1>4, <1>5, <1>6, <1>7, SoundMakes
<1> QED BY <1>2, <1>8 DEF b

LEMMA TanhNode ==
    ASSUME NEW i, Accepted(i), nodes[i].op = "TANH"
    PROVE  Sound(i, BodyOf(i)) /\ FragOf(i).output_name = <<Out(i)>>
<1> DEFINE b == BodyOf(i)
<1>1. FragOf(i) = One(OutC(i), OutS(i), "tanh", <<In1(i)>>, <<Out(i)>>)
  BY DEF FragOf, NodeToFragment, ScatterOps, OutC, OutS, InC, InS, In1, In2, In3, Out, TensorVar, tanh_fragment
<1>2. FragOf(i).output_name = <<Out(i)>>
  BY <1>1 DEF One, Plain, Frag
<1>3. b = One(OutC(i), OutS(i), "tanh", <<In1(i)>>, <<Out(i)>>).body
  BY <1>1 DEF BodyOf
<1> HIDE DEF b
<1>4. Len(nodes[i].inputs) = 1 /\ nodes[i].weights = "none"
  BY DEF Accepted, NodeOK, LinearOK, UnaryOK, TableOK, MaskOK, BinaryOK, ConcatOK, ReshapingOK, UnaryOps, BinaryOps, ReduceOps, ScatterOps, NormOps
<1>5. Makes(b, Out(i), In1(i), {}, OutC(i), OutS(i), OutC(i), OutS(i))
  <2>1. Plainly("tanh")
    BY DEF Plainly, Elementwise, Reductions, Consts, Comparing
  <2> QED BY <1>3, <2>1, PosShapes, UnaryFragment
<1>6. FilesOf(i) = {}
  BY <1>4 DEF FilesOf
<1>7. ShapeFits(i) => OutC(i) = InC(i) /\ OutS(i) = InS(i)
  BY DEF ShapeFits, ReduceOps, BinaryOps, OutC, OutS, InC, InS
<1>8. Sound(i, b)
  BY <1>4, <1>5, <1>6, <1>7, SoundMakes
<1> QED BY <1>2, <1>8 DEF b

LEMMA SigmoidNode ==
    ASSUME NEW i, Accepted(i), nodes[i].op = "SIGMOID"
    PROVE  Sound(i, BodyOf(i)) /\ FragOf(i).output_name = <<Out(i)>>
<1> DEFINE b == BodyOf(i)
<1>1. FragOf(i) = One(OutC(i), OutS(i), "sigmoid", <<In1(i)>>, <<Out(i)>>)
  BY DEF FragOf, NodeToFragment, ScatterOps, OutC, OutS, InC, InS, In1, In2, In3, Out, TensorVar, sigmoid_fragment
<1>2. FragOf(i).output_name = <<Out(i)>>
  BY <1>1 DEF One, Plain, Frag
<1>3. b = One(OutC(i), OutS(i), "sigmoid", <<In1(i)>>, <<Out(i)>>).body
  BY <1>1 DEF BodyOf
<1> HIDE DEF b
<1>4. Len(nodes[i].inputs) = 1 /\ nodes[i].weights = "none"
  BY DEF Accepted, NodeOK, LinearOK, UnaryOK, TableOK, MaskOK, BinaryOK, ConcatOK, ReshapingOK, UnaryOps, BinaryOps, ReduceOps, ScatterOps, NormOps
<1>5. Makes(b, Out(i), In1(i), {}, OutC(i), OutS(i), OutC(i), OutS(i))
  <2>1. Plainly("sigmoid")
    BY DEF Plainly, Elementwise, Reductions, Consts, Comparing
  <2> QED BY <1>3, <2>1, PosShapes, UnaryFragment
<1>6. FilesOf(i) = {}
  BY <1>4 DEF FilesOf
<1>7. ShapeFits(i) => OutC(i) = InC(i) /\ OutS(i) = InS(i)
  BY DEF ShapeFits, ReduceOps, BinaryOps, OutC, OutS, InC, InS
<1>8. Sound(i, b)
  BY <1>4, <1>5, <1>6, <1>7, SoundMakes
<1> QED BY <1>2, <1>8 DEF b

LEMMA ModNode ==
    ASSUME NEW i, Accepted(i), nodes[i].op = "MOD"
    PROVE  Sound(i, BodyOf(i)) /\ FragOf(i).output_name = <<Out(i)>>
<1> DEFINE b == BodyOf(i)
<1>1. FragOf(i) = mod_fragment(OutC(i), OutS(i), In1(i), In2(i), <<Out(i)>>)
  BY DEF FragOf, NodeToFragment, ScatterOps, OutC, OutS, InC, InS, In1, In2, In3, Out, TensorVar
<1>2. FragOf(i).output_name = <<Out(i)>>
  BY <1>1 DEF mod_fragment, Plain, Frag
<1>3. b = mod_fragment(OutC(i), OutS(i), In1(i), In2(i), <<Out(i)>>).body
  BY <1>1 DEF BodyOf
<1> HIDE DEF b
<1>4. Len(nodes[i].inputs) = 2 /\ nodes[i].weights = "none"
  BY DEF Accepted, NodeOK, LinearOK, UnaryOK, TableOK, MaskOK, BinaryOK, ConcatOK, ReshapingOK, UnaryOps, BinaryOps, ReduceOps, ScatterOps, NormOps
<1>5. Makes2(b, Out(i), In1(i), In2(i), {}, OutC(i), OutS(i))
  BY <1>3, PosShapes, ModFragment
<1>6. FilesOf(i) = {}
  BY <1>4 DEF FilesOf
<1>7. ShapeFits(i) => /\ ShapeOf(nodes[i].output) = ShapeOf(nodes[i].inputs[1])
                      /\ ShapeOf(nodes[i].output) = ShapeOf(nodes[i].inputs[2])
  BY DEF ShapeFits, ReduceOps, BinaryOps
<1>8. Sound(i, b)
  BY <1>4, <1>5, <1>6, <1>7, SoundMakes2
<1> QED BY <1>2, <1>8 DEF b

LEMMA LogicalAndNode ==
    ASSUME NEW i, Accepted(i), nodes[i].op = "LOGICAL_AND"
    PROVE  Sound(i, BodyOf(i)) /\ FragOf(i).output_name = <<Out(i)>>
<1> DEFINE b == BodyOf(i)
<1>1. FragOf(i) = logical_and_fragment(OutC(i), OutS(i), In1(i), In2(i), <<Out(i)>>)
  BY DEF FragOf, NodeToFragment, ScatterOps, OutC, OutS, InC, InS, In1, In2, In3, Out, TensorVar
<1>2. FragOf(i).output_name = <<Out(i)>>
  BY <1>1 DEF logical_and_fragment, Plain, Frag
<1>3. b = logical_and_fragment(OutC(i), OutS(i), In1(i), In2(i), <<Out(i)>>).body
  BY <1>1 DEF BodyOf
<1> HIDE DEF b
<1>4. Len(nodes[i].inputs) = 2 /\ nodes[i].weights = "none"
  BY DEF Accepted, NodeOK, LinearOK, UnaryOK, TableOK, MaskOK, BinaryOK, ConcatOK, ReshapingOK, UnaryOps, BinaryOps, ReduceOps, ScatterOps, NormOps
<1>5. Makes2(b, Out(i), In1(i), In2(i), {}, OutC(i), OutS(i))
  BY <1>3, PosShapes, LogicalAndFragment
<1>6. FilesOf(i) = {}
  BY <1>4 DEF FilesOf
<1>7. ShapeFits(i) => /\ ShapeOf(nodes[i].output) = ShapeOf(nodes[i].inputs[1])
                      /\ ShapeOf(nodes[i].output) = ShapeOf(nodes[i].inputs[2])
  BY DEF ShapeFits, ReduceOps, BinaryOps
<1>8. Sound(i, b)
  BY <1>4, <1>5, <1>6, <1>7, SoundMakes2
<1> QED BY <1>2, <1>8 DEF b

LEMMA LogicalOrNode ==
    ASSUME NEW i, Accepted(i), nodes[i].op = "LOGICAL_OR"
    PROVE  Sound(i, BodyOf(i)) /\ FragOf(i).output_name = <<Out(i)>>
<1> DEFINE b == BodyOf(i)
<1>1. FragOf(i) = logical_or_fragment(OutC(i), OutS(i), In1(i), In2(i), <<Out(i)>>)
  BY DEF FragOf, NodeToFragment, ScatterOps, OutC, OutS, InC, InS, In1, In2, In3, Out, TensorVar
<1>2. FragOf(i).output_name = <<Out(i)>>
  BY <1>1 DEF logical_or_fragment, Plain, Frag
<1>3. b = logical_or_fragment(OutC(i), OutS(i), In1(i), In2(i), <<Out(i)>>).body
  BY <1>1 DEF BodyOf
<1> HIDE DEF b
<1>4. Len(nodes[i].inputs) = 2 /\ nodes[i].weights = "none"
  BY DEF Accepted, NodeOK, LinearOK, UnaryOK, TableOK, MaskOK, BinaryOK, ConcatOK, ReshapingOK, UnaryOps, BinaryOps, ReduceOps, ScatterOps, NormOps
<1>5. Makes2(b, Out(i), In1(i), In2(i), {}, OutC(i), OutS(i))
  BY <1>3, PosShapes, LogicalOrFragment
<1>6. FilesOf(i) = {}
  BY <1>4 DEF FilesOf
<1>7. ShapeFits(i) => /\ ShapeOf(nodes[i].output) = ShapeOf(nodes[i].inputs[1])
                      /\ ShapeOf(nodes[i].output) = ShapeOf(nodes[i].inputs[2])
  BY DEF ShapeFits, ReduceOps, BinaryOps
<1>8. Sound(i, b)
  BY <1>4, <1>5, <1>6, <1>7, SoundMakes2
<1> QED BY <1>2, <1>8 DEF b

LEMMA LogicalXorNode ==
    ASSUME NEW i, Accepted(i), nodes[i].op = "LOGICAL_XOR"
    PROVE  Sound(i, BodyOf(i)) /\ FragOf(i).output_name = <<Out(i)>>
<1> DEFINE b == BodyOf(i)
<1>1. FragOf(i) = logical_xor_fragment(OutC(i), OutS(i), In1(i), In2(i), <<Out(i)>>)
  BY DEF FragOf, NodeToFragment, ScatterOps, OutC, OutS, InC, InS, In1, In2, In3, Out, TensorVar
<1>2. FragOf(i).output_name = <<Out(i)>>
  BY <1>1 DEF logical_xor_fragment, Plain, Frag
<1>3. b = logical_xor_fragment(OutC(i), OutS(i), In1(i), In2(i), <<Out(i)>>).body
  BY <1>1 DEF BodyOf
<1> HIDE DEF b
<1>4. Len(nodes[i].inputs) = 2 /\ nodes[i].weights = "none"
  BY DEF Accepted, NodeOK, LinearOK, UnaryOK, TableOK, MaskOK, BinaryOK, ConcatOK, ReshapingOK, UnaryOps, BinaryOps, ReduceOps, ScatterOps, NormOps
<1>5. Makes2(b, Out(i), In1(i), In2(i), {}, OutC(i), OutS(i))
  BY <1>3, PosShapes, LogicalXorFragment
<1>6. FilesOf(i) = {}
  BY <1>4 DEF FilesOf
<1>7. ShapeFits(i) => /\ ShapeOf(nodes[i].output) = ShapeOf(nodes[i].inputs[1])
                      /\ ShapeOf(nodes[i].output) = ShapeOf(nodes[i].inputs[2])
  BY DEF ShapeFits, ReduceOps, BinaryOps
<1>8. Sound(i, b)
  BY <1>4, <1>5, <1>6, <1>7, SoundMakes2
<1> QED BY <1>2, <1>8 DEF b

LEMMA AddNode ==
    ASSUME NEW i, Accepted(i), nodes[i].op = "ADD"
    PROVE  Sound(i, BodyOf(i)) /\ FragOf(i).output_name = <<Out(i)>>
<1> DEFINE b == BodyOf(i)
<1>1. FragOf(i) = One(OutC(i), OutS(i), "add", <<In1(i), In2(i)>>, <<Out(i)>>)
  BY DEF FragOf, NodeToFragment, ScatterOps, OutC, OutS, InC, InS, In1, In2, In3, Out, TensorVar, add_fragment
<1>2. FragOf(i).output_name = <<Out(i)>>
  BY <1>1 DEF One, Plain, Frag
<1>3. b = One(OutC(i), OutS(i), "add", <<In1(i), In2(i)>>, <<Out(i)>>).body
  BY <1>1 DEF BodyOf
<1> HIDE DEF b
<1>4. Len(nodes[i].inputs) = 2 /\ nodes[i].weights = "none"
  BY DEF Accepted, NodeOK, LinearOK, UnaryOK, TableOK, MaskOK, BinaryOK, ConcatOK, ReshapingOK, UnaryOps, BinaryOps, ReduceOps, ScatterOps, NormOps
<1>5. Makes2(b, Out(i), In1(i), In2(i), {}, OutC(i), OutS(i))
  <2>1. Plainly("add")
    BY DEF Plainly, Elementwise, Reductions, Consts, Comparing
  <2> QED BY <1>3, <2>1, PosShapes, BinaryFragment
<1>6. FilesOf(i) = {}
  BY <1>4 DEF FilesOf
<1>7. ShapeFits(i) => /\ ShapeOf(nodes[i].output) = ShapeOf(nodes[i].inputs[1])
                      /\ ShapeOf(nodes[i].output) = ShapeOf(nodes[i].inputs[2])
  BY DEF ShapeFits, ReduceOps, BinaryOps
<1>8. Sound(i, b)
  BY <1>4, <1>5, <1>6, <1>7, SoundMakes2
<1> QED BY <1>2, <1>8 DEF b

LEMMA MulNode ==
    ASSUME NEW i, Accepted(i), nodes[i].op = "MUL"
    PROVE  Sound(i, BodyOf(i)) /\ FragOf(i).output_name = <<Out(i)>>
<1> DEFINE b == BodyOf(i)
<1>1. FragOf(i) = One(OutC(i), OutS(i), "mul", <<In1(i), In2(i)>>, <<Out(i)>>)
  BY DEF FragOf, NodeToFragment, ScatterOps, OutC, OutS, InC, InS, In1, In2, In3, Out, TensorVar, mul_fragment
<1>2. FragOf(i).output_name = <<Out(i)>>
  BY <1>1 DEF One, Plain, Frag
<1>3. b = One(OutC(i), OutS(i), "mul", <<In1(i), In2(i)>>, <<Out(i)>>).body
  BY <1>1 DEF BodyOf
<1> HIDE DEF b
<1>4. Len(nodes[i].inputs) = 2 /\ nodes[i].weights = "none"
  BY DEF Accepted, NodeOK, LinearOK, UnaryOK, TableOK, MaskOK, BinaryOK, ConcatOK, ReshapingOK, UnaryOps, BinaryOps, ReduceOps, ScatterOps, NormOps
<1>5. Makes2(b, Out(i), In1(i), In2(i), {}, OutC(i), OutS(i))
  <2>1. Plainly("mul")
    BY DEF Plainly, Elementwise, Reductions, Consts, Comparing
  <2> QED BY <1>3, <2>1, PosShapes, BinaryFragment
<1>6. FilesOf(i) = {}
  BY <1>4 DEF FilesOf
<1>7. ShapeFits(i) => /\ ShapeOf(nodes[i].output) = ShapeOf(nodes[i].inputs[1])
                      /\ ShapeOf(nodes[i].output) = ShapeOf(nodes[i].inputs[2])
  BY DEF ShapeFits, ReduceOps, BinaryOps
<1>8. Sound(i, b)
  BY <1>4, <1>5, <1>6, <1>7, SoundMakes2
<1> QED BY <1>2, <1>8 DEF b

LEMMA SubNode ==
    ASSUME NEW i, Accepted(i), nodes[i].op = "SUB"
    PROVE  Sound(i, BodyOf(i)) /\ FragOf(i).output_name = <<Out(i)>>
<1> DEFINE b == BodyOf(i)
<1>1. FragOf(i) = One(OutC(i), OutS(i), "sub", <<In1(i), In2(i)>>, <<Out(i)>>)
  BY DEF FragOf, NodeToFragment, ScatterOps, OutC, OutS, InC, InS, In1, In2, In3, Out, TensorVar, sub_fragment
<1>2. FragOf(i).output_name = <<Out(i)>>
  BY <1>1 DEF One, Plain, Frag
<1>3. b = One(OutC(i), OutS(i), "sub", <<In1(i), In2(i)>>, <<Out(i)>>).body
  BY <1>1 DEF BodyOf
<1> HIDE DEF b
<1>4. Len(nodes[i].inputs) = 2 /\ nodes[i].weights = "none"
  BY DEF Accepted, NodeOK, LinearOK, UnaryOK, TableOK, MaskOK, BinaryOK, ConcatOK, ReshapingOK, UnaryOps, BinaryOps, ReduceOps, ScatterOps, NormOps
<1>5. Makes2(b, Out(i), In1(i), In2(i), {}, OutC(i), OutS(i))
  <2>1. Plainly("sub")
    BY DEF Plainly, Elementwise, Reductions, Consts, Comparing
  <2> QED BY <1>3, <2>1, PosShapes, BinaryFragment
<1>6. FilesOf(i) = {}
  BY <1>4 DEF FilesOf
<1>7. ShapeFits(i) => /\ ShapeOf(nodes[i].output) = ShapeOf(nodes[i].inputs[1])
                      /\ ShapeOf(nodes[i].output) = ShapeOf(nodes[i].inputs[2])
  BY DEF ShapeFits, ReduceOps, BinaryOps
<1>8. Sound(i, b)
  BY <1>4, <1>5, <1>6, <1>7, SoundMakes2
<1> QED BY <1>2, <1>8 DEF b

LEMMA RealDivNode ==
    ASSUME NEW i, Accepted(i), nodes[i].op = "REAL_DIV"
    PROVE  Sound(i, BodyOf(i)) /\ FragOf(i).output_name = <<Out(i)>>
<1> DEFINE b == BodyOf(i)
<1>1. FragOf(i) = One(OutC(i), OutS(i), "real_div", <<In1(i), In2(i)>>, <<Out(i)>>)
  BY DEF FragOf, NodeToFragment, ScatterOps, OutC, OutS, InC, InS, In1, In2, In3, Out, TensorVar, real_div_fragment
<1>2. FragOf(i).output_name = <<Out(i)>>
  BY <1>1 DEF One, Plain, Frag
<1>3. b = One(OutC(i), OutS(i), "real_div", <<In1(i), In2(i)>>, <<Out(i)>>).body
  BY <1>1 DEF BodyOf
<1> HIDE DEF b
<1>4. Len(nodes[i].inputs) = 2 /\ nodes[i].weights = "none"
  BY DEF Accepted, NodeOK, LinearOK, UnaryOK, TableOK, MaskOK, BinaryOK, ConcatOK, ReshapingOK, UnaryOps, BinaryOps, ReduceOps, ScatterOps, NormOps
<1>5. Makes2(b, Out(i), In1(i), In2(i), {}, OutC(i), OutS(i))
  <2>1. Plainly("real_div")
    BY DEF Plainly, Elementwise, Reductions, Consts, Comparing
  <2> QED BY <1>3, <2>1, PosShapes, BinaryFragment
<1>6. FilesOf(i) = {}
  BY <1>4 DEF FilesOf
<1>7. ShapeFits(i) => /\ ShapeOf(nodes[i].output) = ShapeOf(nodes[i].inputs[1])
                      /\ ShapeOf(nodes[i].output) = ShapeOf(nodes[i].inputs[2])
  BY DEF ShapeFits, ReduceOps, BinaryOps
<1>8. Sound(i, b)
  BY <1>4, <1>5, <1>6, <1>7, SoundMakes2
<1> QED BY <1>2, <1>8 DEF b

LEMMA GatherDynamicNode ==
    ASSUME NEW i, Accepted(i), nodes[i].op = "GATHER", Len(nodes[i].inputs) # 1
    PROVE  Sound(i, BodyOf(i)) /\ FragOf(i).output_name = <<Out(i)>>
<1> DEFINE b == BodyOf(i)
<1>1. FragOf(i) = One(OutC(i), OutS(i), "mul", <<In1(i), In2(i)>>, <<Out(i)>>)
  BY DEF FragOf, NodeToFragment, ScatterOps, OutC, OutS, InC, InS, In1, In2, In3, Out, TensorVar, gather_dynamic_mask_fragment
<1>2. FragOf(i).output_name = <<Out(i)>>
  BY <1>1 DEF One, Plain, Frag
<1>3. b = One(OutC(i), OutS(i), "mul", <<In1(i), In2(i)>>, <<Out(i)>>).body
  BY <1>1 DEF BodyOf
<1> HIDE DEF b
<1>4. Len(nodes[i].inputs) = 2 /\ nodes[i].weights = "none"
  BY DEF Accepted, NodeOK, LinearOK, UnaryOK, TableOK, MaskOK, BinaryOK, ConcatOK, ReshapingOK, UnaryOps, BinaryOps, ReduceOps, ScatterOps, NormOps
<1>5. Makes2(b, Out(i), In1(i), In2(i), {}, OutC(i), OutS(i))
  <2>1. Plainly("mul")
    BY DEF Plainly, Elementwise, Reductions, Consts, Comparing
  <2> QED BY <1>3, <2>1, PosShapes, BinaryFragment
<1>6. FilesOf(i) = {}
  BY <1>4 DEF FilesOf
<1>7. ShapeFits(i) => /\ ShapeOf(nodes[i].output) = ShapeOf(nodes[i].inputs[1])
                      /\ ShapeOf(nodes[i].output) = ShapeOf(nodes[i].inputs[2])
  BY <1>4 DEF Accepted, NodeOK, LinearOK, UnaryOK, TableOK, MaskOK, BinaryOK, ConcatOK, ReshapingOK, UnaryOps, BinaryOps, ReduceOps, ScatterOps, NormOps
<1>8. Sound(i, b)
  BY <1>4, <1>5, <1>6, <1>7, SoundMakes2
<1> QED BY <1>2, <1>8 DEF b

LEMMA MatmulNode ==
    ASSUME NEW i, Accepted(i), nodes[i].op = "MATMUL"
    PROVE  Sound(i, BodyOf(i)) /\ FragOf(i).output_name = <<Out(i)>>
<1> DEFINE b == BodyOf(i)
<1>0. GammaFile(i) = <<i>> /\ nodes[i].weights # "none"
  BY DEF Accepted, GammaFile, NodeOK, LinearOK, UnaryOK, TableOK, MaskOK, BinaryOK, ConcatOK, ReshapingOK, UnaryOps, BinaryOps, ReduceOps, ScatterOps, NormOps
<1>1. FragOf(i) = matmul_fragment(InC(i), OutC(i), OutS(i), In1(i), <<Out(i)>>, <<i>>)
  BY <1>0 DEF FragOf, NodeToFragment, ScatterOps, OutC, OutS, InC, InS, In1, In2, In3, Out, TensorVar
<1>2. FragOf(i).output_name = <<Out(i)>>
  BY <1>1 DEF matmul_fragment, Frag
<1>3. b = matmul_fragment(InC(i), OutC(i), OutS(i), In1(i), <<Out(i)>>, <<i>>).body
  BY <1>1 DEF BodyOf
<1> HIDE DEF b
<1>4. Len(nodes[i].inputs) = 1
  BY DEF Accepted, NodeOK, LinearOK, UnaryOK, TableOK, MaskOK, BinaryOK, ConcatOK, ReshapingOK, UnaryOps, BinaryOps, ReduceOps, ScatterOps, NormOps
<1>5. Makes(b, Out(i), In1(i), {<<<<i>>, <<OutC(i), InC(i), 1, 1>>>>}, InC(i), OutS(i), OutC(i), OutS(i))
  BY <1>3, MatmulFragment
<1>6. FilesOf(i) = {<<<<i>>, <<OutC(i), InC(i), 1, 1>>>>}
  BY <1>4, <1>0 DEF FilesOf, OutC, InC
<1>7. ShapeFits(i) => OutS(i) = InS(i)
  BY DEF ShapeFits, ReduceOps, BinaryOps, OutC, OutS, InC, InS
<1>8. Sound(i, b)
  BY <1>4, <1>5, <1>6, <1>7, SoundMakes
<1> QED BY <1>2, <1>8 DEF b

LEMMA RmsnormNode ==
    ASSUME NEW i, Accepted(i), nodes[i].op = "RMSNORM"
    PROVE  Sound(i, BodyOf(i)) /\ FragOf(i).output_name = <<Out(i)>>
<1> DEFINE b == BodyOf(i)
<1>0. GammaFile(i) = <<i>> /\ nodes[i].weights # "none"
  BY DEF Accepted, GammaFile, NodeOK, LinearOK, UnaryOK, TableOK, MaskOK, BinaryOK, ConcatOK, ReshapingOK, UnaryOps, BinaryOps, ReduceOps, ScatterOps, NormOps
<1>1. FragOf(i) = rmsnorm_fragment(InC(i), InS(i), In1(i), <<Out(i)>>, <<i>>)
  BY <1>0 DEF FragOf, NodeToFragment, ScatterOps, OutC, OutS, InC, InS, In1, In2, In3, Out, TensorVar
<1>2. FragOf(i).output_name = <<Out(i)>>
  BY <1>1 DEF rmsnorm_fragment, Plain, Frag
<1>3. b = rmsnorm_fragment(InC(i), InS(i), In1(i), <<Out(i)>>, <<i>>).body
  BY <1>1 DEF BodyOf
<1> HIDE DEF b
<1>4. Len(nodes[i].inputs) = 1
  BY DEF Accepted, NodeOK, LinearOK, UnaryOK, TableOK, MaskOK, BinaryOK, ConcatOK, ReshapingOK, UnaryOps, BinaryOps, ReduceOps, ScatterOps, NormOps
<1>5. Makes(b, Out(i), In1(i), {<<<<i>>, <<1, InC(i), 1, 1>>>>}, InC(i), InS(i), InC(i), InS(i))
  BY <1>3, PosShapes, RmsnormFragment
<1>6. FilesOf(i) = {<<<<i>>, <<1, InC(i), 1, 1>>>>}
  BY <1>4, <1>0 DEF FilesOf, InC
<1>7. ShapeFits(i) => OutC(i) = InC(i) /\ OutS(i) = InS(i)
  BY DEF ShapeFits, ReduceOps, BinaryOps, OutC, OutS, InC, InS
<1>8. Sound(i, b)
  BY <1>4, <1>5, <1>6, <1>7, SoundMakes
<1> QED BY <1>2, <1>8 DEF b

LEMMA LayernormNode ==
    ASSUME NEW i, Accepted(i), nodes[i].op \in {"LAYERNORM", "LAYER_NORM"}
    PROVE  Sound(i, BodyOf(i)) /\ FragOf(i).output_name = <<Out(i)>>
<1> DEFINE b == BodyOf(i)
<1>0. GammaFile(i) = <<i>> /\ nodes[i].weights # "none"
  BY DEF Accepted, GammaFile, NodeOK, LinearOK, UnaryOK, TableOK, MaskOK, BinaryOK, ConcatOK, ReshapingOK, UnaryOps, BinaryOps, ReduceOps, ScatterOps, NormOps
<1>1. FragOf(i) = layernorm_fragment(InC(i), InS(i), In1(i), <<Out(i)>>, <<i>>, BetaFile(i))
  BY <1>0 DEF FragOf, NodeToFragment, ScatterOps, OutC, OutS, InC, InS, In1, In2, In3, Out, TensorVar
<1>2. FragOf(i).output_name = <<Out(i)>>
  BY <1>1 DEF layernorm_fragment, Plain, Frag
<1>3. b = layernorm_fragment(InC(i), InS(i), In1(i), <<Out(i)>>, <<i>>, BetaFile(i)).body
  BY <1>1 DEF BodyOf
<1> HIDE DEF b
<1>4. Len(nodes[i].inputs) = 1
  BY DEF Accepted, NodeOK, LinearOK, UnaryOK, TableOK, MaskOK, BinaryOK, ConcatOK, ReshapingOK, UnaryOps, BinaryOps, ReduceOps, ScatterOps, NormOps
<1>5. Makes(b, Out(i), In1(i), {<<<<i>>, <<1, InC(i), 1, 1>>>>, <<BetaFile(i), <<1, InC(i), 1, 1>>>>}, InC(i), InS(i), InC(i), InS(i))
  BY <1>3, PosShapes, LayernormFragment
<1>6. FilesOf(i) = {<<<<i>>, <<1, InC(i), 1, 1>>>>, <<BetaFile(i), <<1, InC(i), 1, 1>>>>}
  BY <1>4, <1>0 DEF FilesOf, InC
<1>7. ShapeFits(i) => OutC(i) = InC(i) /\ OutS(i) = InS(i)
  BY DEF ShapeFits, ReduceOps, BinaryOps, OutC, OutS, InC, InS
<1>8. Sound(i, b)
  BY <1>4, <1>5, <1>6, <1>7, SoundMakes
<1> QED BY <1>2, <1>8 DEF b

LEMMA ScatterNode ==
    ASSUME NEW i, Accepted(i), nodes[i].op \in ScatterOps
    PROVE  Sound(i, BodyOf(i)) /\ FragOf(i).output_name = <<Out(i)>>
<1> DEFINE b == BodyOf(i)
<1>0. GammaFile(i) = <<i>> /\ nodes[i].weights # "none"
  BY DEF Accepted, GammaFile, NodeOK, LinearOK, UnaryOK, TableOK, MaskOK, BinaryOK, ConcatOK, ReshapingOK, UnaryOps, BinaryOps, ReduceOps, ScatterOps, NormOps
<1>1. FragOf(i) = scatter_static_mask_fragment(OutC(i), OutS(i), In1(i), In2(i), <<Out(i)>>, <<i>>)
  BY <1>0 DEF FragOf, NodeToFragment, ScatterOps, OutC, OutS, InC, InS, In1, In2, In3, Out, TensorVar
<1>2. FragOf(i).output_name = <<Out(i)>>
  BY <1>1 DEF scatter_static_mask_fragment, Plain, Frag
<1>3. b = scatter_static_mask_fragment(OutC(i), OutS(i), In1(i), In2(i), <<Out(i)>>, <<i>>).body
  BY <1>1 DEF BodyOf
<1> HIDE DEF b
<1>4. Len(nodes[i].inputs) = 2
  BY DEF Accepted, NodeOK, LinearOK, UnaryOK, TableOK, MaskOK, BinaryOK, ConcatOK, ReshapingOK, UnaryOps, BinaryOps, ReduceOps, ScatterOps, NormOps
<1>5. Makes2(b, Out(i), In1(i), In2(i), {<<<<i>>, <<1, OutC(i), 1, OutS(i)>>>>}, OutC(i), OutS(i))
  BY <1>3, PosShapes, ScatterStaticMaskFragment
<1>6. FilesOf(i) = {<<<<i>>, <<1, OutC(i), 1, OutS(i)>>>>}
  BY <1>4, <1>0 DEF FilesOf, IsMask, ScatterOps, OutC, OutS
<1>7. ShapeFits(i) => /\ ShapeOf(nodes[i].output) = ShapeOf(nodes[i].inputs[1])
                      /\ ShapeOf(nodes[i].output) = ShapeOf(nodes[i].inputs[2])
  BY <1>4 DEF Accepted, NodeOK, LinearOK, UnaryOK, TableOK, MaskOK, BinaryOK, ConcatOK, ReshapingOK, UnaryOps, BinaryOps, ReduceOps, ScatterOps, NormOps
<1>8. Sound(i, b)
  BY <1>4, <1>5, <1>6, <1>7, SoundMakes2
<1> QED BY <1>2, <1>8 DEF b

LEMMA GatherNode ==
    ASSUME NEW i, Accepted(i), nodes[i].op = "GATHER", Len(nodes[i].inputs) = 1
    PROVE  Sound(i, BodyOf(i)) /\ FragOf(i).output_name = <<Out(i)>>
<1> DEFINE b == BodyOf(i)
<1>0. GammaFile(i) = <<i>> /\ nodes[i].weights # "none"
  BY DEF Accepted, GammaFile, NodeOK, LinearOK, UnaryOK, TableOK, MaskOK, BinaryOK, ConcatOK, ReshapingOK, UnaryOps, BinaryOps, ReduceOps, ScatterOps, NormOps
<1>1. FragOf(i) = gather_static_mask_fragment(OutC(i), OutS(i), In1(i), <<Out(i)>>, <<i>>)
  BY <1>0 DEF FragOf, NodeToFragment, ScatterOps, OutC, OutS, InC, InS, In1, In2, In3, Out, TensorVar
<1>2. FragOf(i).output_name = <<Out(i)>>
  BY <1>1 DEF gather_static_mask_fragment, Plain, Frag
<1>3. b = gather_static_mask_fragment(OutC(i), OutS(i), In1(i), <<Out(i)>>, <<i>>).body
  BY <1>1 DEF BodyOf
<1> HIDE DEF b
<1>4. Len(nodes[i].inputs) = 1
  BY DEF Accepted, NodeOK, LinearOK, UnaryOK, TableOK, MaskOK, BinaryOK, ConcatOK, ReshapingOK, UnaryOps, BinaryOps, ReduceOps, ScatterOps, NormOps
<1>5. Makes(b, Out(i), In1(i), {<<<<i>>, <<1, OutC(i), 1, OutS(i)>>>>}, OutC(i), OutS(i), OutC(i), OutS(i))
  BY <1>3, PosShapes, GatherStaticMaskFragment
<1>6. FilesOf(i) = {<<<<i>>, <<1, OutC(i), 1, OutS(i)>>>>}
  BY <1>4, <1>0 DEF FilesOf, IsMask, ScatterOps, OutC, OutS
<1>7. ShapeFits(i) => OutC(i) = InC(i) /\ OutS(i) = InS(i)
  BY DEF ShapeFits, ReduceOps, BinaryOps, OutC, OutS, InC, InS
<1>8. Sound(i, b)
  BY <1>4, <1>5, <1>6, <1>7, SoundMakes
<1> QED BY <1>2, <1>8 DEF b

LEMMA PwlNode ==
    ASSUME NEW i, Accepted(i), nodes[i].op = "PWL_ACTIVATION"
    PROVE  Sound(i, BodyOf(i)) /\ FragOf(i).output_name = <<Out(i)>>
<1> DEFINE b == BodyOf(i)
<1>1. FragOf(i) = pwl_activation_fragment(OutC(i), OutS(i), nodes[i].factor, In1(i), <<Out(i)>>)
  BY DEF FragOf, NodeToFragment, ScatterOps, OutC, OutS, InC, InS, In1, In2, In3, Out, TensorVar
<1>2. FragOf(i).output_name = <<Out(i)>>
  BY <1>1 DEF pwl_activation_fragment, Plain, Frag
<1>3. b = pwl_activation_fragment(OutC(i), OutS(i), nodes[i].factor, In1(i), <<Out(i)>>).body
  BY <1>1 DEF BodyOf
<1> HIDE DEF b
<1>4. Len(nodes[i].inputs) = 1 /\ nodes[i].factor \in Nat /\ nodes[i].factor >= 2
  BY DEF Accepted, NodeOK, LinearOK, UnaryOK, TableOK, MaskOK, BinaryOK, ConcatOK, ReshapingOK, UnaryOps, BinaryOps, ReduceOps, ScatterOps, NormOps
<1>5. Makes(b, Out(i), In1(i), {}, OutC(i), OutS(i), OutC(i), OutS(i))
  BY <1>3, <1>4, PosShapes, PwlFragment
<1>6. FilesOf(i) = {}
  BY <1>4 DEF FilesOf, IsMask, ScatterOps
<1>7. ShapeFits(i) => OutC(i) = InC(i) /\ OutS(i) = InS(i)
  BY DEF ShapeFits, ReduceOps, BinaryOps, OutC, OutS, InC, InS
<1>8. Sound(i, b)
  BY <1>4, <1>5, <1>6, <1>7, SoundMakes
<1> QED BY <1>2, <1>8 DEF b

LEMMA TransposeNode ==
    ASSUME NEW i, Accepted(i), nodes[i].op = "TRANSPOSE"
    PROVE  Sound(i, BodyOf(i)) /\ FragOf(i).output_name = <<Out(i)>>
<1> DEFINE b == BodyOf(i)
<1>1. FragOf(i) = transpose_fragment(InC(i), InS(i), In1(i), <<Out(i)>>)
  BY DEF FragOf, NodeToFragment, ScatterOps, OutC, OutS, InC, InS, In1, In2, In3, Out, TensorVar
<1>2. FragOf(i).output_name = <<Out(i)>>
  BY <1>1 DEF transpose_fragment, Frag
<1>3. b = transpose_fragment(InC(i), InS(i), In1(i), <<Out(i)>>).body
  BY <1>1 DEF BodyOf
<1> HIDE DEF b
<1>4. Len(nodes[i].inputs) = 1 /\ nodes[i].weights = "none"
  BY DEF Accepted, NodeOK, LinearOK, UnaryOK, TableOK, MaskOK, BinaryOK, ConcatOK, ReshapingOK, UnaryOps, BinaryOps, ReduceOps, ScatterOps, NormOps
<1>5. Makes(b, Out(i), In1(i), {}, InC(i), InS(i), InS(i), InC(i))
  BY <1>3, PosShapes, TransposeFragment
<1>6. FilesOf(i) = {}
  BY <1>4 DEF FilesOf
<1>7. ShapeFits(i) => OutC(i) = InS(i) /\ OutS(i) = InC(i)
  BY DEF ShapeFits, ReduceOps, BinaryOps, OutC, OutS, InC, InS, Sh
<1>8. Sound(i, b)
  BY <1>4, <1>5, <1>6, <1>7, SoundMakes
<1> QED BY <1>2, <1>8 DEF b

LEMMA ReshapeNode ==
    ASSUME NEW i, Accepted(i), nodes[i].op = "RESHAPE"
    PROVE  Sound(i, BodyOf(i)) /\ FragOf(i).output_name = <<Out(i)>>
<1> DEFINE b == BodyOf(i)
<1>1. FragOf(i) = reshape_fragment(InC(i), InS(i), OutC(i), OutS(i), In1(i), <<Out(i)>>)
  BY DEF FragOf, NodeToFragment, ScatterOps, OutC, OutS, InC, InS, In1, In2, In3, Out, TensorVar
<1>2. FragOf(i).output_name = <<Out(i)>>
  BY <1>1 DEF reshape_fragment, Frag
<1>3. b = reshape_fragment(InC(i), InS(i), OutC(i), OutS(i), In1(i), <<Out(i)>>).body
  BY <1>1 DEF BodyOf
<1> HIDE DEF b
<1>4. Len(nodes[i].inputs) = 1 /\ nodes[i].weights = "none"
  BY DEF Accepted, NodeOK, LinearOK, UnaryOK, TableOK, MaskOK, BinaryOK, ConcatOK, ReshapingOK, UnaryOps, BinaryOps, ReduceOps, ScatterOps, NormOps
<1>5. Makes(b, Out(i), In1(i), {}, InC(i), InS(i), OutC(i), OutS(i))
  <2>1. SameSize(InC(i), InS(i), OutC(i), OutS(i))
    BY DEF Accepted, SameSize, InC, InS, OutC, OutS, NodeOK, LinearOK, UnaryOK, TableOK, MaskOK, BinaryOK, ConcatOK, ReshapingOK, UnaryOps, BinaryOps, ReduceOps, ScatterOps, NormOps
  <2> QED BY <1>3, <2>1, PosShapes, ReshapeFragment
<1>6. FilesOf(i) = {}
  BY <1>4 DEF FilesOf
<1>8. Sound(i, b)
  BY <1>4, <1>5, <1>6, SoundMakes
<1> QED BY <1>2, <1>8 DEF b

LEMMA SliceNode ==
    ASSUME NEW i, Accepted(i), nodes[i].op = "SLICE_BY_INDEX"
    PROVE  Sound(i, BodyOf(i)) /\ FragOf(i).output_name = <<Out(i)>>
<1> DEFINE b == BodyOf(i)
<1>1. FragOf(i) = slice_by_index_fragment(InC(i), InS(i), OutC(i), OutS(i), In1(i), <<Out(i)>>)
  BY DEF FragOf, NodeToFragment, ScatterOps, OutC, OutS, InC, InS, In1, In2, In3, Out, TensorVar
<1>2. FragOf(i).output_name = <<Out(i)>>
  BY <1>1 DEF slice_by_index_fragment, Frag
<1>3. b = slice_by_index_fragment(InC(i), InS(i), OutC(i), OutS(i), In1(i), <<Out(i)>>).body
  BY <1>1 DEF BodyOf
<1> HIDE DEF b
<1>4. Len(nodes[i].inputs) = 1 /\ nodes[i].weights = "none"
  BY DEF Accepted, NodeOK, LinearOK, UnaryOK, TableOK, MaskOK, BinaryOK, ConcatOK, ReshapingOK, UnaryOps, BinaryOps, ReduceOps, ScatterOps, NormOps
<1>5. Makes(b, Out(i), In1(i), {}, InC(i), InS(i), OutC(i), OutS(i))
  <2>1. Below(OutC(i), InC(i)) /\ Below(OutS(i), InS(i))
    BY DEF Accepted, Below, InC, InS, OutC, OutS, NodeOK, LinearOK, UnaryOK, TableOK, MaskOK, BinaryOK, ConcatOK, ReshapingOK, UnaryOps, BinaryOps, ReduceOps, ScatterOps, NormOps
  <2> QED BY <1>3, <2>1, PosShapes, SliceByIndexFragment
<1>6. FilesOf(i) = {}
  BY <1>4 DEF FilesOf
<1>8. Sound(i, b)
  BY <1>4, <1>5, <1>6, SoundMakes
<1> QED BY <1>2, <1>8 DEF b

LEMMA ReduceSumNode ==
    ASSUME NEW i, Accepted(i), nodes[i].op = "REDUCE_SUM"
    PROVE  Sound(i, BodyOf(i)) /\ FragOf(i).output_name = <<Out(i)>>
<1> DEFINE b == BodyOf(i)
<1>1. FragOf(i) = reduce_fragment("reduce_sum", InS(i), In1(i), <<Out(i)>>)
  BY DEF FragOf, NodeToFragment, ScatterOps, OutC, OutS, InC, InS, In1, In2, In3, Out, TensorVar, reduce_sum_fragment
<1>2. FragOf(i).output_name = <<Out(i)>>
  BY <1>1 DEF reduce_fragment, Plain, Frag
<1>3. b = reduce_fragment("reduce_sum", InS(i), In1(i), <<Out(i)>>).body
  BY <1>1 DEF BodyOf
<1> HIDE DEF b
<1>4. Len(nodes[i].inputs) = 1 /\ nodes[i].weights = "none"
  BY DEF Accepted, NodeOK, LinearOK, UnaryOK, TableOK, MaskOK, BinaryOK, ConcatOK, ReshapingOK, UnaryOps, BinaryOps, ReduceOps, ScatterOps, NormOps
<1>5. Makes(b, Out(i), In1(i), {}, InC(i), InS(i), 1, InS(i))
  <2>1. "reduce_sum" \in Reductions
    BY DEF Reductions
  <2> QED BY <1>3, <2>1, PosShapes, ReduceFragment
<1>6. FilesOf(i) = {}
  BY <1>4 DEF FilesOf
<1>7. OutC(i) = 1 /\ OutS(i) = InS(i)
  BY DEF Accepted, OutC, OutS, InC, InS, NodeOK, LinearOK, UnaryOK, TableOK, MaskOK, BinaryOK, ConcatOK, ReshapingOK, UnaryOps, BinaryOps, ReduceOps, ScatterOps, NormOps
<1>8. Sound(i, b)
  BY <1>4, <1>5, <1>6, <1>7, SoundMakes
<1> QED BY <1>2, <1>8 DEF b

LEMMA ReduceMeanNode ==
    ASSUME NEW i, Accepted(i), nodes[i].op = "REDUCE_MEAN"
    PROVE  Sound(i, BodyOf(i)) /\ FragOf(i).output_name = <<Out(i)>>
<1> DEFINE b == BodyOf(i)
<1>1. FragOf(i) = reduce_fragment("reduce_mean", InS(i), In1(i), <<Out(i)>>)
  BY DEF FragOf, NodeToFragment, ScatterOps, OutC, OutS, InC, InS, In1, In2, In3, Out, TensorVar, reduce_mean_fragment
<1>2. FragOf(i).output_name = <<Out(i)>>
  BY <1>1 DEF reduce_fragment, Plain, Frag
<1>3. b = reduce_fragment("reduce_mean", InS(i), In1(i), <<Out(i)>>).body
  BY <1>1 DEF BodyOf
<1> HIDE DEF b
<1>4. Len(nodes[i].inputs) = 1 /\ nodes[i].weights = "none"
  BY DEF Accepted, NodeOK, LinearOK, UnaryOK, TableOK, MaskOK, BinaryOK, ConcatOK, ReshapingOK, UnaryOps, BinaryOps, ReduceOps, ScatterOps, NormOps
<1>5. Makes(b, Out(i), In1(i), {}, InC(i), InS(i), 1, InS(i))
  <2>1. "reduce_mean" \in Reductions
    BY DEF Reductions
  <2> QED BY <1>3, <2>1, PosShapes, ReduceFragment
<1>6. FilesOf(i) = {}
  BY <1>4 DEF FilesOf
<1>7. OutC(i) = 1 /\ OutS(i) = InS(i)
  BY DEF Accepted, OutC, OutS, InC, InS, NodeOK, LinearOK, UnaryOK, TableOK, MaskOK, BinaryOK, ConcatOK, ReshapingOK, UnaryOps, BinaryOps, ReduceOps, ScatterOps, NormOps
<1>8. Sound(i, b)
  BY <1>4, <1>5, <1>6, <1>7, SoundMakes
<1> QED BY <1>2, <1>8 DEF b

LEMMA ReduceMaxNode ==
    ASSUME NEW i, Accepted(i), nodes[i].op = "REDUCE_MAX"
    PROVE  Sound(i, BodyOf(i)) /\ FragOf(i).output_name = <<Out(i)>>
<1> DEFINE b == BodyOf(i)
<1>1. FragOf(i) = reduce_fragment("reduce_max", InS(i), In1(i), <<Out(i)>>)
  BY DEF FragOf, NodeToFragment, ScatterOps, OutC, OutS, InC, InS, In1, In2, In3, Out, TensorVar, reduce_max_fragment
<1>2. FragOf(i).output_name = <<Out(i)>>
  BY <1>1 DEF reduce_fragment, Plain, Frag
<1>3. b = reduce_fragment("reduce_max", InS(i), In1(i), <<Out(i)>>).body
  BY <1>1 DEF BodyOf
<1> HIDE DEF b
<1>4. Len(nodes[i].inputs) = 1 /\ nodes[i].weights = "none"
  BY DEF Accepted, NodeOK, LinearOK, UnaryOK, TableOK, MaskOK, BinaryOK, ConcatOK, ReshapingOK, UnaryOps, BinaryOps, ReduceOps, ScatterOps, NormOps
<1>5. Makes(b, Out(i), In1(i), {}, InC(i), InS(i), 1, InS(i))
  <2>1. "reduce_max" \in Reductions
    BY DEF Reductions
  <2> QED BY <1>3, <2>1, PosShapes, ReduceFragment
<1>6. FilesOf(i) = {}
  BY <1>4 DEF FilesOf
<1>7. OutC(i) = 1 /\ OutS(i) = InS(i)
  BY DEF Accepted, OutC, OutS, InC, InS, NodeOK, LinearOK, UnaryOK, TableOK, MaskOK, BinaryOK, ConcatOK, ReshapingOK, UnaryOps, BinaryOps, ReduceOps, ScatterOps, NormOps
<1>8. Sound(i, b)
  BY <1>4, <1>5, <1>6, <1>7, SoundMakes
<1> QED BY <1>2, <1>8 DEF b

LEMMA ReduceProdNode ==
    ASSUME NEW i, Accepted(i), nodes[i].op = "REDUCE_PROD"
    PROVE  Sound(i, BodyOf(i)) /\ FragOf(i).output_name = <<Out(i)>>
<1> DEFINE b == BodyOf(i)
<1>1. FragOf(i) = reduce_prod_fragment(InC(i), InS(i), In1(i), <<Out(i)>>)
  BY DEF FragOf, NodeToFragment, ScatterOps, OutC, OutS, InC, InS, In1, In2, In3, Out, TensorVar
<1>2. FragOf(i).output_name = <<Out(i)>>
  BY <1>1 DEF reduce_prod_fragment, Plain, Frag
<1>3. b = reduce_prod_fragment(InC(i), InS(i), In1(i), <<Out(i)>>).body
  BY <1>1 DEF BodyOf
<1> HIDE DEF b
<1>4. Len(nodes[i].inputs) = 1 /\ nodes[i].weights = "none"
  BY DEF Accepted, NodeOK, LinearOK, UnaryOK, TableOK, MaskOK, BinaryOK, ConcatOK, ReshapingOK, UnaryOps, BinaryOps, ReduceOps, ScatterOps, NormOps
<1>5. Makes(b, Out(i), In1(i), {}, InC(i), InS(i), 1, InS(i))
  BY <1>3, PosShapes, ReduceProdFragment
<1>6. FilesOf(i) = {}
  BY <1>4 DEF FilesOf
<1>7. OutC(i) = 1 /\ OutS(i) = InS(i)
  BY DEF Accepted, OutC, OutS, InC, InS, NodeOK, LinearOK, UnaryOK, TableOK, MaskOK, BinaryOK, ConcatOK, ReshapingOK, UnaryOps, BinaryOps, ReduceOps, ScatterOps, NormOps
<1>8. Sound(i, b)
  BY <1>4, <1>5, <1>6, <1>7, SoundMakes
<1> QED BY <1>2, <1>8 DEF b

LEMMA PixelShuffleNode ==
    ASSUME NEW i, Accepted(i), nodes[i].op = "PIXEL_SHUFFLE"
    PROVE  Sound(i, BodyOf(i)) /\ FragOf(i).output_name = <<Out(i)>>
<1> DEFINE b == BodyOf(i)
<1>1. FragOf(i) = pixel_shuffle_fragment(OutC(i), InS(i), nodes[i].factor, In1(i), <<Out(i)>>)
  BY DEF FragOf, NodeToFragment, ScatterOps, OutC, OutS, InC, InS, In1, In2, In3, Out, TensorVar
<1>2. FragOf(i).output_name = <<Out(i)>>
  BY <1>1 DEF pixel_shuffle_fragment, Frag
<1>3. b = pixel_shuffle_fragment(OutC(i), InS(i), nodes[i].factor, In1(i), <<Out(i)>>).body
  BY <1>1 DEF BodyOf
<1> HIDE DEF b
<1>4. /\ Len(nodes[i].inputs) = 1 /\ nodes[i].factor \in Nat \ {0}
      /\ InC(i) % nodes[i].factor = 0
  BY DEF Accepted, InC, NodeOK, LinearOK, UnaryOK, TableOK, MaskOK, BinaryOK, ConcatOK, ReshapingOK, UnaryOps, BinaryOps, ReduceOps, ScatterOps, NormOps
<1>5. Makes(b, Out(i), In1(i), {}, OutC(i) * nodes[i].factor, InS(i), OutC(i), InS(i) * nodes[i].factor)
  <2>1. /\ Pos(nodes[i].factor) /\ Times(OutC(i) * nodes[i].factor, OutC(i), nodes[i].factor)
        /\ Times(InS(i) * nodes[i].factor, InS(i), nodes[i].factor)
    BY <1>4 DEF Pos, Times
  <2> QED BY <1>3, <2>1, PosShapes, PixelShuffleFragment
<1>6. FilesOf(i) = {}
  BY <1>4 DEF FilesOf, IsMask, ScatterOps
<1>7. ShapeFits(i) => OutC(i) * nodes[i].factor = InC(i) /\ OutS(i) = InS(i) * nodes[i].factor
  <2>1. ShapeFits(i) => OutC(i) = InC(i) \div nodes[i].factor /\ OutS(i) = InS(i) * nodes[i].factor
    BY DEF ShapeFits, ReduceOps, BinaryOps, OutC, OutS, InC, InS, Sh
  <2>2. \A m \in Nat, r \in Nat \ {0} : m % r = 0 => (m \div r) * r = m
    OBVIOUS
  <2> QED BY <1>4, <2>1, <2>2, PosShapes DEF Pos
<1>8. Sound(i, b)
  BY <1>4, <1>5, <1>6, <1>7, SoundMakes
<1> QED BY <1>2, <1>8 DEF b

LEMMA SelectNode ==
    ASSUME NEW i, Accepted(i), nodes[i].op = "SELECT"
    PROVE  Sound(i, BodyOf(i)) /\ FragOf(i).output_name = <<Out(i)>>
<1> DEFINE b == BodyOf(i)
<1>1. FragOf(i) = select_fragment(OutC(i), OutS(i), In1(i), In2(i), In3(i), <<Out(i)>>)
  BY DEF FragOf, NodeToFragment, ScatterOps, OutC, OutS, InC, InS, In1, In2, In3, Out, TensorVar
<1>2. FragOf(i).output_name = <<Out(i)>>
  BY <1>1 DEF select_fragment, Plain, Frag
<1>3. b = select_fragment(OutC(i), OutS(i), In1(i), In2(i), In3(i), <<Out(i)>>).body
  BY <1>1 DEF BodyOf
<1> HIDE DEF b
<1>4. /\ Len(nodes[i].inputs) = 3 /\ nodes[i].weights = "none"
      /\ \A j \in 1 .. 3 : ShapeOf(nodes[i].inputs[j]) = ShapeOf(nodes[i].output)
  BY DEF Accepted, NodeOK, LinearOK, UnaryOK, TableOK, MaskOK, BinaryOK, ConcatOK, ReshapingOK, UnaryOps, BinaryOps, ReduceOps, ScatterOps, NormOps
<1>5. Makes3(b, Out(i), In1(i), In2(i), In3(i), OutC(i), OutS(i))
  BY <1>3, PosShapes, SelectFragment
<1>6. FilesOf(i) = {}
  BY <1>4 DEF FilesOf
<1>8. Sound(i, b)
  BY <1>4, <1>5, SoundMakes3
<1> QED BY <1>2, <1>8 DEF b

LEMMA ConcatNode ==
    ASSUME NEW i, Accepted(i), nodes[i].op = "CONCAT"
    PROVE  /\ Sound(i, BodyOf(i)) /\ FragOf(i).output_name = <<Out(i)>>
           /\ Joins(BodyOf(i), Out(i), In1(i), In2(i))
<1> DEFINE b == BodyOf(i)
<1>1. FragOf(i) = concat_fragment(InC(i), OutC(i), OutS(i), In1(i), In2(i), <<Out(i)>>)
  BY DEF FragOf, NodeToFragment, ScatterOps, OutC, OutS, InC, InS, In1, In2, In3, Out, TensorVar
<1>2. FragOf(i).output_name = <<Out(i)>>
  BY <1>1 DEF concat_fragment, Plain, Frag
<1>3. b = concat_fragment(InC(i), OutC(i), OutS(i), In1(i), In2(i), <<Out(i)>>).body
  BY <1>1 DEF BodyOf
<1> HIDE DEF b
<1>4. Joins(b, Out(i), In1(i), In2(i))
  BY <1>3, ConcatFragment
<1>5. Len(nodes[i].inputs) = 2 /\ nodes[i].weights = "none"
  BY DEF Accepted, NodeOK, LinearOK, UnaryOK, TableOK, MaskOK, BinaryOK, ConcatOK, ReshapingOK, UnaryOps, BinaryOps, ReduceOps, ScatterOps, NormOps
<1>6. ReadsOf(i) = {In1(i), In2(i)} /\ FilesOf(i) = {}
  BY <1>5 DEF ReadsOf, FilesOf, In1, In2
<1>7. Neat(b, Out(i), ReadsOf(i)) /\ FilesIn(b, FilesOf(i))
  BY <1>4, <1>6 DEF Joins
<1>8. Sound(i, b)
  BY <1>7 DEF Sound, Out
<1> QED BY <1>2, <1>4, <1>8 DEF b

\* Every op that the validator accepts and that has a fragment.
LEMMA NodeSound ==
    ASSUME NEW i, Accepted(i), FragOf(i).ok
    PROVE  Sound(i, BodyOf(i)) /\ FragOf(i).output_name = <<Out(i)>>
<1> DEFINE P == Sound(i, BodyOf(i)) /\ FragOf(i).output_name = <<Out(i)>>
<1> SUFFICES P
  OBVIOUS
<1> HIDE DEF P
<1>1. CASE nodes[i].op = "GELU"
  BY <1>1, GeluNode DEF P
<1>2. CASE nodes[i].op = "SILU"
  BY <1>2, SiluNode DEF P
<1>3. CASE nodes[i].op = "SOFTMAX"
  BY <1>3, SoftmaxNode DEF P
<1>4. CASE nodes[i].op = "NEG"
  BY <1>4, NegNode DEF P
<1>5. CASE nodes[i].op = "SINH"
  BY <1>5, SinhNode DEF P
<1>6. CASE nodes[i].op = "COSH"
  BY <1>6, CoshNode DEF P
<1>7. CASE nodes[i].op = "TAN"
  BY <1>7, TanNode DEF P
<1>8. CASE nodes[i].op = "ASIN"
  BY <1>8, AsinNode DEF P
<1>9. CASE nodes[i].op = "ACOS"
  BY <1>9, AcosNode DEF P
<1>10. CASE nodes[i].op = "LOG"
  BY <1>10, LogNode DEF P
<1>11. CASE nodes[i].op = "RSQRT"
  BY <1>11, RsqrtNode DEF P
<1>12. CASE nodes[i].op = "HARDSWISH"
  BY <1>12, HardswishNode DEF P
<1>13. CASE nodes[i].op = "LEAKY_RELU"
  BY <1>13, LeakyReluNode DEF P
<1>14. CASE nodes[i].op = "ELU"
  BY <1>14, EluNode DEF P
<1>15. CASE nodes[i].op = "AVG_POOL"
  BY <1>15, AvgPoolNode DEF P
<1>16. CASE nodes[i].op = "MAX_POOL"
  BY <1>16, MaxPoolNode DEF P
<1>17. CASE nodes[i].op = "SQRT"
  BY <1>17, SqrtNode DEF P
<1>18. CASE nodes[i].op = "RELU"
  BY <1>18, ReluNode DEF P
<1>19. CASE nodes[i].op = "TANH"
  BY <1>19, TanhNode DEF P
<1>20. CASE nodes[i].op = "SIGMOID"
  BY <1>20, SigmoidNode DEF P
<1>21. CASE nodes[i].op = "MOD"
  BY <1>21, ModNode DEF P
<1>22. CASE nodes[i].op = "LOGICAL_AND"
  BY <1>22, LogicalAndNode DEF P
<1>23. CASE nodes[i].op = "LOGICAL_OR"
  BY <1>23, LogicalOrNode DEF P
<1>24. CASE nodes[i].op = "LOGICAL_XOR"
  BY <1>24, LogicalXorNode DEF P
<1>25. CASE nodes[i].op = "ADD"
  BY <1>25, AddNode DEF P
<1>26. CASE nodes[i].op = "MUL"
  BY <1>26, MulNode DEF P
<1>27. CASE nodes[i].op = "SUB"
  BY <1>27, SubNode DEF P
<1>28. CASE nodes[i].op = "REAL_DIV"
  BY <1>28, RealDivNode DEF P
<1>29. CASE nodes[i].op = "GATHER" /\ Len(nodes[i].inputs) # 1
  BY <1>29, GatherDynamicNode DEF P
<1>30. CASE nodes[i].op = "MATMUL"
  BY <1>30, MatmulNode DEF P
<1>31. CASE nodes[i].op = "RMSNORM"
  BY <1>31, RmsnormNode DEF P
<1>32. CASE nodes[i].op \in {"LAYERNORM", "LAYER_NORM"}
  BY <1>32, LayernormNode DEF P
<1>33. CASE nodes[i].op \in ScatterOps
  BY <1>33, ScatterNode DEF P
<1>34. CASE nodes[i].op = "GATHER" /\ Len(nodes[i].inputs) = 1
  BY <1>34, GatherNode DEF P
<1>35. CASE nodes[i].op = "PWL_ACTIVATION"
  BY <1>35, PwlNode DEF P
<1>36. CASE nodes[i].op = "TRANSPOSE"
  BY <1>36, TransposeNode DEF P
<1>37. CASE nodes[i].op = "RESHAPE"
  BY <1>37, ReshapeNode DEF P
<1>38. CASE nodes[i].op = "SLICE_BY_INDEX"
  BY <1>38, SliceNode DEF P
<1>39. CASE nodes[i].op = "REDUCE_SUM"
  BY <1>39, ReduceSumNode DEF P
<1>40. CASE nodes[i].op = "REDUCE_MEAN"
  BY <1>40, ReduceMeanNode DEF P
<1>41. CASE nodes[i].op = "REDUCE_MAX"
  BY <1>41, ReduceMaxNode DEF P
<1>42. CASE nodes[i].op = "REDUCE_PROD"
  BY <1>42, ReduceProdNode DEF P
<1>43. CASE nodes[i].op = "PIXEL_SHUFFLE"
  BY <1>43, PixelShuffleNode DEF P
<1>44. CASE nodes[i].op = "SELECT"
  BY <1>44, SelectNode DEF P
<1>45. CASE nodes[i].op = "CONCAT"
  BY <1>45, ConcatNode DEF P
<1>46. nodes[i].op # "CAST"
  BY DEF FragOf, NodeToFragment, ScatterOps, OutC, OutS, InC, InS, In1, In2, In3, Out, TensorVar, Frag
<1>47. nodes[i].op # "CONV2D"
  BY DEF Accepted, NodeOK, LinearOK, UnaryOK, TableOK, MaskOK, BinaryOK, ConcatOK, ReshapingOK, UnaryOps, BinaryOps, ReduceOps, ScatterOps, NormOps
<1>48. nodes[i].op \in Op
  BY DEF Accepted
<1> QED
  BY <1>1, <1>2, <1>3, <1>4, <1>5, <1>6, <1>7, <1>8, <1>9, <1>10, <1>11, <1>12, <1>13, <1>14, <1>15, <1>16, <1>17, <1>18, <1>19, <1>20, <1>21, <1>22, <1>23, <1>24, <1>25, <1>26, <1>27, <1>28, <1>29, <1>30, <1>31, <1>32, <1>33, <1>34, <1>35, <1>36, <1>37, <1>38, <1>39, <1>40, <1>41, <1>42, <1>43, <1>44, <1>45, <1>46, <1>47, <1>48 DEF Op, ScatterOps

\* What a settled body of a node gives.
LEMMA NodeSettles ==
    ASSUME NEW i, Accepted(i), FragOf(i).ok, ShapeFits(i),
           NEW F, NEW blobs, Settled(F, BodyOf(i), blobs), Arrived(F, i)
    PROVE  /\ F[<<Out(i)>>].type = T(OutC(i), OutS(i))
           /\ nodes[i].op # "CONCAT" => \A k \in 1 .. Len(BodyOf(i)) : StatementOK(F, BodyOf(i)[k])
<1> DEFINE b == BodyOf(i)
<1>1. Sound(i, b)
  BY NodeSound
<1>2. /\ Neat(b, Out(i), ReadsOf(i))
      /\ nodes[i].op # "CONCAT" => /\ b[Len(b)].type = T(OutC(i), OutS(i))
                                   /\ \A E : Arrived(E, i) => Fine(b, E)
  BY <1>1, Zenon DEF Sound, Out, OutC, OutS
<1> HIDE DEF b
<1>3. /\ Len(b) \in Nat \ {0} /\ b[Len(b)].name = <<Out(i)>>
      /\ \A k \in 1 .. Len(b) : b[k].name[1] = Out(i)
      /\ Apart(b) /\ Supply(b, ReadsOf(i))
  BY <1>2 DEF Neat
<1>4. Settled(F, b, blobs)
  BY DEF b
<1>5. CASE nodes[i].op = "CONCAT"
  <2>1. Joins(b, Out(i), In1(i), In2(i))
    BY <1>5, ConcatNode DEF b
  <2>2. /\ Len(nodes[i].inputs) = 2 /\ ShapeOf(nodes[i].inputs[2]).s = InS(i) /\ OutS(i) = InS(i)
        /\ Plus(OutC(i), InC(i), ShapeOf(nodes[i].inputs[2]).c)
    BY <1>5 DEF Plus, OutC, OutS, InC, InS, Accepted, NodeOK, LinearOK, UnaryOK, TableOK, MaskOK, BinaryOK, ConcatOK, ReshapingOK, UnaryOps, BinaryOps, ReduceOps, ScatterOps, NormOps
  <2>3. /\ Full(F, In1(i), InC(i), OutS(i))
        /\ Full(F, In2(i), ShapeOf(nodes[i].inputs[2]).c, OutS(i))
    BY <2>2 DEF Arrived, In1, In2, InC, InS
  <2> QED BY <1>4, <1>5, <2>1, <2>2, <2>3 DEF Joins
<1>6. CASE nodes[i].op # "CONCAT"
  <2>1. ReadsOf(i) \cap Gives(b) = {}
    <3> SUFFICES ASSUME NEW k \in 1 .. Len(b), b[k].name \in ReadsOf(i) PROVE FALSE
      BY DEF Gives
    <3>1. PICK j \in 1 .. Len(nodes[i].inputs) : b[k].name = <<nodes[i].inputs[j]>>
      BY DEF ReadsOf, TensorVar
    <3>2. nodes[i].inputs[j] # nodes[i].output
      BY DEF Accepted, TensorId
    <3>3. b[k].name[1] = nodes[i].output
      BY <1>3 DEF Out
    <3> QED BY <3>1, <3>2, <3>3
  <2>2. ASSUME NEW E, \A n \in ReadsOf(i) : E[n] = F[n], Declared(E, b)
        PROVE  \A k \in 1 .. Len(b) : StatementOK(E, b[k])
    <3>1. Arrived(E, i)
      <4>1. \A j \in 1 .. Len(nodes[i].inputs) : E[TensorVar(nodes[i].inputs[j])] = F[TensorVar(nodes[i].inputs[j])]
        BY <2>2 DEF ReadsOf
      <4> QED BY <4>1 DEF Arrived, Full
    <3> QED BY <1>2, <1>6, <2>2, <3>1 DEF Fine
  <2>3. Declared(F, b) /\ \A k \in 1 .. Len(b) : StatementOK(F, b[k])
    BY <1>3, <1>4, <2>1, <2>2, TypesSettle
  <2>4. F[<<Out(i)>>].type = T(OutC(i), OutS(i))
    <3>1. Len(b) \in 1 .. Len(b)
      BY <1>3
    <3> QED BY <1>2, <1>3, <1>6, <2>3, <3>1 DEF Declared
  <2> QED BY <2>3, <2>4 DEF b
<1> QED BY <1>5, <1>6

-----------------------------------------------------------------------------
(* The bodies of a group, one after the other                               *)

FlatTurn(f, bs, m) == [k \in 1 .. m |-> IF k = 1 THEN bs[k] ELSE f[k - 1] \o bs[k]]

\* The recursion that defines FlattenSeq has a solution.
LEMMA FlatExists ==
    ASSUME NEW bs, NEW n \in Nat
    PROVE  \E f : f = FlatTurn(f, bs, n)
<1> DEFINE F(m, f) == [k \in 1 .. m |-> IF k = 1 THEN bs[k] ELSE f[k - 1] \o bs[k]]
           Bad == {m \in Nat : ~\E f : f = F(m, f)}
<1>1. Bad = {}
  <2> SUFFICES ASSUME Bad # {} PROVE FALSE
    OBVIOUS
  <2>1. PICK m \in Bad : \A j \in Bad : m <= j
    <3>1. Bad \in SUBSET Nat
      OBVIOUS
    <3> HIDE DEF Bad
    <3> QED BY <3>1, Least
  <2>2. m \in Nat /\ ~\E f : f = F(m, f)
    OBVIOUS
  <2>3. CASE m = 0
    <3> DEFINE e == [k \in 1 .. 0 |-> bs[k]]
    <3>1. \A k \in 1 .. 0 : FALSE
      OBVIOUS
    <3>2. e = F(0, e)
      BY <3>1
    <3> QED BY <2>2, <2>3, <3>2, Zenon
  <2>4. CASE m # 0
    <3>1. m - 1 \in Nat /\ ~(m <= m - 1)
      BY <2>2, <2>4
    <3>2. m - 1 \notin Bad
      BY <2>1, <3>1, Zenon
    <3>3. PICK f : f = F(m - 1, f)
      BY <3>1, <3>2
    <3> DEFINE g == F(m, f)
    <3>4. ASSUME NEW k \in 1 .. m, k # 1 PROVE g[k - 1] = f[k - 1]
      <4>1. k - 1 \in 1 .. (m - 1) /\ k - 1 \in 1 .. m
        BY <2>2, <3>4
      <4>2. g[k - 1] = IF k - 1 = 1 THEN bs[k - 1] ELSE f[(k - 1) - 1] \o bs[k - 1]
        BY <4>1
      <4>3. f[k - 1] = IF k - 1 = 1 THEN bs[k - 1] ELSE f[(k - 1) - 1] \o bs[k - 1]
        BY <3>3, <4>1
      <4> QED BY <4>2, <4>3
    <3>5. g = F(m, g)
      BY <3>4, Zenon
    <3> QED BY <2>2, <3>5, Zenon
  <2> QED BY <2>3, <2>4
<1> QED BY <1>1 DEF FlatTurn

LEMMA FlattenIs ==
    ASSUME NEW bs, Len(bs) \in Nat \ {0}
    PROVE  \E f : /\ FlattenSeq(bs) = f[Len(bs)] /\ f[1] = bs[1]
                  /\ \A p \in 2 .. Len(bs) : f[p] = f[p - 1] \o bs[p]
<1> DEFINE S == CHOOSE f : f = FlatTurn(f, bs, Len(bs))
<1>1. FlattenSeq(bs) = S[Len(bs)]
  BY DEF FlattenSeq, FlatTurn
<1>2. S = FlatTurn(S, bs, Len(bs))
  BY FlatExists
<1> HIDE DEF S
<1>3. S = [k \in 1 .. Len(bs) |-> IF k = 1 THEN bs[k] ELSE S[k - 1] \o bs[k]]
  BY <1>2, Zenon DEF FlatTurn
<1>4. S[1] = bs[1]
  BY <1>3
<1>5. ASSUME NEW p \in 2 .. Len(bs) PROVE S[p] = S[p - 1] \o bs[p]
  <2>1. p \in 1 .. Len(bs) /\ p # 1
    OBVIOUS
  <2> QED BY <1>3, <2>1
<1> QED BY <1>1, <1>4, <1>5

\* The bodies bs of tensors o[1], o[2], ... that read `from` and the tensor
\* before.
Line(bs, o, from) ==
    /\ Len(bs) \in Nat \ {0}
    /\ \A p \in 1 .. Len(bs) : Neat(bs[p], o[p], IF p = 1 THEN from ELSE from \cup {<<o[p - 1]>>})
    /\ \A p, q \in 1 .. Len(bs) : o[p] = o[q] => p = q

\* The first p of them in one.
Flattened(f, bs, o, from, p) ==
    /\ Sequence(f) /\ Len(f) \in Nat \ {0}
    /\ \A k \in 1 .. Len(f) : \E q \in 1 .. p : \E l \in 1 .. Len(bs[q]) : f[k] = bs[q][l]
    /\ \A q \in 1 .. p : \A l \in 1 .. Len(bs[q]) : \E k \in 1 .. Len(f) : f[k] = bs[q][l]
    /\ Apart(f) /\ Supply(f, from) /\ f[Len(f)].name = <<o[p]>>

LEMMA FlatStarts ==
    ASSUME NEW bs, NEW o, NEW from, Line(bs, o, from)
    PROVE  Flattened(bs[1], bs, o, from, 1)
<1>1. 1 \in 1 .. Len(bs) /\ 1 \in 1 .. 1 /\ \A q \in 1 .. 1 : q = 1
  BY DEF Line
<1>2. Neat(bs[1], o[1], from)
  BY <1>1 DEF Line
<1> QED BY <1>1, <1>2 DEF Flattened, Neat

LEMMA FlatGrows ==
    ASSUME NEW bs, NEW o, NEW from, Line(bs, o, from), NEW p \in 2 .. Len(bs),
           NEW a, NEW ab, Flattened(a, bs, o, from, p - 1), Joined(ab, a, bs[p])
    PROVE  Flattened(ab, bs, o, from, p)
<1> DEFINE b == bs[p]
<1>1. /\ p \in 1 .. Len(bs) /\ p # 1 /\ p - 1 \in 1 .. (p - 1) /\ p \in 1 .. p /\ Len(bs) \in Nat
      /\ \A q \in 1 .. (p - 1) : q \in 1 .. p /\ q \in 1 .. Len(bs) /\ q # p
      /\ \A q \in 1 .. p : q \in 1 .. (p - 1) \/ q = p
  BY DEF Line
<1>2. Neat(b, o[p], from \cup {<<o[p - 1]>>})
  BY <1>1 DEF Line
<1> HIDE DEF b
<1>3. /\ Sequence(b) /\ Len(b) \in Nat \ {0} /\ b[Len(b)].name = <<o[p]>>
      /\ \A k \in 1 .. Len(b) : b[k].name[1] = o[p]
      /\ Apart(b) /\ Supply(b, from \cup {<<o[p - 1]>>})
  BY <1>2 DEF Neat
<1>4. /\ Sequence(a) /\ Len(a) \in Nat \ {0}
      /\ \A k \in 1 .. Len(a) : \E q \in 1 .. (p - 1) : \E l \in 1 .. Len(bs[q]) : a[k] = bs[q][l]
      /\ \A q \in 1 .. (p - 1) : \A l \in 1 .. Len(bs[q]) : \E k \in 1 .. Len(a) : a[k] = bs[q][l]
      /\ Apart(a) /\ Supply(a, from) /\ a[Len(a)].name = <<o[p - 1]>>
  BY DEF Flattened
<1>5. Joined(ab, a, b)
  BY DEF b
<1>6. /\ Sequence(ab) /\ Len(ab) = Len(a) + Len(b) /\ Len(ab) \in Nat \ {0}
      /\ \A j \in 1 .. Len(a) : ab[j] = a[j] /\ j \in 1 .. Len(ab)
      /\ \A j \in 1 .. Len(b) : ab[Len(a) + j] = b[j] /\ Len(a) + j \in 1 .. Len(ab)
  BY <1>3, <1>4, <1>5 DEF Joined
<1>7. ab[Len(ab)].name = <<o[p]>>
  <2>1. Len(b) \in 1 .. Len(b)
    BY <1>3
  <2> QED BY <1>3, <1>6, <2>1
<1>8. ASSUME NEW k \in 1 .. Len(a), NEW l \in 1 .. Len(b) PROVE a[k].name # b[l].name
  <2>1. PICK q \in 1 .. (p - 1) : \E m \in 1 .. Len(bs[q]) : a[k] = bs[q][m]
    BY <1>4
  <2>2. q \in 1 .. Len(bs) /\ q # p
    BY <1>1
  <2>3. a[k].name[1] = o[q]
    BY <2>1, <2>2, ZenonT(40) DEF Line, Neat
  <2>4. o[q] # o[p]
    BY <1>1, <2>2 DEF Line
  <2> QED BY <1>3, <2>3, <2>4
<1>9. Apart(ab)
  BY <1>3, <1>4, <1>5, <1>8, JoinedApart
<1>10. Supply(ab, from)
  <2>1. Len(a) \in 1 .. Len(a)
    BY <1>4
  <2>2. \A n \in from \cup {<<o[p - 1]>>} : n \in from \/ \E l \in 1 .. Len(a) : a[l].name = n
    BY <1>4, <2>1
  <2> QED BY <1>3, <1>4, <1>5, <2>2, JoinedSupply
<1>11. ASSUME NEW k \in 1 .. Len(ab)
       PROVE  \E q \in 1 .. p : \E l \in 1 .. Len(bs[q]) : ab[k] = bs[q][l]
  <2>1. \/ k \in 1 .. Len(a) /\ ab[k] = a[k]
        \/ \E l \in 1 .. Len(b) : k = Len(a) + l /\ ab[k] = b[l]
    BY <1>5, JoinedSplit
  <2>2. CASE k \in 1 .. Len(a) /\ ab[k] = a[k]
    BY <1>1, <1>4, <2>2
  <2>3. CASE \E l \in 1 .. Len(b) : k = Len(a) + l /\ ab[k] = b[l]
    BY <1>1, <2>3 DEF b
  <2> QED BY <2>1, <2>2, <2>3
<1>12. ASSUME NEW q \in 1 .. p, NEW l \in 1 .. Len(bs[q])
       PROVE  \E k \in 1 .. Len(ab) : ab[k] = bs[q][l]
  <2>1. CASE q \in 1 .. (p - 1)
    <3>1. PICK k \in 1 .. Len(a) : a[k] = bs[q][l]
      BY <1>4, <2>1
    <3> QED BY <1>6, <3>1
  <2>2. CASE q = p
    BY <1>6, <2>2 DEF b
  <2> QED BY <1>1, <2>1, <2>2
<1> QED BY <1>6, <1>7, <1>9, <1>10, <1>11, <1>12 DEF Flattened

LEMMA FlattenFlat ==
    ASSUME NEW bs, NEW o, NEW from, Line(bs, o, from)
    PROVE  Flattened(FlattenSeq(bs), bs, o, from, Len(bs))
<1>1. Len(bs) \in Nat \ {0}
  BY DEF Line
<1>2. PICK f : /\ FlattenSeq(bs) = f[Len(bs)] /\ f[1] = bs[1]
               /\ \A p \in 2 .. Len(bs) : f[p] = f[p - 1] \o bs[p]
  BY <1>1, FlattenIs
<1> DEFINE P(p) == Flattened(f[p], bs, o, from, p)
           Bad == {p \in 1 .. Len(bs) : ~P(p)}
<1>3. Bad = {}
  <2> SUFFICES ASSUME Bad # {} PROVE FALSE
    OBVIOUS
  <2>1. PICK p \in Bad : \A j \in Bad : p <= j
    <3>1. Bad \in SUBSET Nat
      BY <1>1
    <3> HIDE DEF Bad
    <3> QED BY <3>1, Least
  <2>2. p \in 1 .. Len(bs) /\ ~P(p)
    OBVIOUS
  <2>3. P(1)
    BY <1>2, FlatStarts
  <2>4. p \in 2 .. Len(bs) /\ p - 1 \in 1 .. Len(bs) /\ ~(p <= p - 1)
    BY <1>1, <2>2, <2>3
  <2> HIDE DEF P
  <2>5. P(p - 1)
    BY <2>1, <2>4
  <2>6. Flattened(f[p - 1], bs, o, from, p - 1)
    BY <2>5 DEF P
  <2>7. Sequence(f[p - 1]) /\ Len(f[p - 1]) \in Nat
    BY <2>6 DEF Flattened
  <2>8. Sequence(bs[p]) /\ Len(bs[p]) \in Nat
    BY <2>2 DEF Line, Neat
  <2>9. Joined(f[p - 1] \o bs[p], f[p - 1], bs[p])
    BY <2>7, <2>8, JoinedIs
  <2>10. f[p] = f[p - 1] \o bs[p]
    BY <1>2, <2>4
  <2>11. Joined(f[p], f[p - 1], bs[p])
    BY <2>9, <2>10
  <2>12. Flattened(f[p], bs, o, from, p)
    BY <2>4, <2>6, <2>11, FlatGrows
  <2> QED BY <2>2, <2>12 DEF P
<1>4. P(Len(bs))
  BY <1>1, <1>3
<1> QED BY <1>2, <1>4

-----------------------------------------------------------------------------
(* The parameters                                                           *)

\* SortedOrder is a permutation of the positions.
LEMMA SortedIs ==
    ASSUME NEW s \in Seq(Nat)
    PROVE  /\ DOMAIN SortedOrder(s) = 1 .. Len(s)
           /\ \A k \in 1 .. Len(s) : SortedOrder(s)[k] \in 1 .. Len(s)
           /\ \A p, q \in 1 .. Len(s) : SortedOrder(s)[p] = SortedOrder(s)[q] => p = q
           /\ \A a \in 1 .. Len(s) : \E k \in 1 .. Len(s) : SortedOrder(s)[k] = a
<1> DEFINE n == Len(s)
           S == 1 .. n
           Before(b, a) == s[b] < s[a] \/ (s[b] = s[a] /\ b < a)
           below(a) == {b \in S : Before(b, a)}
           rank == [a \in S |-> Cardinality(below(a))]
           order == SortedOrder(s)
<1>1. n \in Nat /\ DOMAIN s = S /\ \A a \in S : s[a] \in Nat /\ a \in Nat
  OBVIOUS
<1>2. IsFiniteSet(S) /\ Cardinality(S) = n
  BY <1>1, FS_Interval, SMTT(30)
<1>3. order = [k \in S |-> CHOOSE a \in S : Cardinality(below(a)) = k - 1]
  BY <1>1 DEF SortedOrder
<1>4. \A a \in S : IsFiniteSet(below(a)) /\ Cardinality(below(a)) \in Nat
  <2>1. \A a \in S : below(a) \in SUBSET S
    OBVIOUS
  <2> HIDE DEF below
  <2> QED BY <1>2, <2>1, FS_Subset, FS_CardinalityType
<1>5. ASSUME NEW a \in S PROVE Cardinality(below(a)) < n
  <2>1. below(a) \in SUBSET (S \ {a})
    BY <1>1
  <2>2. IsFiniteSet(S \ {a}) /\ Cardinality(S \ {a}) = n - 1
    <3> HIDE DEF S
    <3> QED BY <1>2, FS_RemoveElement
  <2>3. Cardinality(below(a)) <= Cardinality(S \ {a})
    <3> HIDE DEF below, S
    <3> QED BY <2>1, <2>2, FS_Subset
  <2> HIDE DEF below, S
  <2> QED BY <1>1, <1>4, <2>2, <2>3
<1>6. ASSUME NEW a \in S, NEW z \in S, Before(a, z)
      PROVE  Cardinality(below(a)) < Cardinality(below(z))
  <2>1. below(a) \in SUBSET (below(z) \ {a}) /\ a \in below(z)
    <3>1. \A y \in S : Before(y, a) => Before(y, z) /\ y # a
      BY <1>1, <1>6
    <3> HIDE DEF Before
    <3> QED BY <1>6, <3>1
  <2> HIDE DEF below, S, Before
  <2>2. /\ IsFiniteSet(below(z) \ {a})
        /\ Cardinality(below(z) \ {a}) = Cardinality(below(z)) - 1
    BY <1>4, <2>1, FS_RemoveElement
  <2>3. Cardinality(below(a)) <= Cardinality(below(z) \ {a})
    BY <2>1, <2>2, FS_Subset
  <2> QED BY <1>4, <2>2, <2>3
<1>7. \A a, z \in S : Cardinality(below(a)) = Cardinality(below(z)) => a = z
  <2> SUFFICES ASSUME NEW a \in S, NEW z \in S, Cardinality(below(a)) = Cardinality(below(z)), a # z
               PROVE  FALSE
    OBVIOUS
  <2>1. Before(a, z) \/ Before(z, a)
    BY <1>1
  <2> HIDE DEF below, S, Before
  <2> QED BY <1>4, <1>6, <2>1
<1> HIDE DEF below
<1>8. \A a \in S : Cardinality(below(a)) \in 0 .. (n - 1)
  BY <1>1, <1>4, <1>5
<1>9. rank \in Injection(S, 0 .. (n - 1))
  <2> HIDE DEF S
  <2> QED BY <1>7, <1>8 DEF Injection, IsInjective
<1>10. IsFiniteSet(0 .. (n - 1)) /\ Cardinality(0 .. (n - 1)) = n
  BY <1>1, FS_Interval, SMTT(30)
<1>11. rank \in Surjection(S, 0 .. (n - 1))
  <2> HIDE DEF rank, S, n
  <2> QED BY <1>2, <1>9, <1>10, FS_Injection
<1>12. \A k \in 0 .. (n - 1) : \E a \in S : Cardinality(below(a)) = k
  BY <1>11 DEF Surjection
<1> HIDE DEF order
<1>13. \A k \in S : order[k] \in S /\ Cardinality(below(order[k])) = k - 1
  <2> TAKE k \in S
  <2>1. k - 1 \in 0 .. (n - 1)
    BY <1>1
  <2>2. \E a \in S : Cardinality(below(a)) = k - 1
    BY <1>12, <2>1
  <2>3. order[k] = CHOOSE a \in S : Cardinality(below(a)) = k - 1
    BY <1>3
  <2> HIDE DEF S
  <2> QED BY <2>2, <2>3
<1>14. \A p, q \in S : order[p] = order[q] => p = q
  <2> TAKE p, q \in S
  <2>1. order[p] = order[q] => p - 1 = q - 1
    BY <1>13
  <2> QED BY <1>1, <2>1
<1>15. \A a \in S : \E k \in S : order[k] = a
  <2> TAKE a \in S
  <2> DEFINE k == Cardinality(below(a)) + 1
  <2>1. k \in S /\ k - 1 = Cardinality(below(a))
    BY <1>1, <1>8
  <2> HIDE DEF k, S
  <2>2. Cardinality(below(order[k])) = Cardinality(below(a)) /\ order[k] \in S
    BY <1>13, <2>1
  <2>3. order[k] = a
    BY <1>7, <2>2
  <2> QED BY <2>1, <2>3
<1>16. DOMAIN order = S
  BY <1>3
<1> QED BY <1>13, <1>14, <1>15, <1>16 DEF order

\* The program of a group declares each tensor it takes once, as <<x>>, and
\* the ANE puts its surface there.
LEMMA ParamsAre ==
    ASSUME NEW s \in Seq(Nat), NEW fs
    PROVE  LET P == build_fused([k \in DOMAIN s |-> <<s[k]>>], [k \in DOMAIN s |-> ShapeOf(s[k])], fs) IN
           /\ P.params = [k \in 1 .. Len(s) |-> <<s[SortedOrder(s)[k]]>>]
           /\ P.body = FlattenSeq([k \in DOMAIN fs |-> fs[k].body])
           /\ P.ret = fs[Len(fs)].output_name
<1> DEFINE v == [k \in DOMAIN s |-> <<s[k]>>]
           sh == [k \in DOMAIN s |-> ShapeOf(s[k])]
           w == [k \in DOMAIN v |-> v[k][1]]
           order == SortedOrder(w)
           ps == [k \in DOMAIN v |-> v[order[k]]]
           ts == [k \in DOMAIN v |-> T(sh[order[k]].c, sh[order[k]].s)]
           body == FlattenSeq([k \in DOMAIN fs |-> fs[k].body])
           ret == fs[Len(fs)].output_name
<1>1. DOMAIN s = 1 .. Len(s) /\ DOMAIN v = 1 .. Len(s) /\ s = [k \in 1 .. Len(s) |-> s[k]]
  OBVIOUS
<1>2. w = s
  BY <1>1
<1>3. build_fused(v, sh, fs) = Program(ps, ts, body, ret)
  BY Zenon DEF build_fused
<1>4. ps = [k \in 1 .. Len(s) |-> <<s[SortedOrder(s)[k]]>>]
  <2>1. \A k \in 1 .. Len(s) : order[k] \in DOMAIN s
    BY <1>1, <1>2, SortedIs
  <2>2. \A k \in 1 .. Len(s) : v[order[k]] = <<s[order[k]]>>
    BY <2>1
  <2>3. order = SortedOrder(s)
    BY <1>2
  <2> HIDE DEF order
  <2>4. ps = [k \in 1 .. Len(s) |-> v[order[k]]]
    BY <1>1
  <2> HIDE DEF v
  <2> QED BY <2>2, <2>3, <2>4
<1> DEFINE P == build_fused(v, sh, fs)
<1>5. P = [params |-> ps, types |-> ts, body |-> body, ret |-> ret]
  BY <1>3, Zenon DEF Program
<1>6. P.params = ps /\ P.body = body /\ P.ret = ret
  <2> HIDE DEF P, ps, ts, body, ret
  <2> QED BY <1>5
<1> QED BY <1>4, <1>6

\* The names of the parameters of a group that takes the tensors s.
Params(s) == [k \in 1 .. Len(s) |-> <<s[SortedOrder(s)[k]]>>]

LEMMA Bound ==
    ASSUME NEW s \in Seq(Nat), NEW args, DOMAIN args = 1 .. Len(s)
    PROVE  LET B == Bind(Params(s), args) IN
           /\ \A n : n \in DOMAIN B <=> \E x \in ToSet(s) : n = <<x>>
           /\ \A x \in ToSet(s) : \E j \in 1 .. Len(s) : s[SortedOrder(s)[j]] = x /\ B[<<x>>] = args[j]
<1> DEFINE ps == [k \in 1 .. Len(s) |-> <<s[SortedOrder(s)[k]]>>]
           order == SortedOrder(s)
           B == Bind(Params(s), args)
<1>1. /\ \A k \in 1 .. Len(s) : order[k] \in 1 .. Len(s)
      /\ \A a \in 1 .. Len(s) : \E k \in 1 .. Len(s) : order[k] = a
  BY SortedIs
<1>2. B = [n \in ToSet(ps) |-> args[CHOOSE j \in DOMAIN args : ps[j] = n]]
  BY DEF Bind, Params
<1> HIDE DEF B
<1>3. \A x : x \in ToSet(s) <=> \E i \in 1 .. Len(s) : s[i] = x
  BY ToSetIs
<1>4. \A n : n \in ToSet(ps) <=> \E k \in 1 .. Len(s) : n = <<s[order[k]]>>
  BY DEF ToSet
<1> HIDE DEF order
<1>5. \A n : n \in ToSet(ps) <=> \E x \in ToSet(s) : n = <<x>>
  <2>1. ASSUME NEW k \in 1 .. Len(s) PROVE s[order[k]] \in ToSet(s)
    BY <1>1, <1>3
  <2>2. ASSUME NEW x \in ToSet(s) PROVE \E k \in 1 .. Len(s) : s[order[k]] = x
    <3>1. PICK a \in 1 .. Len(s) : s[a] = x
      BY <1>3
    <3>2. PICK k \in 1 .. Len(s) : order[k] = a
      BY <1>1
    <3> QED BY <3>1, <3>2
  <2> HIDE DEF ps
  <2> QED BY <1>4, <2>1, <2>2
<1>6. ASSUME NEW x \in ToSet(s)
      PROVE  \E j \in 1 .. Len(s) : s[order[j]] = x /\ B[<<x>>] = args[j]
  <2> DEFINE j == CHOOSE j \in DOMAIN args : ps[j] = <<x>>
  <2>1. <<x>> \in ToSet(ps)
    BY <1>5
  <2>2. B[<<x>>] = args[j]
    BY <1>2, <2>1
  <2>3. \E k \in DOMAIN args : ps[k] = <<x>>
    BY <1>4, <2>1 DEF order
  <2>4. j \in DOMAIN args /\ ps[j] = <<x>>
    BY <2>3
  <2> HIDE DEF j
  <2>5. ps[j] = <<s[order[j]]>>
    BY <2>4 DEF order
  <2>6. s[order[j]] = x
    BY <2>4, <2>5
  <2> QED BY <2>2, <2>4, <2>6
<1> QED BY <1>2, <1>5, <1>6 DEF order, B

-----------------------------------------------------------------------------
(* A group                                                                  *)

\* The members ids of a group and the tensors it takes: every member was
\* accepted and makes a tensor of its own, reads first what the one before it
\* made, and otherwise tensors that the group takes and does not make.
Chain(ids, ins) ==
    /\ Len(ids) \in Nat \ {0} /\ ins \in Seq(Nat) /\ Len(ins) \in Nat \ {0}
    /\ \A p \in 1 .. Len(ids) : Accepted(ids[p])
    /\ \A p, q \in 1 .. Len(ids) : Out(ids[p]) = Out(ids[q]) => p = q
    /\ nodes[ids[1]].inputs[1] = ins[1]
    /\ \A p \in 2 .. Len(ids) : nodes[ids[p]].inputs[1] = Out(ids[p - 1])
    /\ \A p \in 1 .. Len(ids) : \A j \in 1 .. Len(nodes[ids[p]].inputs) :
         (p > 1 /\ j = 1) \/ nodes[ids[p]].inputs[j] \in ToSet(ins)
    /\ \A x \in ToSet(ins) : x \in TensorId /\ \A p \in 1 .. Len(ids) : Out(ids[p]) # x

LEMMA GroupChain ==
    ASSUME PlanInv, stage \in {"compile", "threw"}, NEW g \in 1 .. Len(groups)
    PROVE  Chain(groups[g].node_ids, groups[g].inputs)
<1> DEFINE ids == groups[g].node_ids
           ins == groups[g].inputs
<1>1. /\ GraphInv /\ Shaped(groups, next, side) /\ Once(groups, next) /\ Chained(groups)
      /\ Supplied(groups) /\ Given(groups, side) /\ Headed(groups) /\ groups \in Seq(Group)
      /\ side = 0 /\ next = Len(nodes) + 1 /\ Len(nodes) \in Nat /\ CheckWeights
  BY GroupsAre DEF PlanInv, FuseInv, ValidatorInv
<1>2. /\ Len(groups) \in Nat
      /\ \A h \in 1 .. Len(groups) :
           /\ groups[h].inputs \in Seq(Nat)
           /\ Len(groups[h].inputs) \in Nat /\ Len(groups[h].node_ids) \in Nat
           /\ groups[h].node_ids # <<>>
           /\ Len(groups[h].node_ids) \in 1 .. Len(groups[h].node_ids)
  BY <1>1, GroupLists DEF Shaped
<1>3. \A h \in 1 .. Len(groups) : \A p \in 1 .. Len(groups[h].node_ids) : groups[h].node_ids[p] \in NodeId
  <2>1. next - 1 = Len(nodes)
    BY <1>1
  <2> QED BY <1>1, <2>1 DEF Shaped, NodeId
<1>4. \A i \in NodeId : Accepted(i) /\ tensors[Out(i)].producer = i /\ i # 0
  <2>1. \A i \in NodeId : Accepted(i)
    BY <1>1, NodeAccepted
  <2>2. \A i \in NodeId : tensors[Out(i)].producer = i
    BY <1>1 DEF GraphInv, WellFormed, Out
  <2> QED BY <2>1, <2>2 DEF NodeId
<1>5. \A p \in 1 .. Len(ids) : Accepted(ids[p]) /\ tensors[Out(ids[p])].producer = ids[p] /\ ids[p] # 0
  BY <1>3, <1>4
<1>6. ASSUME NEW p \in 1 .. Len(ids), NEW q \in 1 .. Len(ids), Out(ids[p]) = Out(ids[q]) PROVE p = q
  <2>1. ids[p] = ids[q]
    BY <1>5, <1>6
  <2> QED BY <1>1, <2>1 DEF Once
<1>7. Len(ids) \in Nat \ {0} /\ 1 \in 1 .. Len(ids)
  BY <1>2
<1>8. Len(ins) >= 1 /\ nodes[ids[1]].inputs[1] = ins[1]
  <2>1. Len(nodes[ids[1]].inputs) >= 1
    BY <1>5, <1>7 DEF Accepted
  <2> QED BY <1>1, <2>1 DEF Headed
<1>9. ASSUME NEW p \in 2 .. Len(ids) PROVE nodes[ids[p]].inputs[1] = Out(ids[p - 1])
  <2>1. p - 1 \in 1 .. (Len(ids) - 1) /\ (p - 1) + 1 = p
    BY <1>7
  <2>2. Uses(Out(ids[p - 1])) = {<<ids[p], 1>>}
    BY <1>1, <2>1 DEF Chained, Out
  <2>3. \A x : <<ids[p], 1>> \in Uses(x) => nodes[ids[p]].inputs[1] = x
    <3>1. ids[p] # 0
      BY <1>5, <1>7
    <3> QED BY <3>1 DEF Uses
  <2> QED BY <2>2, <2>3
<1>10. ASSUME NEW p \in 1 .. Len(ids), NEW j \in 1 .. Len(nodes[ids[p]].inputs)
       PROVE  (p > 1 /\ j = 1) \/ nodes[ids[p]].inputs[j] \in ToSet(ins)
  BY <1>1 DEF Given
<1>11. ASSUME NEW x \in ToSet(ins) PROVE x \in TensorId /\ \A p \in 1 .. Len(ids) : Out(ids[p]) # x
  <2>1. PICK j \in 1 .. Len(ins) : ins[j] = x
    BY <1>2, ToSetIs
  <2>2. x \in TensorId /\ (tensors[x].producer = 0 \/ \E h \in 1 .. (g - 1) : groups[h].output = x)
    BY <1>1, <2>1 DEF Supplied
  <2>3. ASSUME NEW p \in 1 .. Len(ids), Out(ids[p]) = x PROVE FALSE
    <3>1. tensors[x].producer = ids[p] /\ ids[p] # 0
      BY <1>5, <2>3
    <3>2. PICK h \in 1 .. (g - 1) : groups[h].output = x
      BY <2>2, <3>1
    <3>3. h \in 1 .. Len(groups) /\ h # g
      BY <1>2
    <3> DEFINE q == Len(groups[h].node_ids)
    <3>4. q \in 1 .. q
      BY <1>2, <3>3
    <3>5. Out(groups[h].node_ids[q]) = x
      BY <1>1, <3>2, <3>3 DEF Shaped, Out
    <3>6. tensors[x].producer = groups[h].node_ids[q]
      BY <1>3, <1>4, <3>3, <3>4, <3>5
    <3>7. groups[h].node_ids[q] = groups[g].node_ids[p]
      BY <3>1, <3>6
    <3>8. \A a, b \in 1 .. Len(groups) :
            \A r \in 1 .. Len(groups[a].node_ids), t \in 1 .. Len(groups[b].node_ids) :
               groups[a].node_ids[r] = groups[b].node_ids[t] => a = b
      BY <1>1, Zenon DEF Once
    <3>9. p \in 1 .. Len(groups[g].node_ids)
      OBVIOUS
    <3>10. h = g
      BY <3>3, <3>4, <3>7, <3>8, <3>9, Zenon
    <3> QED BY <3>3, <3>10
  <2> QED BY <2>2, <2>3
<1>12. ins \in Seq(Nat) /\ Len(ins) \in Nat \ {0}
  BY <1>2, <1>8
<1> HIDE DEF ids, ins
<1>13. Chain(ids, ins)
  BY <1>5, <1>6, <1>7, <1>8, <1>9, <1>10, <1>11, <1>12 DEF Chain
<1> QED BY <1>13 DEF ids, ins

-----------------------------------------------------------------------------
(* compile_group                                                            *)

LEMMA EntriesAre ==
    ASSUME NEW i
    PROVE  /\ Sequence(NodeEntries(i)) /\ Len(NodeEntries(i)) \in Nat
           /\ \A m \in 1 .. Len(NodeEntries(i)) : NodeEntries(i)[m].file[1] = i
           /\ \A m, l \in 1 .. Len(NodeEntries(i)) :
                NodeEntries(i)[m].file = NodeEntries(i)[l].file => m = l
<1> DEFINE P(s) == /\ Sequence(s) /\ Len(s) \in Nat
                   /\ \A m \in 1 .. Len(s) : s[m].file[1] = i
                   /\ \A m, l \in 1 .. Len(s) : s[m].file = s[l].file => m = l
<1>1. P(<<>>)
  BY DEF Sequence
<1>2. ASSUME NEW a PROVE P(<<[file |-> <<i>>, data |-> a]>>)
  BY DEF Sequence
<1>3. ASSUME NEW a, NEW b PROVE P(<<[file |-> <<i>>, data |-> a], [file |-> BetaFile(i), data |-> b]>>)
  <2> DEFINE s == <<[file |-> <<i>>, data |-> a], [file |-> BetaFile(i), data |-> b]>>
  <2>1. s[1].file = <<i>> /\ s[2].file = <<i, "b">> /\ Len(s) = 2 /\ Sequence(s)
    BY DEF BetaFile, Sequence
  <2>2. <<i>> # <<i, "b">> /\ <<i>>[1] = i /\ <<i, "b">>[1] = i
    <3>1. Len(<<i>>) = 1 /\ Len(<<i, "b">>) = 2
      OBVIOUS
    <3> QED BY <3>1
  <2>3. \A m \in 1 .. 2 : m = 1 \/ m = 2
    OBVIOUS
  <2> HIDE DEF s
  <2>4. P(s)
    BY <2>1, <2>2, <2>3
  <2> QED BY <2>4 DEF s
<1>4. P(NodeEntries(i))
  <2> DEFINE n == nodes[i]  N == NodeEntries(i)
  <2> HIDE DEF P
  <2>1. CASE n.weights = "none"
    <3>1. N = <<>>
      BY <2>1 DEF NodeEntries
    <3> QED BY <1>1, <3>1
  <2>2. CASE n.weights # "none" /\ n.op \in {"LAYERNORM", "LAYER_NORM"}
    <3>1. PICK a, b : N = <<[file |-> <<i>>, data |-> a], [file |-> BetaFile(i), data |-> b]>>
      BY <2>2 DEF NodeEntries
    <3> QED BY <1>3, <3>1
  <2>3. CASE n.weights # "none" /\ n.op \notin {"LAYERNORM", "LAYER_NORM"}
    <3>1. PICK a : N = <<[file |-> <<i>>, data |-> a]>>
      BY <2>3 DEF NodeEntries
    <3> QED BY <1>2, <3>1
  <2> QED BY <2>1, <2>2, <2>3
<1> QED BY <1>4

\* The entries es are those of the first n members.
Handed(ids, n, es) ==
    /\ Sequence(es) /\ Len(es) \in Nat
    /\ \A e \in 1 .. Len(es) :
         \E p \in 1 .. n : \E m \in 1 .. Len(NodeEntries(ids[p])) : es[e] = NodeEntries(ids[p])[m]
    /\ \A p \in 1 .. n : \A m \in 1 .. Len(NodeEntries(ids[p])) :
         \E e \in 1 .. Len(es) : es[e] = NodeEntries(ids[p])[m]
    /\ \A d, e \in 1 .. Len(es) : es[d].file = es[e].file => d = e

LEMMA HandedGrows ==
    ASSUME NEW ids, NEW n \in Nat, NEW es, Handed(ids, n, es),
           \A p, q \in 1 .. (n + 1) : ids[p] = ids[q] => p = q
    PROVE  Handed(ids, n + 1, es \o NodeEntries(ids[n + 1]))
<1> DEFINE b == NodeEntries(ids[n + 1])
           ab == es \o b
<1>1. /\ Sequence(b) /\ Len(b) \in Nat
      /\ \A m \in 1 .. Len(b) : b[m].file[1] = ids[n + 1]
      /\ \A m, l \in 1 .. Len(b) : b[m].file = b[l].file => m = l
  BY EntriesAre
<1>2. /\ n + 1 \in 1 .. (n + 1)
      /\ \A p \in 1 .. n : p \in 1 .. (n + 1) /\ p # n + 1
      /\ \A p \in 1 .. (n + 1) : p \in 1 .. n \/ p = n + 1
  OBVIOUS
<1>3. Joined(ab, es, b)
  BY <1>1, JoinedIs DEF Handed
<1> HIDE DEF ab
<1>4. /\ Sequence(es) /\ Len(es) \in Nat
      /\ \A e \in 1 .. Len(es) :
           \E p \in 1 .. n : \E m \in 1 .. Len(NodeEntries(ids[p])) : es[e] = NodeEntries(ids[p])[m]
      /\ \A p \in 1 .. n : \A m \in 1 .. Len(NodeEntries(ids[p])) :
           \E e \in 1 .. Len(es) : es[e] = NodeEntries(ids[p])[m]
      /\ \A d, e \in 1 .. Len(es) : es[d].file = es[e].file => d = e
  BY DEF Handed
<1>5. /\ Sequence(ab) /\ Len(ab) \in Nat
      /\ \A j \in 1 .. Len(es) : ab[j] = es[j] /\ j \in 1 .. Len(ab)
      /\ \A j \in 1 .. Len(b) : ab[Len(es) + j] = b[j] /\ Len(es) + j \in 1 .. Len(ab)
  BY <1>1, <1>3, <1>4 DEF Joined
<1>6. ASSUME NEW k \in 1 .. Len(ab)
      PROVE  \/ k \in 1 .. Len(es) /\ ab[k] = es[k]
             \/ \E l \in 1 .. Len(b) : k = Len(es) + l /\ ab[k] = b[l]
  BY <1>3, JoinedSplit
<1>7. ASSUME NEW k \in 1 .. Len(es), NEW l \in 1 .. Len(b) PROVE es[k].file # b[l].file
  <2>1. PICK p \in 1 .. n : \E m \in 1 .. Len(NodeEntries(ids[p])) : es[k] = NodeEntries(ids[p])[m]
    BY <1>4
  <2>2. es[k].file[1] = ids[p]
    BY <2>1, EntriesAre
  <2>3. ids[p] # ids[n + 1]
    BY <1>2
  <2> HIDE DEF b
  <2> QED BY <1>1, <2>2, <2>3
<1>8. ASSUME NEW e \in 1 .. Len(ab)
      PROVE  \E p \in 1 .. (n + 1) : \E m \in 1 .. Len(NodeEntries(ids[p])) : ab[e] = NodeEntries(ids[p])[m]
  <2>1. CASE e \in 1 .. Len(es) /\ ab[e] = es[e]
    BY <1>2, <1>4, <2>1
  <2>2. CASE \E l \in 1 .. Len(b) : e = Len(es) + l /\ ab[e] = b[l]
    BY <1>2, <2>2
  <2> HIDE DEF b
  <2> QED BY <1>6, <2>1, <2>2
<1>9. ASSUME NEW p \in 1 .. (n + 1), NEW m \in 1 .. Len(NodeEntries(ids[p]))
      PROVE  \E e \in 1 .. Len(ab) : ab[e] = NodeEntries(ids[p])[m]
  <2>1. CASE p \in 1 .. n
    BY <1>4, <1>5, <2>1
  <2>2. CASE p = n + 1
    BY <1>5, <2>2
  <2> QED BY <1>2, <2>1, <2>2
<1> HIDE DEF b
<1>10. ASSUME NEW d \in 1 .. Len(ab), NEW e \in 1 .. Len(ab), ab[d].file = ab[e].file PROVE d = e
  <2>1. CASE d \in 1 .. Len(es) /\ ab[d] = es[d]
    <3>1. CASE e \in 1 .. Len(es) /\ ab[e] = es[e]
      BY <1>4, <1>10, <2>1, <3>1
    <3>2. CASE \E l \in 1 .. Len(b) : e = Len(es) + l /\ ab[e] = b[l]
      BY <1>7, <1>10, <2>1, <3>2
    <3> QED BY <1>6, <3>1, <3>2
  <2>2. CASE \E l \in 1 .. Len(b) : d = Len(es) + l /\ ab[d] = b[l]
    BY <1>1, <1>6, <1>7, <1>10, <2>2
  <2> QED BY <1>6, <2>1, <2>2
<1>11. Handed(ids, n + 1, ab)
  BY <1>5, <1>8, <1>9, <1>10 DEF Handed
<1> QED BY <1>11 DEF ab, b

\* compile_group has made the fragments fs of the first members ids of a group
\* that takes the tensors ins: each reads its member's own first input, the weight
\* files es are those of the same members, the chain cv is at the next one's
\* input; the program pr is made of all.
Compiling(ids, ins, fs, cv, es, pr) ==
    /\ Sequence(fs) /\ Len(fs) \in 0 .. Len(ids)
    /\ \A p \in 1 .. Len(fs) : fs[p] = FragOf(ids[p]) /\ FragOf(ids[p]).ok
    /\ cv = IF Len(fs) = 0 THEN <<ins[1]>> ELSE <<Out(ids[Len(fs)])>>
    /\ Handed(ids, Len(fs), es)
    /\ pr # <<>> =>
         /\ Len(fs) = Len(ids)
         /\ pr = build_fused([k \in DOMAIN ins |-> <<ins[k]>>],
                             [k \in DOMAIN ins |-> ShapeOf(ins[k])], fs)

MilInv ==
    /\ chain_var = <<>> => frags = <<>> /\ entries = <<>> /\ prog = <<>>
    /\ chain_var # <<>> =>
         /\ stage \in {"compile", "threw"} /\ settled
         /\ gi \in 1 .. Len(groups) /\ ~EspressoOwns(Current)
         /\ Compiling(Current.node_ids, Current.inputs, frags, chain_var, entries, prog)

LEMMA FragSame ==
    ASSUME UNCHANGED graphVars
    PROVE  /\ \A i : FragOf(i)' = FragOf(i) /\ Out(i)' = Out(i) /\ NodeEntries(i)' = NodeEntries(i)
           /\ \A x : ShapeOf(x)' = ShapeOf(x)
<1>1. tensors' = tensors /\ nodes' = nodes
  BY DEF graphVars
<1>2. \A x : ShapeOf(x)' = ShapeOf(x)
  BY <1>1 DEF ShapeOf
<1>3. \A i : Out(i)' = Out(i)
  BY <1>1 DEF Out
<1>4. ASSUME NEW i PROVE NodeEntries(i)' = NodeEntries(i)
  <2>1. WeightCount(nodes[i])' = WeightCount(nodes[i]) /\ IsMask(nodes[i])' = IsMask(nodes[i])
    BY <1>1, <1>2 DEF WeightCount, IsMask
  <2>2. UserWeights(i)' = UserWeights(i)
    BY <1>1, <2>1 DEF UserWeights
  <2> QED BY <1>1, <1>2, <2>1, <2>2 DEF NodeEntries
<1>5. ASSUME NEW i PROVE FragOf(i)' = FragOf(i)
  <2>1. GammaFile(i)' = GammaFile(i)
    BY <1>1 DEF GammaFile
  <2> QED BY <1>1, <1>2, <2>1 DEF FragOf, NodeToFragment
<1> QED BY <1>2, <1>3, <1>4, <1>5

\* A sequence with one more element.
LEMMA AppendIs ==
    ASSUME NEW a, Sequence(a), Len(a) \in Nat, NEW x
    PROVE  /\ Len(Append(a, x)) = Len(a) + 1 /\ Sequence(Append(a, x))
           /\ Append(a, x)[Len(a) + 1] = x
           /\ \A p \in 1 .. Len(a) : Append(a, x)[p] = a[p]
<1> DEFINE S == {a[k] : k \in 1 .. Len(a)} \cup {x}
           b == Append(a, x)
<1>1. a \in Seq(S)
  <2>1. [k \in 1 .. Len(a) |-> a[k]] \in [1 .. Len(a) -> S]
    OBVIOUS
  <2>2. a \in [1 .. Len(a) -> S]
    BY <2>1 DEF Sequence
  <2> QED BY <2>2
<1>2. x \in S
  OBVIOUS
<1> HIDE DEF S
<1>3. b \in Seq(S) /\ Len(b) = Len(a) + 1 /\ b[Len(a) + 1] = x /\ \A p \in 1 .. Len(a) : b[p] = a[p]
  BY <1>1, <1>2
<1>4. Sequence(b)
  <2> HIDE DEF b
  <2> QED BY <1>3 DEF Sequence
<1> QED BY <1>3, <1>4

LEMMA CompilingSame ==
    ASSUME UNCHANGED graphVars, NEW ids, NEW ins, NEW fs, NEW cv, NEW es, NEW pr
    PROVE  Compiling(ids, ins, fs, cv, es, pr)' = Compiling(ids, ins, fs, cv, es, pr)
<1>1. /\ \A i : FragOf(i)' = FragOf(i) /\ Out(i)' = Out(i) /\ NodeEntries(i)' = NodeEntries(i)
      /\ \A x : ShapeOf(x)' = ShapeOf(x)
  BY FragSame
<1>2. Handed(ids, Len(fs), es)' = Handed(ids, Len(fs), es)
  <2> DEFINE N(i) == NodeEntries(i)
             In(e, i) == \E m \in 1 .. Len(N(i)) : es[e] = N(i)[m]
             Got(m, i) == \E e \in 1 .. Len(es) : es[e] = N(i)[m]
             All(i) == \A m \in 1 .. Len(N(i)) : Got(m, i)
  <2>1. \A e, i : In(e, i)' = In(e, i)
    BY <1>1
  <2>2. \A i : All(i)' = All(i)
    BY <1>1
  <2>3. \A e : (\E p \in 1 .. Len(fs) : In(e, ids[p]))' = (\E p \in 1 .. Len(fs) : In(e, ids[p]))
    <3> HIDE DEF In
    <3> QED BY <2>1
  <2>4. (\A p \in 1 .. Len(fs) : All(ids[p]))' = (\A p \in 1 .. Len(fs) : All(ids[p]))
    <3> HIDE DEF All
    <3> QED BY <2>2
  <2> QED BY <2>3, <2>4 DEF Handed
<1>3. [k \in DOMAIN ins |-> ShapeOf(ins[k])]' = [k \in DOMAIN ins |-> ShapeOf(ins[k])]
  BY <1>1
<1> QED BY <1>1, <1>2, <1>3 DEF Compiling

\* A step of compile_group in its group.
LEMMA MilGoes ==
    ASSUME UNCHANGED <<graphVars, groups, settled, gi>>, settled,
           gi \in 1 .. Len(groups), ~EspressoOwns(Current),
           chain_var' # <<>>, stage' \in {"compile", "threw"},
           Compiling(Current.node_ids, Current.inputs, frags', chain_var', entries', prog')
    PROVE  MilInv'
<1>1. groups' = groups /\ settled' = settled /\ gi' = gi /\ UNCHANGED graphVars
  OBVIOUS
<1>2. Current' = Current /\ EspressoOwns(Current)' = EspressoOwns(Current)
  BY <1>1, BuilderSame DEF Current
<1>3. Compiling(Current.node_ids, Current.inputs, frags, chain_var, entries, prog)'
  BY <1>1, <1>2, CompilingSame
<1> QED BY <1>1, <1>2, <1>3 DEF MilInv

LEMMA MilStarts == Init => MilInv
BY DEF Init, MilInit, MilInv

LEMMA MilKeeps == BackInv /\ AllocInv /\ EspressoInv /\ MilInv /\ BackSteps => MilInv'
<1> SUFFICES ASSUME BackInv, AllocInv, EspressoInv, MilInv, BackSteps PROVE MilInv'
  OBVIOUS
<1>1. UNCHANGED graphVars
  BY DEF BackSteps, Fuse, vars, planVars
<1>2. CASE chain_var = <<>> /\ UNCHANGED <<frags, chain_var, entries, prog>>
  BY <1>2 DEF MilInv
<1>3. CASE /\ stage = "compile" /\ settled /\ gi <= Len(groups) /\ ~EspressoOwns(Current)
           /\ MilStep /\ UNCHANGED <<groups, settled>>
  <2> DEFINE ids == Current.node_ids  ins == Current.inputs  n == Len(frags)
  <2>1. groups' = groups /\ settled' = settled /\ tensors' = tensors /\ nodes' = nodes
    BY <1>1, <1>3 DEF graphVars
  <2>2. gi \in 1 .. Len(groups)
    <3>1. gi \in Nat \ {0} /\ Len(groups) \in Nat
      BY GroupsAre, GroupLists DEF BackInv, EspressoInv
    <3> QED BY <1>3, <3>1
  <2>3. Chain(ids, ins)
    BY <1>3, <2>2, GroupChain DEF BackInv, Current
  <2>4. Len(ids) \in Nat \ {0} /\ \A p, q \in 1 .. Len(ids) : ids[p] = ids[q] => p = q
    <3> HIDE DEF ids, ins
    <3> QED BY <2>3 DEF Chain
  <2>8. CASE MilBegin
    <3>1. /\ chain_var = <<>> /\ chain_var' = <<ins[1]>> /\ stage' = stage
          /\ gi' = gi /\ frags' = frags /\ entries' = entries /\ prog' = prog
      BY <2>8 DEF MilBegin, TensorVar
    <3>2. frags = <<>> /\ entries = <<>> /\ prog = <<>>
      BY <3>1 DEF MilInv
    <3>3. Handed(ids, 0, <<>>)
      <4>1. Len(<<>>) = 0 /\ Sequence(<<>>) /\ 1 .. 0 = {}
        BY DEF Sequence
      <4> QED BY <4>1 DEF Handed
    <3>4. Len(<<>>) = 0 /\ Sequence(<<>>) /\ 1 .. 0 = {} /\ 0 \in 0 .. Len(ids)
      BY <2>4 DEF Sequence
    <3>5. Compiling(ids, ins, frags', chain_var', entries', prog')
      BY <3>1, <3>2, <3>3, <3>4 DEF Compiling
    <3> QED BY <1>1, <1>3, <2>1, <2>2, <3>1, <3>5, MilGoes
  <2>9. CASE MilNode
    <3> DEFINE i == ids[n + 1]
               f == NodeToFragment(i, chain_var, TensorVar(nodes[i].output))
    <3>1. /\ chain_var # <<>> /\ n < Len(ids) /\ stage' = stage /\ gi' = gi /\ prog' = prog
          /\ f.ok /\ frags' = Append(frags, f) /\ chain_var' = <<Out(i)>>
          /\ entries' = entries \o NodeEntries(i)
      BY <2>9 DEF MilNode, TensorVar, Out
    <3>2. /\ Sequence(frags) /\ n \in 0 .. Len(ids)
          /\ \A p \in 1 .. n : frags[p] = FragOf(ids[p]) /\ FragOf(ids[p]).ok
          /\ chain_var = IF n = 0 THEN <<ins[1]>> ELSE <<Out(ids[n])>>
          /\ Handed(ids, n, entries) /\ prog = <<>>
      BY <3>1 DEF MilInv, Compiling
    <3>3. /\ n \in Nat /\ n + 1 \in 0 .. Len(ids) /\ n + 1 \in 1 .. Len(ids)
          /\ \A p \in 1 .. (n + 1) : p \in 1 .. Len(ids)
      BY <2>4, <3>1, <3>2
    <3>4. chain_var = TensorVar(nodes[i].inputs[1])
      <4>1. CASE n = 0
        <5>1. nodes[ids[1]].inputs[1] = ins[1]
          <6> HIDE DEF ids, ins
          <6> QED BY <2>3 DEF Chain
        <5> QED BY <3>2, <4>1, <5>1 DEF TensorVar
      <4>2. CASE n # 0
        <5>1. n + 1 \in 2 .. Len(ids) /\ (n + 1) - 1 = n
          BY <3>3, <4>2
        <5>2. nodes[ids[n + 1]].inputs[1] = Out(ids[(n + 1) - 1])
          <6> HIDE DEF ids, ins, n
          <6> QED BY <2>3, <5>1 DEF Chain
        <5> QED BY <3>2, <4>2, <5>1, <5>2 DEF TensorVar
      <4> QED BY <4>1, <4>2
    <3>5. f = FragOf(i)
      BY <3>4 DEF FragOf
    <3>6. Handed(ids, n + 1, entries \o NodeEntries(i))
      <4> HIDE DEF ids, n
      <4> QED BY <2>4, <3>2, <3>3, HandedGrows
    <3> HIDE DEF f
    <3>7. /\ Len(frags') = n + 1 /\ Sequence(frags')
          /\ \A p \in 1 .. (n + 1) : frags'[p] = FragOf(ids[p]) /\ FragOf(ids[p]).ok
      <4>1. /\ Len(frags') = n + 1 /\ Sequence(frags') /\ frags'[n + 1] = f
            /\ \A p \in 1 .. n : frags'[p] = frags[p]
        BY <3>1, <3>2, <3>3, AppendIs
      <4>2. \A p \in 1 .. (n + 1) : p \in 1 .. n \/ p = n + 1
        BY <3>3
      <4> QED BY <3>1, <3>2, <3>5, <4>1, <4>2
    <3>8. Compiling(ids, ins, frags', chain_var', entries', prog')
      BY <3>1, <3>2, <3>3, <3>6, <3>7 DEF Compiling
    <3> QED BY <1>1, <1>3, <2>1, <2>2, <3>1, <3>8, MilGoes
  <2>10. CASE MilNodeThrows
    <3>1. /\ chain_var # <<>> /\ stage' = "threw" /\ gi' = gi /\ prog' = prog
          /\ frags' = frags /\ chain_var' = chain_var /\ entries' = entries
      BY <2>10 DEF MilNodeThrows, milVars
    <3>2. Compiling(ids, ins, frags', chain_var', entries', prog')
      BY <3>1 DEF MilInv
    <3> QED BY <1>1, <1>3, <2>1, <2>2, <3>1, <3>2, MilGoes
  <2>11. CASE MilBuild
    <3>1. /\ chain_var # <<>> /\ n = Len(ids) /\ stage' = stage /\ gi' = gi
          /\ frags' = frags /\ chain_var' = chain_var /\ entries' = entries
          /\ prog' = build_fused([k \in DOMAIN ins |-> <<ins[k]>>],
                                 [k \in DOMAIN ins |-> ShapeOf(ins[k])], frags)
      BY <2>11 DEF MilBuild, TensorVar
    <3>2. Compiling(ids, ins, frags, chain_var, entries, prog)
      BY <3>1 DEF MilInv
    <3>3. Compiling(ids, ins, frags', chain_var', entries', prog')
      BY <3>1, <3>2 DEF Compiling
    <3> QED BY <1>1, <1>3, <2>1, <2>2, <3>1, <3>3, MilGoes
  <2>12. CASE MilCompile
    <3>1. frags' = <<>> /\ chain_var' = <<>> /\ entries' = <<>> /\ prog' = <<>>
      BY <2>12 DEF MilCompile
    <3> QED BY <3>1 DEF MilInv
  <2> QED BY <1>3, <2>8, <2>9, <2>10, <2>11, <2>12 DEF MilStep
<1>4. CASE Route /\ UNCHANGED <<graphVars, errors, topoVars, fuseVars, half>>
  <2>1. stage = "compile" /\ settled /\ gi <= Len(groups) /\ UNCHANGED <<groups, settled>>
    BY <1>4 DEF Route, fuseVars, allocVars
  <2>2. CASE EspressoOwns(Current)
    <3>1. UNCHANGED <<frags, chain_var, entries, prog>>
      BY <1>4, <2>2 DEF Route, EspressoStep
    <3> QED BY <1>2, <2>2, <3>1 DEF MilInv
  <2>3. CASE ~EspressoOwns(Current)
    <3>1. MilStep
      BY <1>4, <2>3 DEF Route
    <3> QED BY <1>3, <2>1, <2>3, <3>1
  <2> QED BY <2>2, <2>3
<1>5. CASE stage = "fuse" /\ UNCHANGED milVars
  BY <1>2, <1>5 DEF MilInv, milVars
<1>6. CASE AllocStep /\ UNCHANGED milVars
  <2>1. ~settled
    BY <1>6 DEF AllocStep, AllocBegin, AllocTurn, AllocInv
  <2> QED BY <1>2, <1>6, <2>1 DEF MilInv, milVars
<1>7. CASE CompileEnd
  <2>1. gi > Len(groups) /\ UNCHANGED milVars
    BY <1>7 DEF CompileEnd
  <2>2. gi \notin 1 .. Len(groups)
    <3>1. gi \in Nat \ {0} /\ Len(groups) \in Nat
      BY GroupsAre, GroupLists DEF BackInv, EspressoInv
    <3> QED BY <2>1, <3>1
  <2> QED BY <1>2, <2>1, <2>2 DEF MilInv, milVars
<1>8. CASE UNCHANGED vars
  <2>1. /\ groups' = groups /\ settled' = settled /\ stage' = stage /\ gi' = gi /\ prog' = prog
        /\ frags' = frags /\ chain_var' = chain_var /\ entries' = entries
    BY <1>8 DEF vars, planVars, fuseVars, allocVars, milVars
  <2>2. CASE chain_var = <<>>
    BY <1>2, <2>1, <2>2
  <2>3. CASE chain_var # <<>>
    <3>1. /\ stage \in {"compile", "threw"} /\ settled
          /\ gi \in 1 .. Len(groups) /\ ~EspressoOwns(Current)
          /\ Compiling(Current.node_ids, Current.inputs, frags', chain_var', entries', prog')
      BY <2>1, <2>3 DEF MilInv
    <3> QED BY <1>1, <2>1, <2>3, <3>1, MilGoes
  <2> QED BY <2>2, <2>3
<1> QED BY <1>4, <1>5, <1>6, <1>7, <1>8 DEF BackSteps

\* What compile_group has at hand (Compiling), in every reachable state.
THEOREM MilInvariant == Spec => [](BackInv /\ AllocInv /\ EspressoInv /\ MilInv)
<1> DEFINE I == BackInv /\ AllocInv /\ EspressoInv /\ MilInv
<1>1. Init => I
  BY BackStarts, AllocStarts, EspressoStarts, MilStarts
<1>2. I /\ [Next]_vars => I'
  BY BackCases, BackKeeps, AllocKeeps, EspressoKeeps, MilKeeps
<1> HIDE DEF I
<1>3. Spec => []I
  BY <1>1, <1>2, PTL DEF Spec
<1> QED BY <1>3 DEF I

-----------------------------------------------------------------------------
(* The program of a group                                                   *)

Bodies(ids) == [p \in 1 .. Len(ids) |-> BodyOf(ids[p])]
Outs(ids) == [p \in 1 .. Len(ids) |-> Out(ids[p])]
Takes(ins) == {<<x>> : x \in ToSet(ins)}

\* P is the program of the members ids of a group that takes the tensors ins.
Made(ids, ins, P) ==
    /\ P.params = [k \in 1 .. Len(ins) |-> <<ins[SortedOrder(ins)[k]]>>]
    /\ P.ret = <<Out(ids[Len(ids)])>>
    /\ \A p \in 1 .. Len(ids) : FragOf(ids[p]).ok
    /\ Flattened(P.body, Bodies(ids), Outs(ids), Takes(ins), Len(ids))

\* What member p of a chain reads.
LEMMA ChainReads ==
    ASSUME NEW ids, NEW ins, Chain(ids, ins), NEW p \in 1 .. Len(ids), NEW n \in ReadsOf(ids[p])
    PROVE  n \in Takes(ins) \/ (p # 1 /\ n = <<Outs(ids)[p - 1]>>)
<1>1. PICK j \in 1 .. Len(nodes[ids[p]].inputs) : n = <<nodes[ids[p]].inputs[j]>>
  BY DEF ReadsOf, TensorVar
<1>2. (p > 1 /\ j = 1) \/ nodes[ids[p]].inputs[j] \in ToSet(ins)
  BY DEF Chain
<1>3. CASE nodes[ids[p]].inputs[j] \in ToSet(ins)
  BY <1>1, <1>3 DEF Takes
<1>4. CASE p > 1 /\ j = 1
  <2>1. p \in 2 .. Len(ids) /\ p - 1 \in 1 .. Len(ids) /\ p # 1
    BY <1>4 DEF Chain
  <2>2. nodes[ids[p]].inputs[1] = Out(ids[p - 1])
    BY <2>1 DEF Chain
  <2>3. Outs(ids)[p - 1] = Out(ids[p - 1])
    BY <2>1 DEF Outs
  <2> QED BY <1>1, <1>4, <2>1, <2>2, <2>3
<1> QED BY <1>2, <1>3, <1>4

LEMMA ChainLine ==
    ASSUME NEW ids, NEW ins, Chain(ids, ins), \A p \in 1 .. Len(ids) : FragOf(ids[p]).ok
    PROVE  Line(Bodies(ids), Outs(ids), Takes(ins)) /\ Len(Bodies(ids)) = Len(ids)
<1> DEFINE bs == Bodies(ids)  o == Outs(ids)  from == Takes(ins)
<1>1. /\ Len(ids) \in Nat \ {0} /\ Len(bs) = Len(ids)
      /\ \A p \in 1 .. Len(ids) : bs[p] = BodyOf(ids[p]) /\ o[p] = Out(ids[p])
  BY DEF Bodies, Outs, Chain
<1>2. \A p, q \in 1 .. Len(ids) : o[p] = o[q] => p = q
  <2> HIDE DEF o, bs
  <2> QED BY <1>1 DEF Chain
<1> HIDE DEF bs, o, from
<1>3. ASSUME NEW p \in 1 .. Len(ids)
      PROVE  Neat(bs[p], o[p], IF p = 1 THEN from ELSE from \cup {<<o[p - 1]>>})
  <2> DEFINE more == IF p = 1 THEN from ELSE from \cup {<<o[p - 1]>>}
  <2>1. Sound(ids[p], BodyOf(ids[p]))
    BY NodeSound DEF Chain
  <2>2. Neat(bs[p], o[p], ReadsOf(ids[p]))
    BY <1>1, <2>1 DEF Sound, Out
  <2>3. \A n \in ReadsOf(ids[p]) : n \in more
    BY ChainReads DEF from, o
  <2> HIDE DEF more
  <2>4. Neat(bs[p], o[p], more)
    BY <2>2, <2>3 DEF Neat, Supply
  <2> QED BY <2>4 DEF more
<1>4. Line(bs, o, from)
  BY <1>1, <1>2, <1>3 DEF Line
<1> QED BY <1>1, <1>4 DEF bs, o, from

LEMMA ProgramMade ==
    ASSUME NEW ids, NEW ins, Chain(ids, ins), NEW fs, NEW cv, NEW es, NEW P,
           Compiling(ids, ins, fs, cv, es, P), P # <<>>
    PROVE  Made(ids, ins, P) /\ Handed(ids, Len(ids), es)
<1>1. /\ Sequence(fs) /\ Len(fs) = Len(ids) /\ Len(ids) \in Nat \ {0} /\ ins \in Seq(Nat)
      /\ \A p \in 1 .. Len(ids) : fs[p] = FragOf(ids[p]) /\ FragOf(ids[p]).ok
      /\ Handed(ids, Len(ids), es)
      /\ P = build_fused([k \in DOMAIN ins |-> <<ins[k]>>], [k \in DOMAIN ins |-> ShapeOf(ins[k])], fs)
  BY DEF Compiling, Chain
<1>2. /\ P.params = [k \in 1 .. Len(ins) |-> <<ins[SortedOrder(ins)[k]]>>]
      /\ P.body = FlattenSeq([k \in DOMAIN fs |-> fs[k].body])
      /\ P.ret = fs[Len(fs)].output_name
  BY <1>1, ParamsAre
<1>3. [k \in DOMAIN fs |-> fs[k].body] = Bodies(ids)
  <2>1. DOMAIN fs = 1 .. Len(ids)
    BY <1>1 DEF Sequence
  <2>2. \A p \in 1 .. Len(ids) : fs[p].body = BodyOf(ids[p])
    BY <1>1 DEF BodyOf
  <2> QED BY <2>1, <2>2 DEF Bodies
<1>4. Line(Bodies(ids), Outs(ids), Takes(ins)) /\ Len(Bodies(ids)) = Len(ids)
  BY <1>1, ChainLine
<1>5. Flattened(FlattenSeq(Bodies(ids)), Bodies(ids), Outs(ids), Takes(ins), Len(Bodies(ids)))
  BY <1>4, FlattenFlat
<1>6. Len(ids) \in 1 .. Len(ids)
  BY <1>1
<1>7. P.ret = <<Out(ids[Len(ids)])>>
  <2>1. FragOf(ids[Len(ids)]).output_name = <<Out(ids[Len(ids)])>>
    BY <1>1, <1>6, NodeSound DEF Chain
  <2> QED BY <1>1, <1>2, <1>6, <2>1
<1>8. Flattened(P.body, Bodies(ids), Outs(ids), Takes(ins), Len(ids))
  BY <1>2, <1>3, <1>4, <1>5
<1> QED BY <1>1, <1>2, <1>7, <1>8 DEF Made

\* The names of the program: its parameters, and the names of the bodies, which
\* start with their tensors.
LEMMA MadeNames ==
    ASSUME NEW ids, NEW ins, Chain(ids, ins), NEW P, Made(ids, ins, P)
    PROVE  /\ Sequence(P.body) /\ Len(P.body) \in Nat \ {0} /\ Apart(P.body)
           /\ Supply(P.body, Takes(ins)) /\ P.body[Len(P.body)].name = P.ret
           /\ \A k \in 1 .. Len(P.body) : P.body[k].name \notin Takes(ins)
<1> DEFINE b == P.body
<1>1. /\ Len(ids) \in 1 .. Len(ids)
      /\ Line(Bodies(ids), Outs(ids), Takes(ins)) /\ Len(Bodies(ids)) = Len(ids)
      /\ \A p \in 1 .. Len(ids) : Outs(ids)[p] = Out(ids[p])
  <2>1. Line(Bodies(ids), Outs(ids), Takes(ins)) /\ Len(Bodies(ids)) = Len(ids)
    BY ChainLine DEF Made
  <2>2. Len(ids) \in 1 .. Len(ids)
    BY DEF Chain
  <2> QED BY <2>1, <2>2 DEF Outs
<1>2. /\ Sequence(b) /\ Len(b) \in Nat \ {0} /\ Apart(b) /\ Supply(b, Takes(ins))
      /\ b[Len(b)].name = <<Outs(ids)[Len(ids)]>>
      /\ \A k \in 1 .. Len(b) :
           \E q \in 1 .. Len(ids) : \E l \in 1 .. Len(Bodies(ids)[q]) : b[k] = Bodies(ids)[q][l]
  BY DEF Made, Flattened
<1>3. b[Len(b)].name = P.ret
  BY <1>1, <1>2 DEF Made
<1> HIDE DEF b
<1>4. ASSUME NEW k \in 1 .. Len(b), b[k].name \in Takes(ins) PROVE FALSE
  <2>1. PICK q \in 1 .. Len(ids) : \E l \in 1 .. Len(Bodies(ids)[q]) : b[k] = Bodies(ids)[q][l]
    BY <1>2
  <2>2. \A l \in 1 .. Len(Bodies(ids)[q]) : Bodies(ids)[q][l].name[1] = Out(ids[q])
    BY <1>1 DEF Line, Neat
  <2>3. PICK x \in ToSet(ins) : b[k].name = <<x>>
    BY <1>4 DEF Takes
  <2>4. b[k].name[1] = Out(ids[q])
    BY <2>1, <2>2
  <2>5. x = Out(ids[q])
    BY <2>3, <2>4
  <2> QED BY <2>5 DEF Chain
<1> QED BY <1>2, <1>3, <1>4 DEF b

LEMMA ParamsSet ==
    ASSUME NEW ids, NEW ins \in Seq(Nat), NEW P, Made(ids, ins, P)
    PROVE  ToSet(P.params) = Takes(ins)
<1> DEFINE ps == Params(ins)
           B == Bind(ps, ps)
<1>1. \A n : n \in DOMAIN B <=> \E x \in ToSet(ins) : n = <<x>>
  <2>1. DOMAIN ps = 1 .. Len(ins)
    BY DEF Params
  <2> HIDE DEF ps
  <2> QED BY <2>1, Bound DEF ps
<1>2. DOMAIN B = ToSet(ps)
  BY DEF Bind
<1>3. P.params = ps
  BY DEF Made, Params
<1> HIDE DEF B, ps
<1> QED BY <1>1, <1>2, <1>3 DEF Takes

LEMMA MadeNamesOK ==
    ASSUME NEW ids, NEW ins, Chain(ids, ins), NEW P, Made(ids, ins, P), IsInjective(ins)
    PROVE  NamesOK(P)
<1> DEFINE ps == P.params  b == P.body
           ns == [k \in DOMAIN b |-> b[k].name]
           N == ps \o ns
<1>1. /\ Sequence(b) /\ Len(b) \in Nat \ {0} /\ Apart(b) /\ Supply(b, Takes(ins))
      /\ b[Len(b)].name = P.ret /\ \A k \in 1 .. Len(b) : b[k].name \notin Takes(ins)
  BY MadeNames
<1>2. ToSet(ps) = Takes(ins) /\ ins \in Seq(Nat)
  BY ParamsSet DEF Chain
<1>3. /\ Sequence(ps) /\ Len(ps) = Len(ins) /\ Len(ins) \in Nat
      /\ \A k \in 1 .. Len(ins) : ps[k] = <<ins[SortedOrder(ins)[k]]>>
  BY <1>2 DEF Made, Sequence
<1>4. \A p, q \in 1 .. Len(ins) : ps[p] = ps[q] => p = q
  <2> TAKE p, q \in 1 .. Len(ins)
  <2> HAVE ps[p] = ps[q]
  <2>1. ins[SortedOrder(ins)[p]] = ins[SortedOrder(ins)[q]]
    BY <1>3
  <2>2. \A k \in 1 .. Len(ins) : SortedOrder(ins)[k] \in 1 .. Len(ins)
    BY <1>2, SortedIs
  <2>3. SortedOrder(ins)[p] = SortedOrder(ins)[q]
    BY <1>2, <2>1, <2>2 DEF IsInjective
  <2> QED BY <1>2, <2>3, SortedIs
<1>5. \A k \in 1 .. Len(ins) : ps[k] \in Takes(ins)
  BY <1>2, <1>3 DEF ToSet, Sequence
<1> HIDE DEF ps, b
<1>6. DOMAIN b = 1 .. Len(b)
  BY <1>1 DEF Sequence
<1>7. Len(ns) = Len(b) /\ Sequence(ns) /\ \A k \in 1 .. Len(b) : ns[k] = b[k].name
  BY <1>1, <1>6 DEF Sequence
<1>8. Joined(N, ps, ns)
  <2> HIDE DEF ns
  <2> QED BY <1>1, <1>3, <1>7, JoinedIs
<1> HIDE DEF N, ns
<1>9. Len(N) \in Nat /\ DOMAIN N = 1 .. Len(N) /\ Len(N) = Len(ps) + Len(b)
  BY <1>1, <1>3, <1>7, <1>8 DEF Joined, Sequence
<1>10. ASSUME NEW k \in 1 .. Len(N)
       PROVE  \/ k \in 1 .. Len(ins) /\ N[k] = ps[k]
              \/ \E l \in 1 .. Len(b) : k = Len(ins) + l /\ N[k] = b[l].name
  <2>1. \/ k \in 1 .. Len(ps) /\ N[k] = ps[k]
        \/ \E l \in 1 .. Len(ns) : k = Len(ps) + l /\ N[k] = ns[l]
    BY <1>8, JoinedSplit
  <2> QED BY <1>3, <1>7, <2>1
<1>11. ASSUME NEW k \in 1 .. Len(N), NEW l \in 1 .. Len(N), N[k] = N[l] PROVE k = l
  <2>1. CASE k \in 1 .. Len(ins) /\ N[k] = ps[k]
    <3>1. CASE l \in 1 .. Len(ins) /\ N[l] = ps[l]
      BY <1>4, <1>11, <2>1, <3>1
    <3>2. CASE \E m \in 1 .. Len(b) : l = Len(ins) + m /\ N[l] = b[m].name
      BY <1>1, <1>5, <1>11, <2>1, <3>2
    <3> QED BY <1>10, <3>1, <3>2
  <2>2. CASE \E m \in 1 .. Len(b) : k = Len(ins) + m /\ N[k] = b[m].name
    <3>1. CASE l \in 1 .. Len(ins) /\ N[l] = ps[l]
      BY <1>1, <1>5, <1>11, <2>2, <3>1
    <3>2. CASE \E m \in 1 .. Len(b) : l = Len(ins) + m /\ N[l] = b[m].name
      BY <1>1, <1>11, <2>2, <3>2 DEF Apart
    <3> QED BY <1>10, <3>1, <3>2
  <2> QED BY <1>10, <2>1, <2>2
<1>12. Names(P) = N
  BY DEF Names, N, ns, ps, b
<1>13. IsInjective(Names(P))
  BY <1>9, <1>11, <1>12 DEF IsInjective
<1>14. ASSUME NEW k \in DOMAIN b, NEW n \in Reads(b[k])
       PROVE  n \in ToSet(ps) \cup {b[l].name : l \in 1 .. (k - 1)}
  BY <1>1, <1>2, <1>6 DEF Supply
<1>15. P.ret \in ToSet(Names(P))
  <2> DEFINE k == Len(ins) + Len(b)
  <2>1. k \in DOMAIN N /\ Len(b) \in 1 .. Len(b)
    BY <1>1, <1>3, <1>9
  <2>2. N[k] = ns[Len(b)]
    BY <1>3, <1>7, <1>8, <2>1 DEF Joined
  <2>3. N[k] = P.ret
    BY <1>1, <1>7, <2>1, <2>2
  <2> HIDE DEF k
  <2> QED BY <1>12, <2>1, <2>3 DEF ToSet
<1> QED BY <1>13, <1>14, <1>15 DEF NamesOK, ps, b

-----------------------------------------------------------------------------
(* The weight files                                                         *)

LEMMA BlobIs ==
    ASSUME NEW es, Sequence(es), NEW e \in 1 .. Len(es),
           \A d, f \in 1 .. Len(es) : es[d].file = es[f].file => d = f
    PROVE  Blobs(es)[es[e].file] = es[e].data
<1> DEFINE F == {es[k].file : k \in DOMAIN es}
           c == CHOOSE k \in DOMAIN es : es[k].file = es[e].file
<1>1. DOMAIN es = 1 .. Len(es)
  BY DEF Sequence
<1>2. Blobs(es)[es[e].file] = es[c].data
  BY <1>1 DEF Blobs
<1>3. c \in DOMAIN es /\ es[c].file = es[e].file
  BY <1>1
<1> HIDE DEF c
<1>4. c = e
  BY <1>1, <1>3
<1> QED BY <1>2, <1>4

\* The files of the group's program have what the member's entries have.
LEMMA HandedBlob ==
    ASSUME NEW ids, NEW n, NEW es, Handed(ids, n, es), NEW p \in 1 .. n,
           NEW m \in 1 .. Len(NodeEntries(ids[p]))
    PROVE  LET x == NodeEntries(ids[p])[m] IN
           Blobs(es)[x.file] = x.data /\ Blobs(NodeEntries(ids[p]))[x.file] = x.data
<1> DEFINE N == NodeEntries(ids[p])
<1>1. PICK e \in 1 .. Len(es) : es[e] = N[m]
  BY DEF Handed
<1>2. Blobs(es)[es[e].file] = es[e].data
  BY BlobIs DEF Handed
<1>3. Blobs(N)[N[m].file] = N[m].data
  <2>1. Sequence(N) /\ \A d, f \in 1 .. Len(N) : N[d].file = N[f].file => d = f
    BY EntriesAre
  <2> HIDE DEF N
  <2> QED BY <2>1, BlobIs DEF N
<1> QED BY <1>1, <1>2, <1>3

-----------------------------------------------------------------------------
(* Running the program of a group                                           *)

\* The surfaces of a group that takes the tensors ins.
Surfaces(ins, feed) ==
    LET order == SortedOrder(ins) IN
    [j \in DOMAIN ins |-> Tensor(ins[order[j]], feed[ins[order[j]]])]

\* Every parameter has the tensor of its name, and every variable of every
\* member's body the outcome of its statement.
LEMMA MadeRun ==
    ASSUME NEW ids, NEW ins, Chain(ids, ins), NEW P, Made(ids, ins, P), NEW feed, NEW blobs
    PROVE  LET F == Environment(P, Surfaces(ins, feed), blobs) IN
           /\ \A x \in ToSet(ins) : F[<<x>>] = Tensor(x, feed[x])
           /\ \A p \in 1 .. Len(ids) : Settled(F, BodyOf(ids[p]), blobs)
<1> DEFINE args == Surfaces(ins, feed)
           B == Bind(Params(ins), args)
           F == Run(P.body, B, blobs)
<1>1. ins \in Seq(Nat) /\ DOMAIN ins = 1 .. Len(ins)
  BY DEF Chain
<1>2. /\ DOMAIN args = 1 .. Len(ins)
      /\ \A j \in 1 .. Len(ins) :
           args[j] = Tensor(ins[SortedOrder(ins)[j]], feed[ins[SortedOrder(ins)[j]]])
  BY <1>1 DEF Surfaces
<1>3. B = Bind(P.params, args)
  BY DEF Made, Params
<1> HIDE DEF args, B
<1>4. /\ \A n : n \in DOMAIN B <=> \E x \in ToSet(ins) : n = <<x>>
      /\ \A x \in ToSet(ins) :
           \E j \in 1 .. Len(ins) : ins[SortedOrder(ins)[j]] = x /\ B[<<x>>] = args[j]
  <2>1. ASSUME NEW a, DOMAIN a = 1 .. Len(ins)
        PROVE  LET C == Bind(Params(ins), a) IN
               /\ \A n : n \in DOMAIN C <=> \E x \in ToSet(ins) : n = <<x>>
               /\ \A x \in ToSet(ins) :
                    \E j \in 1 .. Len(ins) : ins[SortedOrder(ins)[j]] = x /\ C[<<x>>] = a[j]
    BY <1>1, <2>1, Bound
  <2>2. DOMAIN args = 1 .. Len(ins)
    BY <1>2
  <2> QED BY <2>1, <2>2, Zenon DEF B
<1>5. DOMAIN B = Takes(ins) /\ \A x \in ToSet(ins) : B[<<x>>] = Tensor(x, feed[x])
  <2>1. DOMAIN B = Takes(ins)
    BY <1>4 DEF Takes
  <2>2. ASSUME NEW x \in ToSet(ins) PROVE B[<<x>>] = Tensor(x, feed[x])
    <3>1. PICK j \in 1 .. Len(ins) : ins[SortedOrder(ins)[j]] = x /\ B[<<x>>] = args[j]
      BY <1>4
    <3> QED BY <1>2, <3>1
  <2> QED BY <2>1, <2>2
<1> DEFINE b == P.body
<1>6. /\ Len(b) \in Nat /\ Apart(b) /\ Supply(b, DOMAIN B)
      /\ DOMAIN B \cap Gives(b) = {}
  BY <1>5, MadeNames DEF Gives
<1>7. Flattened(b, Bodies(ids), Outs(ids), Takes(ins), Len(ids))
  BY DEF Made
<1> HIDE DEF b
<1>8. (\A n \in DOMAIN B : F[n] = B[n]) /\ Settled(F, b, blobs)
  BY <1>6, RunSettles DEF b
<1> HIDE DEF F
<1>9. ASSUME NEW x \in ToSet(ins) PROVE F[<<x>>] = Tensor(x, feed[x])
  <2>1. <<x>> \in DOMAIN B
    BY <1>4
  <2> QED BY <1>5, <1>8, <2>1
<1>10. ASSUME NEW p \in 1 .. Len(ids), NEW l \in 1 .. Len(BodyOf(ids[p]))
       PROVE  F[BodyOf(ids[p])[l].name] = Outcome(F, BodyOf(ids[p])[l], blobs)
  <2>1. Bodies(ids)[p] = BodyOf(ids[p])
    BY DEF Bodies
  <2>2. \A q \in 1 .. Len(ids) : \A m \in 1 .. Len(Bodies(ids)[q]) :
          \E k \in 1 .. Len(b) : b[k] = Bodies(ids)[q][m]
    BY <1>7, Zenon DEF Flattened
  <2>4. PICK k \in 1 .. Len(b) : b[k] = BodyOf(ids[p])[l]
    BY <2>1, <2>2, Zenon
  <2>3. F[b[k].name] = Outcome(F, b[k], blobs)
    BY <1>8 DEF Settled
  <2> QED BY <2>3, <2>4
<1>11. \A p \in 1 .. Len(ids) : Settled(F, BodyOf(ids[p]), blobs)
  BY <1>10 DEF Settled
<1>12. F = Environment(P, Surfaces(ins, feed), blobs)
  BY <1>3 DEF F, args, Environment, b
<1> QED BY <1>9, <1>11, <1>12

\* The tensors a chain takes, and what its members leave behind, have the types
\* of their tensors.
LEMMA ChainTyped ==
    ASSUME NEW ids, NEW ins, Chain(ids, ins), NEW F, NEW blobs,
           \A p \in 1 .. Len(ids) : /\ FragOf(ids[p]).ok /\ ShapeFits(ids[p])
                                    /\ Settled(F, BodyOf(ids[p]), blobs),
           \A x \in ToSet(ins) : F[<<x>>].type = T(ShapeOf(x).c, ShapeOf(x).s)
    PROVE  \A p \in 1 .. Len(ids) : /\ Arrived(F, ids[p])
                                    /\ F[<<Out(ids[p])>>].type = T(OutC(ids[p]), OutS(ids[p]))
<1> DEFINE Typed(p) == F[<<Out(ids[p])>>].type = T(OutC(ids[p]), OutS(ids[p]))
           Bad == {p \in 1 .. Len(ids) : ~Typed(p)}
<1>1. Len(ids) \in Nat \ {0}
  BY DEF Chain
<1>2. ASSUME NEW p \in 1 .. Len(ids), p # 1 => Typed(p - 1)
      PROVE  Arrived(F, ids[p])
  <2>1. ASSUME NEW j \in 1 .. Len(nodes[ids[p]].inputs)
        PROVE  LET x == nodes[ids[p]].inputs[j] IN F[<<x>>].type = T(ShapeOf(x).c, ShapeOf(x).s)
    <3>1. CASE nodes[ids[p]].inputs[j] \in ToSet(ins)
      BY <3>1
    <3>2. CASE p > 1 /\ j = 1
      <4>1. p \in 2 .. Len(ids) /\ p # 1
        BY <1>1, <3>2
      <4>2. nodes[ids[p]].inputs[j] = Out(ids[p - 1])
        BY <3>2, <4>1 DEF Chain
      <4> QED BY <1>2, <4>1, <4>2 DEF OutC, OutS, Out
    <3> QED BY <3>1, <3>2 DEF Chain
  <2>2. ASSUME NEW j \in 1 .. Len(nodes[ids[p]].inputs)
        PROVE  LET x == nodes[ids[p]].inputs[j] IN Full(F, TensorVar(x), ShapeOf(x).c, ShapeOf(x).s)
    BY <2>1, FullType DEF TensorVar
  <2> QED BY <2>2 DEF Arrived
<1>3. ASSUME NEW p \in 1 .. Len(ids), Arrived(F, ids[p]) PROVE Typed(p)
  BY <1>3, NodeSettles DEF Chain
<1> HIDE DEF Typed
<1>4. Bad = {}
  <2> SUFFICES ASSUME Bad # {} PROVE FALSE
    OBVIOUS
  <2>1. PICK p \in Bad : \A q \in Bad : p <= q
    <3>1. Bad \in SUBSET Nat
      BY <1>1
    <3> HIDE DEF Bad
    <3> QED BY <3>1, Least
  <2>2. p \in 1 .. Len(ids) /\ ~Typed(p)
    OBVIOUS
  <2>3. p # 1 => Typed(p - 1)
    <3> HAVE p # 1
    <3>1. p - 1 \in 1 .. Len(ids) /\ ~(p <= p - 1)
      BY <1>1, <2>2
    <3> QED BY <2>1, <3>1
  <2> QED BY <1>2, <1>3, <2>2, <2>3
<1>5. \A p \in 1 .. Len(ids) : Typed(p)
  BY <1>4
<1>6. ASSUME NEW p \in 1 .. Len(ids) PROVE Arrived(F, ids[p])
  <2>1. p # 1 => p - 1 \in 1 .. Len(ids)
    BY <1>1
  <2> QED BY <1>2, <1>5, <2>1
<1> QED BY <1>5, <1>6 DEF Typed

\* The types the program declares are those of what it computes.
LEMMA MadeTypes ==
    ASSUME NEW ids, NEW ins, Chain(ids, ins), NEW P, Made(ids, ins, P), NEW feed, NEW blobs,
           \A p \in 1 .. Len(ids) : ShapeFits(ids[p])
    PROVE  LET F == Environment(P, Surfaces(ins, feed), blobs) IN
           /\ F[P.ret].type = T(OutC(ids[Len(ids)]), OutS(ids[Len(ids)]))
           /\ (\A p \in 1 .. Len(ids) : nodes[ids[p]].op # "CONCAT") => TypesOK(P, F)
<1> DEFINE F == Environment(P, Surfaces(ins, feed), blobs)
<1>1. /\ \A x \in ToSet(ins) : F[<<x>>] = Tensor(x, feed[x])
      /\ \A p \in 1 .. Len(ids) : Settled(F, BodyOf(ids[p]), blobs)
  BY MadeRun
<1>2. Len(ids) \in 1 .. Len(ids)
  BY DEF Chain
<1> HIDE DEF F
<1>3. \A x \in ToSet(ins) : F[<<x>>].type = T(ShapeOf(x).c, ShapeOf(x).s)
  <2>1. \A x : Tensor(x, feed[x]).type = T(ShapeOf(x).c, ShapeOf(x).s)
    BY DEF Tensor
  <2> QED BY <1>1, <2>1, Zenon
<1>4. \A p \in 1 .. Len(ids) : FragOf(ids[p]).ok
  BY DEF Made
<1>5. \A p \in 1 .. Len(ids) : /\ Arrived(F, ids[p])
                               /\ F[<<Out(ids[p])>>].type = T(OutC(ids[p]), OutS(ids[p]))
  BY <1>1, <1>3, <1>4, ChainTyped
<1>6. F[P.ret].type = T(OutC(ids[Len(ids)]), OutS(ids[Len(ids)]))
  BY <1>2, <1>5 DEF Made
<1>7. ASSUME \A p \in 1 .. Len(ids) : nodes[ids[p]].op # "CONCAT", NEW k \in DOMAIN P.body
      PROVE  StatementOK(F, P.body[k])
  <2>1. k \in 1 .. Len(P.body)
    <3>1. Sequence(P.body)
      BY MadeNames
    <3> DEFINE b == P.body
    <3>2. DOMAIN b = 1 .. Len(b)
      BY <3>1 DEF Sequence
    <3> QED BY <1>7, <3>2
  <2>2. PICK q \in 1 .. Len(ids) : \E l \in 1 .. Len(Bodies(ids)[q]) : P.body[k] = Bodies(ids)[q][l]
    BY <2>1 DEF Made, Flattened
  <2>3. Bodies(ids)[q] = BodyOf(ids[q])
    BY DEF Bodies
  <2>4. \A l \in 1 .. Len(BodyOf(ids[q])) : StatementOK(F, BodyOf(ids[q])[l])
    BY <1>1, <1>4, <1>5, <1>7, NodeSettles DEF Chain
  <2> QED BY <2>2, <2>3, <2>4
<1>8. (\A p \in 1 .. Len(ids) : nodes[ids[p]].op # "CONCAT") => TypesOK(P, F)
  BY <1>7 DEF TypesOK
<1> QED BY <1>6, <1>8 DEF F

-----------------------------------------------------------------------------
(* The weights of a group                                                   *)

\* A file that the body of node i names is among its entries, as long as it is
\* declared.
LEMMA FileEntry ==
    ASSUME NEW i, Accepted(i), ShapeFits(i), NEW f, NEW d, <<f, d>> \in FilesOf(i)
    PROVE  \E m \in 1 .. Len(NodeEntries(i)) :
             NodeEntries(i)[m].file = f /\ DOMAIN NodeEntries(i)[m].data = Index(d)
<1> DEFINE n == nodes[i]
           ac == ShapeOf(n.inputs[1]).c
           as == ShapeOf(n.inputs[1]).s
           oc == ShapeOf(n.output).c
           os == ShapeOf(n.output).s
<1>1. /\ ac \in Nat \ {0} /\ as \in Nat \ {0} /\ oc \in Nat \ {0} /\ os \in Nat \ {0}
  <2>1. 1 \in 1 .. Len(n.inputs)
    BY DEF Accepted
  <2>2. n.inputs[1] \in TensorId /\ n.output \in TensorId
    BY <2>1 DEF Accepted
  <2> HIDE DEF n
  <2> QED BY <2>2 DEF Accepted
<1>2. n.weights # "none"
  BY DEF FilesOf
<1>3. CASE n.op = "MATMUL"
  <2>1. f = <<i>> /\ d = <<oc, ac, 1, 1>>
    BY <1>2, <1>3 DEF FilesOf
  <2>2. NodeEntries(i) = <<[file |-> <<i>>, data |-> from_fp16_transposed(UserWeights(i), ac, oc)]>>
    BY <1>2, <1>3 DEF NodeEntries
  <2>3. DOMAIN from_fp16_transposed(UserWeights(i), ac, oc) = 0 .. (ac * oc - 1)
    BY DEF from_fp16_transposed
  <2>4. Index(d) = 0 .. (ac * oc - 1)
    <3>1. d[1] * d[2] * d[3] * d[4] = ac * oc /\ d # <<>>
      <4> HIDE DEF ac, oc
      <4> QED BY <1>1, <2>1
    <3> QED BY <3>1 DEF Index, Numel
  <2>5. /\ Len(NodeEntries(i)) = 1 /\ 1 \in 1 .. 1 /\ NodeEntries(i)[1].file = <<i>>
        /\ NodeEntries(i)[1].data = from_fp16_transposed(UserWeights(i), ac, oc)
    BY <2>2
  <2> QED BY <2>1, <2>3, <2>4, <2>5
<1>4. CASE n.op \in {"LAYERNORM", "LAYER_NORM"}
  <2> DEFINE w == WeightCount(n)
  <2>1. d = <<1, ac, 1, 1>> /\ (f = <<i>> \/ f = BetaFile(i))
    BY <1>2, <1>4 DEF FilesOf
  <2>2. NodeEntries(i) = <<[file |-> <<i>>, data |-> from_fp16(UserWeights(i), 0, w \div 2)],
                           [file |-> BetaFile(i), data |-> from_fp16(UserWeights(i), w \div 2, w \div 2)]>>
    BY <1>2, <1>4 DEF NodeEntries
  <2>3. ac = oc
    BY <1>4 DEF ShapeFits, ReduceOps
  <2>4. w = 2 * oc
    BY <1>4 DEF WeightCount, IsMask, ScatterOps
  <2> HIDE DEF w, ac, oc, as, os
  <2>5. w \div 2 = ac
    BY <1>1, <2>3, <2>4
  <2>6. /\ DOMAIN from_fp16(UserWeights(i), 0, w \div 2) = 0 .. (ac - 1)
        /\ DOMAIN from_fp16(UserWeights(i), w \div 2, w \div 2) = 0 .. (ac - 1)
    BY <2>5 DEF from_fp16
  <2>7. Index(d) = 0 .. (ac - 1)
    <3>1. d[1] * d[2] * d[3] * d[4] = ac /\ d # <<>>
      BY <1>1, <2>1
    <3> QED BY <3>1 DEF Index, Numel
  <2>8. /\ Len(NodeEntries(i)) = 2 /\ 1 \in 1 .. 2 /\ 2 \in 1 .. 2
        /\ NodeEntries(i)[1].file = <<i>> /\ NodeEntries(i)[2].file = BetaFile(i)
        /\ NodeEntries(i)[1].data = from_fp16(UserWeights(i), 0, w \div 2)
        /\ NodeEntries(i)[2].data = from_fp16(UserWeights(i), w \div 2, w \div 2)
    BY <2>2
  <2> QED BY <2>1, <2>6, <2>7, <2>8
<1>5. CASE n.op = "RMSNORM" \/ IsMask(n)
  <2> DEFINE w == WeightCount(n)
  <2>1. n.op \notin {"MATMUL", "LAYERNORM", "LAYER_NORM"}
    BY <1>5 DEF IsMask, ScatterOps
  <2>2. NodeEntries(i) = <<[file |-> <<i>>, data |-> from_fp16(UserWeights(i), 0, w)]>>
    BY <1>2, <2>1 DEF NodeEntries
  <2>3. f = <<i>> /\ Index(d) = 0 .. (w - 1)
    <3>1. CASE n.op = "RMSNORM"
      <4>1. f = <<i>> /\ d = <<1, ac, 1, 1>>
        BY <1>2, <3>1 DEF FilesOf
      <4>2. ac = oc
        BY <3>1 DEF ShapeFits, ReduceOps
      <4>3. w = oc
        BY <3>1 DEF WeightCount, IsMask, ScatterOps
      <4> HIDE DEF w, ac, oc
      <4>4. d[1] * d[2] * d[3] * d[4] = w /\ d # <<>>
        BY <1>1, <4>1, <4>2, <4>3
      <4> QED BY <4>1, <4>4 DEF Index, Numel
    <3>2. CASE IsMask(n)
      <4>0. n.op # "RMSNORM"
        BY <3>2 DEF IsMask, ScatterOps
      <4>1. f = <<i>> /\ d = <<1, oc, 1, os>>
        BY <1>2, <2>1, <3>2, <4>0 DEF FilesOf
      <4>3. w = oc * os
        BY <2>1, <3>2, <4>0 DEF WeightCount
      <4> HIDE DEF w, oc, os
      <4>4. d[1] * d[2] * d[3] * d[4] = w /\ d # <<>>
        BY <1>1, <4>1, <4>3
      <4> QED BY <4>1, <4>4 DEF Index, Numel
    <3> QED BY <1>5, <3>1, <3>2
  <2> HIDE DEF w
  <2>4. DOMAIN from_fp16(UserWeights(i), 0, w) = 0 .. (w - 1)
    BY DEF from_fp16
  <2>5. /\ Len(NodeEntries(i)) = 1 /\ 1 \in 1 .. 1 /\ NodeEntries(i)[1].file = <<i>>
        /\ NodeEntries(i)[1].data = from_fp16(UserWeights(i), 0, w)
    BY <2>2
  <2> QED BY <2>3, <2>4, <2>5
<1> QED BY <1>2, <1>3, <1>4, <1>5 DEF FilesOf

\* The two files of a norm are together what the caller gave.
LEMMA NormHalves ==
    ASSUME NEW i, Accepted(i), ShapeFits(i), NEW d, <<BetaFile(i), d>> \in FilesOf(i),
           NEW blobs,
           \A m \in 1 .. Len(NodeEntries(i)) :
             blobs[NodeEntries(i)[m].file] = NodeEntries(i)[m].data
    PROVE  LET c == ShapeOf(nodes[i].output).c IN
           UserWeights(i) = [m \in 0 .. (2 * c - 1) |->
               IF m < c THEN blobs[<<i>>][m] ELSE blobs[BetaFile(i)][m - c]]
<1> DEFINE n == nodes[i]
           c == ShapeOf(n.output).c
           w == WeightCount(n)
<1>1. c \in Nat \ {0}
  BY DEF Accepted
<1>2. n.weights # "none" /\ n.op \in {"LAYERNORM", "LAYER_NORM"}
  BY DEF FilesOf, BetaFile
<1>3. NodeEntries(i) = <<[file |-> <<i>>, data |-> from_fp16(UserWeights(i), 0, w \div 2)],
                         [file |-> BetaFile(i), data |-> from_fp16(UserWeights(i), w \div 2, w \div 2)]>>
  BY <1>2 DEF NodeEntries
<1>4. w = 2 * c
  BY <1>2 DEF WeightCount, IsMask, ScatterOps
<1>5. UserWeights(i) = [k \in 0 .. (w - 1) |-> UserWeights(i)[k]]
  BY DEF UserWeights
<1> HIDE DEF w, c
<1>6. w \div 2 = c
  BY <1>1, <1>4
<1>7. /\ Len(NodeEntries(i)) = 2 /\ 1 \in 1 .. 2 /\ 2 \in 1 .. 2
      /\ NodeEntries(i)[1].file = <<i>> /\ NodeEntries(i)[2].file = BetaFile(i)
      /\ NodeEntries(i)[1].data = from_fp16(UserWeights(i), 0, c)
      /\ NodeEntries(i)[2].data = from_fp16(UserWeights(i), c, c)
  BY <1>3, <1>6
<1>8. /\ blobs[<<i>>] = from_fp16(UserWeights(i), 0, c)
      /\ blobs[BetaFile(i)] = from_fp16(UserWeights(i), c, c)
  BY <1>7
<1>9. ASSUME NEW m \in 0 .. (2 * c - 1)
      PROVE  UserWeights(i)[m] = IF m < c THEN blobs[<<i>>][m] ELSE blobs[BetaFile(i)][m - c]
  <2>1. CASE m < c
    <3>1. m \in 0 .. (c - 1) /\ 0 + m = m
      BY <1>1, <2>1
    <3>2. from_fp16(UserWeights(i), 0, c)[m] = UserWeights(i)[0 + m]
      BY <3>1 DEF from_fp16
    <3> QED BY <1>8, <2>1, <3>1, <3>2
  <2>2. CASE ~(m < c)
    <3>1. m - c \in 0 .. (c - 1) /\ c + (m - c) = m
      BY <1>1, <2>2
    <3>2. from_fp16(UserWeights(i), c, c)[m - c] = UserWeights(i)[c + (m - c)]
      BY <3>1 DEF from_fp16
    <3> QED BY <1>8, <2>2, <3>1, <3>2
  <2> QED BY <2>1, <2>2
<1> DEFINE R == [m \in 0 .. (2 * c - 1) |-> IF m < c THEN blobs[<<i>>][m] ELSE blobs[BetaFile(i)][m - c]]
<1>10. UserWeights(i) = R
  BY <1>4, <1>5, <1>9
<1> QED BY <1>10 DEF c

\* Two files of node i among es, its gamma and its beta, are its weights.
Whole(i, es) ==
    LET c == ShapeOf(nodes[i].output).c IN
    UserWeights(i) = [m \in 0 .. (2 * c - 1) |->
        IF m < c THEN Blobs(es)[<<i>>][m] ELSE Blobs(es)[BetaFile(i)][m - c]]

\* What WeightsHanded asks of the program P and the files es.
LEMMA MadeWeights ==
    ASSUME NEW ids, NEW ins, Chain(ids, ins), NEW P, Made(ids, ins, P),
           NEW es, Handed(ids, Len(ids), es), \A p \in 1 .. Len(ids) : ShapeFits(ids[p]),
           NEW k \in 1 .. Len(P.body), P.body[k].op = "file"
    PROVE  /\ \E e \in 1 .. Len(es) : /\ es[e].file = P.body[k].val
                                      /\ DOMAIN es[e].data = Index(P.body[k].type.dims)
           /\ \A p \in 1 .. Len(ids) : P.body[k].val = BetaFile(ids[p]) => Whole(ids[p], es)
<1> DEFINE st == P.body[k]
<1>1. PICK q \in 1 .. Len(ids) : \E l \in 1 .. Len(Bodies(ids)[q]) : st = Bodies(ids)[q][l]
  BY DEF Made, Flattened
<1>2. /\ Bodies(ids)[q] = BodyOf(ids[q]) /\ Accepted(ids[q]) /\ ShapeFits(ids[q])
      /\ FragOf(ids[q]).ok
  BY DEF Bodies, Chain, Made
<1>3. FilesIn(BodyOf(ids[q]), FilesOf(ids[q]))
  BY <1>2, NodeSound DEF Sound
<1>4. <<st.val, st.type.dims>> \in FilesOf(ids[q])
  BY <1>1, <1>2, <1>3 DEF FilesIn
<1> DEFINE v == st.val  d == st.type.dims  N == NodeEntries(ids[q])
<1> HIDE DEF st
<1>5. PICK m \in 1 .. Len(N) : N[m].file = v /\ DOMAIN N[m].data = Index(d)
  BY <1>2, <1>4, FileEntry
<1>6. PICK e \in 1 .. Len(es) : es[e] = N[m]
  BY DEF Handed
<1>7. ASSUME NEW p \in 1 .. Len(ids), v = BetaFile(ids[p]) PROVE Whole(ids[p], es)
  <2>1. ids[p] = ids[q]
    <3>1. v = <<ids[q]>> \/ v = BetaFile(ids[q])
      BY <1>4 DEF FilesOf
    <3> QED BY <1>7, <3>1 DEF BetaFile
  <2>2. <<BetaFile(ids[q]), d>> \in FilesOf(ids[q])
    BY <1>4, <1>7, <2>1
  <2>3. \A r \in 1 .. Len(N) : Blobs(es)[N[r].file] = N[r].data
    BY HandedBlob
  <2> HIDE DEF v, d
  <2>4. Whole(ids[q], es)
    BY <1>2, <2>2, <2>3, NormHalves DEF Whole
  <2> QED BY <2>1, <2>4
<1> QED BY <1>5, <1>6, <1>7 DEF st

\* The current group once its program is built.
LEMMA GroupBuilt ==
    ASSUME BackInv, MilInv, prog # <<>>
    PROVE  LET ids == Current.node_ids  ins == Current.inputs IN
           /\ Chain(ids, ins) /\ Made(ids, ins, prog) /\ Handed(ids, Len(ids), entries)
           /\ Members(Current) = {ids[p] : p \in 1 .. Len(ids)}
           /\ Current.output = Out(ids[Len(ids)])
<1> DEFINE ids == Current.node_ids  ins == Current.inputs
<1>1. /\ stage \in {"compile", "threw"} /\ gi \in 1 .. Len(groups)
      /\ Compiling(ids, ins, frags, chain_var, entries, prog)
  BY DEF MilInv
<1>2. Chain(ids, ins)
  BY <1>1, GroupChain DEF BackInv, Current
<1>3. Made(ids, ins, prog) /\ Handed(ids, Len(ids), entries)
  BY <1>1, <1>2, ProgramMade
<1>4. /\ DOMAIN groups[gi].node_ids = 1 .. Len(groups[gi].node_ids)
      /\ groups[gi].output = nodes[groups[gi].node_ids[Len(groups[gi].node_ids)]].output
  BY <1>1, GroupsAre, GroupLists DEF BackInv, PlanInv, FuseInv, Shaped
<1>5. DOMAIN ids = 1 .. Len(ids) /\ Current.output = Out(ids[Len(ids)])
  BY <1>4 DEF Current, Out
<1>6. Members(Current) = {ids[p] : p \in 1 .. Len(ids)}
  BY <1>5 DEF Members
<1> QED BY <1>2, <1>3, <1>5, <1>6

LEMMA WellFormedFollows == BackInv /\ MilInv => ProgramWellFormed
<1> SUFFICES ASSUME BackInv, MilInv, Built PROVE ProgramWellFormed
  BY DEF ProgramWellFormed
<1> DEFINE ids == Current.node_ids  ins == Current.inputs
<1>1. /\ Chain(ids, ins) /\ Made(ids, ins, prog) /\ Handed(ids, Len(ids), entries)
      /\ Members(Current) = {ids[p] : p \in 1 .. Len(ids)}
      /\ Current.output = Out(ids[Len(ids)])
  BY GroupBuilt DEF Built
<1>2. IsInjective(ins)
  BY DEF Built, InputsDiffer
<1> HIDE DEF ids, ins
<1>3. NamesOK(prog)
  BY <1>1, <1>2, MadeNamesOK
<1>4. ASSUME Fits(Current) PROVE \A p \in 1 .. Len(ids) : ShapeFits(ids[p])
  BY <1>1, <1>4 DEF Fits
<1>5. ASSUME Fits(Current) PROVE WeightsHanded
  <2>1. DOMAIN prog.body = 1 .. Len(prog.body)
    <3> DEFINE b == prog.body
    <3>1. Sequence(b)
      BY <1>1, MadeNames
    <3> HIDE DEF b
    <3>2. DOMAIN b = 1 .. Len(b)
      BY <3>1 DEF Sequence
    <3> QED BY <3>2 DEF b
  <2>2. /\ DOMAIN entries = 1 .. Len(entries)
        /\ \A e, d \in 1 .. Len(entries) : entries[e].file = entries[d].file => e = d
    BY <1>1 DEF Handed, Sequence
  <2>3. ASSUME NEW k \in DOMAIN prog.body, prog.body[k].op = "file"
        PROVE  /\ \E e \in DOMAIN entries :
                    /\ entries[e].file = prog.body[k].val
                    /\ DOMAIN entries[e].data = Index(prog.body[k].type.dims)
               /\ \A e, d \in DOMAIN entries : entries[e].file = entries[d].file => e = d
               /\ \A i \in Members(Current) : prog.body[k].val = BetaFile(i) => Whole(i, entries)
    <3>1. k \in 1 .. Len(prog.body) /\ \A p \in 1 .. Len(ids) : ShapeFits(ids[p])
      BY <1>4, <1>5, <2>1, <2>3
    <3>2. \E e \in 1 .. Len(entries) : /\ entries[e].file = prog.body[k].val
                                       /\ DOMAIN entries[e].data = Index(prog.body[k].type.dims)
      BY <1>1, <2>3, <3>1, MadeWeights
    <3>3. \A p \in 1 .. Len(ids) : prog.body[k].val = BetaFile(ids[p]) => Whole(ids[p], entries)
      BY <1>1, <2>3, <3>1, MadeWeights
    <3>4. \A i \in Members(Current) : prog.body[k].val = BetaFile(i) => Whole(i, entries)
      BY <1>1, <3>3
    <3> QED BY <2>2, <3>2, <3>4, Zenon
  <2> QED BY <2>3, Zenon DEF WeightsHanded, Whole
<1>6. ASSUME Fits(Current), ~HasConcat(Current) PROVE TypesDeclared
  <2> DEFINE F == Environment(prog, Surfaces(ins, Unknowns), Blobs(entries))
  <2>1. \A p \in 1 .. Len(ids) : ShapeFits(ids[p])
    BY <1>4, <1>6
  <2>2. \A p \in 1 .. Len(ids) : nodes[ids[p]].op # "CONCAT"
    BY <1>1, <1>6 DEF HasConcat
  <2>3. /\ F[prog.ret].type = T(OutC(ids[Len(ids)]), OutS(ids[Len(ids)]))
        /\ TypesOK(prog, F)
    BY <1>1, <2>1, <2>2, MadeTypes
  <2>4. SurfacesOf(Current, Unknowns) = Surfaces(ins, Unknowns)
    BY DEF SurfacesOf, Surfaces, ins
  <2>5. F = Environment(prog, SurfacesOf(Current, Unknowns), Blobs(entries))
    BY <2>4
  <2>6. T(OutC(ids[Len(ids)]), OutS(ids[Len(ids)])) =
          T(ShapeOf(Current.output).c, ShapeOf(Current.output).s)
    BY <1>1 DEF OutC, OutS, Out
  <2> HIDE DEF F
  <2> QED BY <2>3, <2>5, <2>6, Zenon DEF TypesDeclared
<1> QED BY <1>3, <1>5, <1>6 DEF ProgramWellFormed

\* The program of every group, whatever it chains, is one the compiler takes as
\* meant: names given once and before they are read, weight files there and of
\* the declared length, declared types those of what is computed.
THEOREM ProgramsRight == Spec => []ProgramWellFormed
<1>1. BackInv /\ AllocInv /\ EspressoInv /\ MilInv => ProgramWellFormed
  BY WellFormedFollows
<1> QED BY <1>1, MilInvariant, PTL

-----------------------------------------------------------------------------
(* A group and its nodes one by one                                         *)

\* The inputs of node i have the values vals in F.
Receives(F, i, vals) ==
    \A j \in 1 .. Len(nodes[i].inputs) :
        F[<<nodes[i].inputs[j]>>] = Tensor(nodes[i].inputs[j], vals[j])

\* The weight files that node i names have the same contents.
SameFiles(i, blobs, others) ==
    \A k \in 1 .. Len(BodyOf(i)) :
        BodyOf(i)[k].op = "file" => blobs[BodyOf(i)[k].val] = others[BodyOf(i)[k].val]

\* Node i alone leaves behind what it does in a run F of other statements too,
\* when its inputs and its weight files are the same.
LEMMA AloneSame ==
    ASSUME NEW i, Accepted(i), FragOf(i).ok, DOMAIN nodes[i].inputs = 1 .. Len(nodes[i].inputs),
           NEW vals, NEW F, NEW blobs, Settled(F, BodyOf(i), blobs),
           Receives(F, i, vals), SameFiles(i, Blobs(NodeEntries(i)), blobs)
    PROVE  RunAlone(i, vals) = F[<<Out(i)>>]
<1> DEFINE xs == nodes[i].inputs
           b == BodyOf(i)
           ps == [j \in DOMAIN xs |-> TensorVar(xs[j])]
           args == [j \in DOMAIN xs |-> Tensor(xs[j], vals[j])]
           B == Bind(ps, args)
           own == Blobs(NodeEntries(i))
           E == Run(b, B, own)
<1>1. RunAlone(i, vals) = E[<<Out(i)>>]
  <2>1. FragOf(i).output_name = <<Out(i)>>
    BY NodeSound
  <2>2. RunAlone(i, vals) = Result(Program(ps, <<>>, b, FragOf(i).output_name), args, own)
    BY DEF RunAlone, FragOf, BodyOf
  <2> HIDE DEF ps, args, b, own
  <2>3. Result(Program(ps, <<>>, b, FragOf(i).output_name), args, own) = E[FragOf(i).output_name]
    BY DEF Result, Environment, Program
  <2> QED BY <2>1, <2>2, <2>3
<1>2. /\ Len(b) \in Nat \ {0} /\ b[Len(b)].name = <<Out(i)>> /\ Apart(b) /\ Supply(b, ReadsOf(i))
      /\ \A k \in 1 .. Len(b) : b[k].name[1] = Out(i)
  BY NodeSound DEF Sound, Neat, Out
<1>3. /\ DOMAIN xs = 1 .. Len(xs) /\ DOMAIN ps = 1 .. Len(xs) /\ DOMAIN args = 1 .. Len(xs)
      /\ \A j \in 1 .. Len(xs) : ps[j] = <<xs[j]>> /\ args[j] = Tensor(xs[j], vals[j])
  BY DEF TensorVar
<1>4. ToSet(ps) = ReadsOf(i)
  BY <1>3 DEF ReadsOf, ToSet, TensorVar
<1>5. \A j \in 1 .. Len(xs) : F[ps[j]] = args[j]
  BY <1>3 DEF Receives
<1>6. \A x : x \in ReadsOf(i) => \E j \in 1 .. Len(xs) : x = <<xs[j]>> /\ xs[j] # Out(i)
  <2>1. \A j \in 1 .. Len(xs) : xs[j] # Out(i)
    BY DEF Accepted, TensorId, Out
  <2> QED BY <2>1 DEF ReadsOf, TensorVar
<1>7. /\ Settled(F, b, blobs)
      /\ \A k \in 1 .. Len(b) : b[k].op = "file" => own[b[k].val] = blobs[b[k].val]
  BY Zenon DEF SameFiles
<1> HIDE DEF xs, b, ps, args, own
<1>8. DOMAIN B = ReadsOf(i) /\ \A n \in ReadsOf(i) : B[n] = F[n]
  <2>1. B = [n \in ToSet(ps) |-> args[CHOOSE j \in DOMAIN args : ps[j] = n]]
    BY DEF Bind
  <2>2. ASSUME NEW n \in ReadsOf(i) PROVE B[n] = F[n]
    <3> DEFINE j == CHOOSE j \in DOMAIN args : ps[j] = n
    <3>1. \E m \in DOMAIN args : ps[m] = n
      BY <1>3, <1>6
    <3>2. j \in DOMAIN args /\ ps[j] = n
      BY <3>1
    <3>3. B[n] = args[j]
      BY <1>4, <2>1
    <3> HIDE DEF j, B
    <3> QED BY <1>3, <1>5, <3>2, <3>3
  <2> QED BY <1>4, <2>1, <2>2
<1> HIDE DEF B
<1>9. DOMAIN B \cap Gives(b) = {}
  <2> SUFFICES ASSUME NEW k \in 1 .. Len(b), b[k].name \in ReadsOf(i) PROVE FALSE
    BY <1>8 DEF Gives
  <2>1. PICK j \in 1 .. Len(xs) : b[k].name = <<xs[j]>> /\ xs[j] # Out(i)
    BY <1>6
  <2> QED BY <1>2, <2>1
<1>10. (\A n \in DOMAIN B : E[n] = B[n]) /\ Settled(E, b, own)
  BY <1>2, <1>8, <1>9, RunSettles
<1> HIDE DEF E
<1>11. \A n \in ReadsOf(i) : E[n] = F[n]
  BY <1>8, <1>10
<1>12. \A k \in 1 .. Len(b) : E[b[k].name] = F[b[k].name]
  BY <1>2, <1>7, <1>10, <1>11, SettledOnce
<1>13. Len(b) \in 1 .. Len(b)
  BY <1>2
<1> QED BY <1>1, <1>2, <1>12, <1>13

\* The weight files a member names have in the program what they have alone.
LEMMA FilesAgree ==
    ASSUME NEW i, Accepted(i), FragOf(i).ok, ShapeFits(i), NEW ids, NEW n, NEW es,
           Handed(ids, n, es), NEW p \in 1 .. n, ids[p] = i,
           NEW k \in 1 .. Len(BodyOf(i)), BodyOf(i)[k].op = "file"
    PROVE  Blobs(NodeEntries(i))[BodyOf(i)[k].val] = Blobs(es)[BodyOf(i)[k].val]
<1> DEFINE st == BodyOf(i)[k]  N == NodeEntries(i)
<1>1. <<st.val, st.type.dims>> \in FilesOf(i)
  BY NodeSound DEF Sound, FilesIn
<1>2. PICK m \in 1 .. Len(N) : N[m].file = st.val
  BY <1>1, FileEntry
<1>3. Blobs(es)[N[m].file] = N[m].data /\ Blobs(N)[N[m].file] = N[m].data
  BY HandedBlob
<1> QED BY <1>2, <1>3

\* Member p on the outcome prev of the member before it.
AloneAt(p, prev, ids, feed) ==
    LET xs == nodes[ids[p]].inputs IN
    RunAlone(ids[p], [j \in DOMAIN xs |-> IF p > 1 /\ j = 1 THEN prev.val ELSE feed[xs[j]]])

AloneTurn(f, ids, feed) == [p \in 1 .. Len(ids) |-> AloneAt(p, f[p - 1], ids, feed)]

LEMMA AloneFirst ==
    ASSUME NEW a, NEW b, NEW ids, NEW feed
    PROVE  AloneAt(1, a, ids, feed) = AloneAt(1, b, ids, feed)
<1>1. ~(1 > 1)
  OBVIOUS
<1> QED BY <1>1 DEF AloneAt

LEMMA AloneExists ==
    ASSUME NEW ids, NEW feed, Len(ids) \in Nat
    PROVE  \E f : f = AloneTurn(f, ids, feed)
<1> DEFINE Step(p, x) == AloneAt(p, x, ids, feed)
           F(m, f) == [p \in 1 .. m |-> Step(p, f[p - 1])]
           Bad == {m \in Nat : ~\E f : f = F(m, f)}
<1>1. \A a, b : Step(1, a) = Step(1, b)
  BY AloneFirst
<1> HIDE DEF Step
<1>2. Bad = {}
  <2> SUFFICES ASSUME Bad # {} PROVE FALSE
    OBVIOUS
  <2>1. PICK m \in Bad : \A j \in Bad : m <= j
    <3>1. Bad \in SUBSET Nat
      OBVIOUS
    <3> HIDE DEF Bad
    <3> QED BY <3>1, Least
  <2>2. m \in Nat /\ ~\E f : f = F(m, f)
    OBVIOUS
  <2>3. CASE m = 0
    <3> DEFINE e == [k \in 1 .. 0 |-> k]
    <3>1. \A k \in 1 .. 0 : FALSE
      OBVIOUS
    <3>2. e = F(0, e)
      BY <3>1
    <3> QED BY <2>2, <2>3, <3>2, Zenon
  <2>4. CASE m # 0
    <3>1. m - 1 \in Nat /\ ~(m <= m - 1)
      BY <2>2, <2>4
    <3>2. m - 1 \notin Bad
      BY <2>1, <3>1, Zenon
    <3>3. PICK f : f = F(m - 1, f)
      BY <3>1, <3>2
    <3> DEFINE g == F(m, f)
    <3>4. ASSUME NEW k \in 1 .. m PROVE Step(k, g[k - 1]) = Step(k, f[k - 1])
      <4>1. CASE k = 1
        BY <1>1, <4>1
      <4>2. CASE k # 1
        <5>1. k - 1 \in 1 .. (m - 1) /\ k - 1 \in 1 .. m
          BY <2>2, <4>2
        <5>2. g[k - 1] = Step(k - 1, f[(k - 1) - 1])
          BY <5>1
        <5>3. f[k - 1] = Step(k - 1, f[(k - 1) - 1])
          BY <3>3, <5>1
        <5> QED BY <5>2, <5>3
      <4> QED BY <4>1, <4>2
    <3>5. g = F(m, g)
      BY <3>4, Zenon
    <3> QED BY <2>2, <3>5, Zenon
  <2> QED BY <2>3, <2>4
<1>3. Len(ids) \notin Bad
  BY <1>2
<1>4. \E f : f = F(Len(ids), f)
  BY <1>3
<1> QED BY <1>4 DEF AloneTurn, Step

LEMMA NodeByNodeIs ==
    ASSUME NEW feed, Len(Current.node_ids) \in Nat \ {0}
    PROVE  LET ids == Current.node_ids IN
           \E V : /\ NodeByNode(feed) = V[Len(ids)]
                  /\ \A p \in 1 .. Len(ids) : V[p] = AloneAt(p, V[p - 1], ids, feed)
<1> DEFINE ids == Current.node_ids
           V == CHOOSE f : f = AloneTurn(f, ids, feed)
<1>1. NodeByNode(feed) = V[Len(ids)]
  BY DEF NodeByNode, AloneTurn, AloneAt
<1>2. V = AloneTurn(V, ids, feed)
  BY AloneExists
<1> HIDE DEF V
<1>3. V = [p \in 1 .. Len(ids) |-> AloneAt(p, V[p - 1], ids, feed)]
  BY <1>2, Zenon DEF AloneTurn
<1>4. \A p \in 1 .. Len(ids) : V[p] = AloneAt(p, V[p - 1], ids, feed)
  BY <1>3, Zenon
<1> QED BY <1>1, <1>4

\* Every member leaves behind in the program what it leaves behind alone.
LEMMA ChainSame ==
    ASSUME NEW ids, NEW ins, Chain(ids, ins), NEW P, Made(ids, ins, P), NEW es,
           Handed(ids, Len(ids), es), NEW feed,
           \A p \in 1 .. Len(ids) :
             /\ ShapeFits(ids[p])
             /\ DOMAIN nodes[ids[p]].inputs = 1 .. Len(nodes[ids[p]].inputs),
           NEW V, \A p \in 1 .. Len(ids) : V[p] = AloneAt(p, V[p - 1], ids, feed)
    PROVE  LET F == Environment(P, Surfaces(ins, feed), Blobs(es)) IN
           \A p \in 1 .. Len(ids) : V[p] = F[<<Out(ids[p])>>]
<1> DEFINE F == Environment(P, Surfaces(ins, feed), Blobs(es))
           Agree(p) == V[p] = F[<<Out(ids[p])>>]
           Bad == {p \in 1 .. Len(ids) : ~Agree(p)}
<1>1. /\ \A x \in ToSet(ins) : F[<<x>>] = Tensor(x, feed[x])
      /\ \A p \in 1 .. Len(ids) : Settled(F, BodyOf(ids[p]), Blobs(es))
  BY MadeRun
<1> HIDE DEF F
<1>2. Len(ids) \in Nat \ {0} /\ \A p \in 1 .. Len(ids) : Accepted(ids[p]) /\ FragOf(ids[p]).ok
  BY DEF Chain, Made
<1>3. \A x \in ToSet(ins) : F[<<x>>].type = T(ShapeOf(x).c, ShapeOf(x).s)
  <2>1. \A x : Tensor(x, feed[x]).type = T(ShapeOf(x).c, ShapeOf(x).s)
    BY DEF Tensor
  <2> QED BY <1>1, <2>1, Zenon
<1>4. \A p \in 1 .. Len(ids) : F[<<Out(ids[p])>>].type = T(OutC(ids[p]), OutS(ids[p]))
  BY <1>1, <1>2, <1>3, ChainTyped, ZenonT(40)
<1>5. ASSUME NEW p \in 1 .. Len(ids)
      PROVE  F[<<Out(ids[p])>>] = Tensor(Out(ids[p]), F[<<Out(ids[p])>>].val)
  <2> DEFINE b == BodyOf(ids[p])
  <2>1. Len(b) \in 1 .. Len(b) /\ b[Len(b)].name = <<Out(ids[p])>>
    BY <1>2, NodeSound DEF Sound, Neat, Out
  <2>2. F[<<Out(ids[p])>>] = Outcome(F, b[Len(b)], Blobs(es))
    BY <1>1, <2>1 DEF Settled
  <2>3. \A st : Outcome(F, st, Blobs(es)) =
          [type |-> Outcome(F, st, Blobs(es)).type, val |-> Outcome(F, st, Blobs(es)).val]
    BY DEF Outcome
  <2>4. T(OutC(ids[p]), OutS(ids[p])) = T(ShapeOf(Out(ids[p])).c, ShapeOf(Out(ids[p])).s)
    BY DEF OutC, OutS, Out
  <2> HIDE DEF b
  <2> QED BY <1>4, <2>2, <2>3, <2>4, Zenon DEF Tensor
<1>6. ASSUME NEW p \in 1 .. Len(ids), p # 1 => Agree(p - 1) PROVE Agree(p)
  <2> DEFINE xs == nodes[ids[p]].inputs
             vals == [j \in DOMAIN xs |-> IF p > 1 /\ j = 1 THEN V[p - 1].val ELSE feed[xs[j]]]
  <2>1. V[p] = RunAlone(ids[p], vals)
    BY DEF AloneAt
  <2>2. ASSUME NEW j \in 1 .. Len(xs) PROVE F[<<xs[j]>>] = Tensor(xs[j], vals[j])
    <3>1. vals[j] = IF p > 1 /\ j = 1 THEN V[p - 1].val ELSE feed[xs[j]]
      OBVIOUS
    <3>2. CASE p > 1 /\ j = 1
      <4>1. p \in 2 .. Len(ids) /\ p - 1 \in 1 .. Len(ids) /\ p # 1
        BY <1>2, <3>2
      <4>2. xs[j] = Out(ids[p - 1])
        BY <3>2, <4>1 DEF Chain
      <4>3. vals[j] = F[<<Out(ids[p - 1])>>].val
        BY <1>6, <3>1, <3>2, <4>1
      <4> HIDE DEF vals, xs
      <4> QED BY <1>5, <4>1, <4>2, <4>3
    <3>3. CASE ~(p > 1 /\ j = 1)
      <4>1. xs[j] \in ToSet(ins)
        BY <3>3 DEF Chain
      <4> HIDE DEF xs, vals
      <4> QED BY <1>1, <3>1, <3>3, <4>1
    <3> QED BY <3>2, <3>3
  <2>3. SameFiles(ids[p], Blobs(NodeEntries(ids[p])), Blobs(es))
    BY <1>2, FilesAgree DEF SameFiles
  <2>4. DOMAIN nodes[ids[p]].inputs = 1 .. Len(nodes[ids[p]].inputs)
    OBVIOUS
  <2> HIDE DEF vals
  <2>5. RunAlone(ids[p], vals) = F[<<Out(ids[p])>>]
    <3>1. Receives(F, ids[p], vals)
      BY <2>2, Zenon DEF Receives
    <3>2. Accepted(ids[p]) /\ FragOf(ids[p]).ok /\ Settled(F, BodyOf(ids[p]), Blobs(es))
      BY <1>1, <1>2
    <3> QED BY <2>3, <2>4, <3>1, <3>2, AloneSame, Zenon
  <2> QED BY <2>1, <2>5
<1> HIDE DEF Agree
<1>7. Bad = {}
  <2> SUFFICES ASSUME Bad # {} PROVE FALSE
    OBVIOUS
  <2>1. PICK p \in Bad : \A q \in Bad : p <= q
    <3>1. Bad \in SUBSET Nat
      BY <1>2
    <3> HIDE DEF Bad
    <3> QED BY <3>1, Least
  <2>2. p \in 1 .. Len(ids) /\ ~Agree(p)
    OBVIOUS
  <2>3. p # 1 => Agree(p - 1)
    <3> HAVE p # 1
    <3>1. p - 1 \in 1 .. Len(ids) /\ ~(p <= p - 1)
      BY <1>2, <2>2
    <3> QED BY <2>1, <3>1
  <2> QED BY <1>6, <2>2, <2>3
<1> QED BY <1>7 DEF Agree, F

LEMMA FusedFollows == BackInv /\ MilInv => FusedRight
<1> SUFFICES ASSUME BackInv, MilInv, Built, Fits(Current)
             PROVE  RunProgram(Unknowns).val = NodeByNode(Unknowns).val
  BY DEF FusedRight
<1> DEFINE ids == Current.node_ids  ins == Current.inputs
           F == Environment(prog, Surfaces(ins, Unknowns), Blobs(entries))
<1>1. /\ Chain(ids, ins) /\ Made(ids, ins, prog) /\ Handed(ids, Len(ids), entries)
      /\ Members(Current) = {ids[p] : p \in 1 .. Len(ids)}
  BY GroupBuilt DEF Built
<1>2. Len(ids) \in Nat \ {0} /\ Len(ids) \in 1 .. Len(ids)
  BY <1>1 DEF Chain
<1>3. PICK V : /\ NodeByNode(Unknowns) = V[Len(ids)]
               /\ \A p \in 1 .. Len(ids) : V[p] = AloneAt(p, V[p - 1], ids, Unknowns)
  BY <1>2, NodeByNodeIs
<1>4. ASSUME NEW p \in 1 .. Len(ids)
      PROVE  ShapeFits(ids[p]) /\ DOMAIN nodes[ids[p]].inputs = 1 .. Len(nodes[ids[p]].inputs)
  <2>1. ids[p] \in NodeId
    <3>1. gi \in 1 .. Len(groups) /\ prog # <<>> /\ stage \in {"compile", "threw"}
      BY DEF MilInv, Built
    <3>2. /\ groups[gi].node_ids[p] \in 1 .. (next - 1) /\ next \in 1 .. (Len(nodes) + 1)
          /\ Len(nodes) \in Nat
      BY <3>1, GroupsAre, Lists DEF BackInv, PlanInv, FuseInv, Shaped, Current
    <3> QED BY <3>2 DEF NodeId, Current
  <2>2. DOMAIN nodes[ids[p]].inputs = 1 .. Len(nodes[ids[p]].inputs)
    BY <2>1, Lists DEF BackInv, PlanInv
  <2>3. ShapeFits(ids[p])
    BY <1>1 DEF Fits
  <2> QED BY <2>2, <2>3
<1>5. RunProgram(Unknowns) = F[prog.ret]
  BY DEF RunProgram, Result, SurfacesOf, Surfaces
<1>6. prog.ret = <<Out(ids[Len(ids)])>>
  BY <1>1 DEF Made
<1> HIDE DEF ids, ins
<1>7. \A p \in 1 .. Len(ids) : V[p] = F[<<Out(ids[p])>>]
  BY <1>1, <1>3, <1>4, ChainSame
<1> HIDE DEF F
<1> QED BY <1>2, <1>3, <1>5, <1>6, <1>7

\* Fusing changes nothing: the program of a group computes what its members
\* compute one after the other, each compiled alone.
THEOREM FusingRight == Spec => []FusedRight
<1>1. BackInv /\ AllocInv /\ EspressoInv /\ MilInv => FusedRight
  BY FusedFollows
<1> QED BY <1>1, MilInvariant, PTL

=============================================================================
