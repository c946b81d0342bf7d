-------------------------- MODULE KubeletConfigProofs -------------------------
(***************************************************************************)
(* TLAPS proofs of the safety properties of KubeletConfig, for any flags,  *)
(* any files of the form EditedAssumption describes and any bounds.        *)
(***************************************************************************)
EXTENDS KubeletConfig, FiniteSetTheorems, WellFoundedInduction, TLAPS

-------------------------------------------------------------------------------
(* What the update does to a text.                                         *)

\* A text to which a line can be added: exec.go:146 adds no newline in front.
Ends(f) == f.ended = TRUE \/ EndsInComment(f)

\* The same lines, but for their values.
SameLines(f, g) ==
    /\ g.ended = f.ended
    /\ DOMAIN g.lines = DOMAIN f.lines /\ Len(g.lines) = Len(f.lines)
    /\ \A i \in DOMAIN f.lines : g.lines[i].kind = f.lines[i].kind /\ g.lines[i].key = f.lines[i].key

\* exec.go:141: a replacement changes values only.
LEMMA ReplaceKeepsLines ==
  ASSUME NEW f \in File, NEW k \in Keys
  PROVE  ReplaceOne(f, k) \in File /\ SameLines(f, ReplaceOne(f, k))
<1> DEFINE p == First(Places(f, k, Value(f, k)))
           ls == [f.lines EXCEPT ![p].value = Want[k]]
           n == Len(f.lines)
<1>1. f.lines \in [1..n -> Line] /\ n \in Nat /\ f.ended \in BOOLEAN
  BY DEF File
<1>2. Want[k] \in BOOLEAN
  BY KeysAssumption
<1> HIDE DEF p, n
<1>3. DOMAIN ls = 1..n
  BY <1>1
<1>4. \A i \in 1..n : /\ ls[i] \in Line
                      /\ ls[i].kind = f.lines[i].kind /\ ls[i].key = f.lines[i].key
  <2> SUFFICES ASSUME NEW i \in 1..n
               PROVE  /\ ls[i] \in Line
                      /\ ls[i].kind = f.lines[i].kind /\ ls[i].key = f.lines[i].key
    OBVIOUS
  <2>1. f.lines[i] \in Line
    BY <1>1
  <2>2. ls[i] = IF i = p THEN [f.lines[i] EXCEPT !.value = Want[k]] ELSE f.lines[i]
    BY <1>1
  <2>3. [f.lines[i] EXCEPT !.value = Want[k]] \in Line
    BY <1>2, <2>1 DEF Line
  <2>4. QED
    BY <2>1, <2>2, <2>3 DEF Line
<1>5. ls \in [1..n -> Line]
  BY <1>3, <1>4
<1>6. ls \in Seq(Line) /\ Len(ls) = n
  <2> HIDE DEF ls
  <2>1. QED
    BY <1>1, <1>5
<1>7. SameLines(f, [f EXCEPT !.lines = ls]) /\ [f EXCEPT !.lines = ls] \in File
  <2> HIDE DEF ls
  <2> DEFINE g == [f EXCEPT !.lines = ls]
  <2>1. g \in File /\ g.lines = ls /\ g.ended = f.ended
    BY <1>1, <1>6 DEF File
  <2> HIDE DEF g
  <2>2. SameLines(f, g)
    BY <1>1, <1>4, <1>5, <1>6, <2>1 DEF SameLines, n
  <2>3. QED
    BY <2>1, <2>2 DEF g
<1>8. ReplaceOne(f, k) = f \/ ReplaceOne(f, k) = [f EXCEPT !.lines = ls]
  BY DEF ReplaceOne, p
<1>9. SameLines(f, f)
  BY DEF SameLines
<1>10. QED
  BY <1>7, <1>8, <1>9

LEMMA SameLinesKeep ==
  ASSUME NEW f \in File, NEW g \in File, SameLines(f, g)
  PROVE  /\ Settings(f) = Settings(g)
         /\ Parses(f) => Parses(g)
         /\ Ends(f) => Ends(g)
<1>1. \A o \in Others : LinesWith(f, {"other"}, o) = LinesWith(g, {"other"}, o)
  BY DEF SameLines, LinesWith
<1>2. Settings(f) = Settings(g)
  BY <1>1 DEF Settings
<1>3. Parses(f) => Parses(g)
  BY DEF SameLines, Parses
<1>4. ASSUME Ends(f) PROVE Ends(g)
  <2>1. CASE f.ended = TRUE
    BY <2>1 DEF SameLines, Ends
  <2>2. CASE EndsInComment(f)
    <3>1. f.lines \in Seq(Line) /\ g.lines \in Seq(Line)
      BY DEF File
    <3>2. Len(f.lines) \in DOMAIN f.lines /\ Len(g.lines) = Len(f.lines) /\ g.lines # <<>>
      BY <2>2, <3>1 DEF EndsInComment, SameLines
    <3>3. QED
      BY <2>2, <3>2 DEF EndsInComment, SameLines, Ends
  <2>3. QED
    BY <1>4, <2>1, <2>2 DEF Ends
<1>5. QED
  BY <1>2, <1>3, <1>4

\* exec.go:146: an append leaves the lines before it alone.
LEMMA AppendKeepsLines ==
  ASSUME NEW f \in File, NEW k \in Keys, Ends(f)
  PROVE  LET g == AppendKey(f, k)
         IN  /\ g \in File /\ Ends(g)
             /\ Settings(f) \subseteq Settings(g)
             /\ Parses(f) => Parses(g)
<1> DEFINE kind == CASE f.ended -> "exact"
                     [] ~f.ended /\ EndsInComment(f) -> "comment"
                     [] OTHER -> "joined"
           line == [kind |-> kind, key |-> k, value |-> Want[k]]
           g == AppendKey(f, k)
<1>1. kind \in {"exact", "comment"}
  BY DEF Ends, File
<1>2. Want[k] \in BOOLEAN /\ k \in Keys \cup Others
  BY KeysAssumption
<1> HIDE DEF kind
<1>3. line \in Line /\ line.kind \in {"exact", "comment"}
  BY <1>1, <1>2 DEF Line, Kinds
<1> HIDE DEF line
<1>4. g.lines = Append(f.lines, line) /\ g.ended = TRUE
  BY DEF AppendKey, line, kind
<1>5. f.lines \in Seq(Line)
  BY DEF File
<1>6. Append(f.lines, line) \in Seq(Line)
  BY <1>3, <1>5
<1>7. g = [lines |-> Append(f.lines, line), ended |-> TRUE]
  BY DEF AppendKey, line, kind
<1> HIDE DEF g
<1>8. g \in File
  BY <1>6, <1>7 DEF File
<1>9. /\ DOMAIN g.lines = 1..(Len(f.lines) + 1) /\ DOMAIN f.lines = 1..Len(f.lines)
      /\ Len(f.lines) \in Nat
      /\ \A i \in DOMAIN f.lines : g.lines[i] = f.lines[i]
      /\ g.lines[Len(f.lines) + 1] = line
  BY <1>3, <1>4, <1>5
<1>10. Settings(f) \subseteq Settings(g)
  <2>1. \A o \in Others : LinesWith(f, {"other"}, o) \subseteq LinesWith(g, {"other"}, o)
    BY <1>9 DEF LinesWith
  <2>2. QED
    BY <2>1 DEF Settings
<1>11. ASSUME Parses(f) PROVE Parses(g)
  <2>1. \A i \in 1..(Len(f.lines) + 1) : i \in 1..Len(f.lines) \/ i = Len(f.lines) + 1
    BY <1>9
  <2>2. QED
    BY <1>3, <1>9, <1>11, <2>1 DEF Parses
<1>12. QED
  BY <1>4, <1>8, <1>10, <1>11 DEF g, Ends

\* exec.go:127-159: from a text of the right type the update makes one, and it
\* loses nothing of a text that a line can be added to.
LEMMA AppendType ==
  ASSUME NEW f \in File, NEW k \in Keys PROVE AppendKey(f, k) \in File
<1> DEFINE kind == CASE f.ended -> "exact"
                     [] ~f.ended /\ EndsInComment(f) -> "comment"
                     [] OTHER -> "joined"
           line == [kind |-> kind, key |-> k, value |-> Want[k]]
<1>1. kind \in Kinds
  BY DEF Kinds, File
<1>2. Want[k] \in BOOLEAN /\ k \in Keys \cup Others
  BY KeysAssumption
<1> HIDE DEF kind
<1>3. line \in Line
  BY <1>1, <1>2 DEF Line
<1> HIDE DEF line
<1>4. Append(f.lines, line) \in Seq(Line)
  BY <1>3 DEF File
<1>5. AppendKey(f, k) = [lines |-> Append(f.lines, line), ended |-> TRUE]
  BY DEF AppendKey, line, kind
<1>6. QED
  BY <1>4, <1>5 DEF File

\* The text is readable, has the other settings of b, and a line can be added.
Good(f, b) == Parses(f) /\ Ends(f) /\ Settings(b) \subseteq Settings(f)

LEMMA UpdateKeyGood ==
  ASSUME NEW f \in File, NEW k \in Keys, NEW b
  PROVE  UpdateKey(f, k) \in File /\ (Good(f, b) => Good(UpdateKey(f, k), b))
<1>1. CASE UpdateKey(f, k) = f
  BY <1>1
<1>2. CASE UpdateKey(f, k) = ReplaceOne(f, k)
  BY <1>2, ReplaceKeepsLines, SameLinesKeep DEF Good
<1>3. CASE UpdateKey(f, k) = AppendKey(f, k)
  BY <1>3, AppendType, AppendKeepsLines DEF Good
<1>4. QED
  BY <1>1, <1>2, <1>3 DEF UpdateKey

LEMMA UpdateGood ==
  ASSUME NEW f \in File, NEW b
  PROVE  LET g == updateVarLibKubeletConfigYaml(f)
         IN  g \in File /\ (Good(f, b) => Good(g, b))
<1>1. "rotateCertificates" \in Keys /\ "serverTLSBootstrap" \in Keys
  BY DEF Keys
<1> DEFINE h == UpdateKey(f, "rotateCertificates")
<1>2. h \in File /\ (Good(f, b) => Good(h, b))
  BY <1>1, UpdateKeyGood
<1> HIDE DEF h
<1>3. LET g == UpdateKey(h, "serverTLSBootstrap")
      IN  g \in File /\ (Good(h, b) => Good(g, b))
  BY <1>1, <1>2, UpdateKeyGood
<1>4. QED
  BY <1>2, <1>3 DEF updateVarLibKubeletConfigYaml, h

-------------------------------------------------------------------------------
(* What the update repairs. A regular text has a wrong place for every key *)
(* that does not agree and is mentioned; the replacement corrects the      *)
(* first of them and touches nothing else.                                 *)

\* The least-number principle for the first place found.
LEMMA LeastPlace ==
  ASSUME NEW S \in SUBSET Nat, S # {}
  PROVE  First(S) \in S /\ \A y \in S : First(S) <= y
<1> DEFINE R == OpToRel(<, Nat)
<1>1. \A x, y \in Nat : <<y, x>> \in R <=> y < x
  BY DEF OpToRel
<1>2. IsWellFoundedOn(R, Nat)
  BY NatLessThanWellFounded
<1> HIDE DEF R
<1>3. PICK x \in S : \A y \in S : ~(<<y, x>> \in R)
  BY <1>2, WFMin
<1>4. \A y \in S : ~(y < x)
  <2>1. S \subseteq Nat
    OBVIOUS
  <2>2. QED
    BY <1>1, <1>3, <2>1, Zenon
<1>5. \A y \in S : x <= y
  BY <1>4
<1>6. QED
  BY <1>5 DEF First

\* And for the last line that sets a key, counted from the end.
LEMMA GreatestPlace ==
  ASSUME NEW n \in Nat, NEW S \in SUBSET (1..n), S # {}
  PROVE  \E i \in S : \A j \in S : j <= i
<1> DEFINE T == {n - i : i \in S}
<1>1. T \in SUBSET Nat /\ T # {}
  <2>1. \A i \in S : n - i \in Nat
    OBVIOUS
  <2>2. PICK i \in S : TRUE
    OBVIOUS
  <2>3. QED
    BY <2>1, <2>2
<1>2. First(T) \in T /\ \A t \in T : First(T) <= t
  BY <1>1, LeastPlace
<1>3. PICK i \in S : First(T) = n - i
  BY <1>2
<1>4. \A j \in S : n - i <= n - j
  BY <1>2, <1>3
<1>5. \A j \in S : j <= i
  BY <1>4
<1>6. QED
  BY <1>5

\* Two texts have the same lines about a key.
SameOf(f, g, k) ==
    /\ \A i \in DOMAIN f.lines : f.lines[i].key = k => i \in DOMAIN g.lines /\ g.lines[i] = f.lines[i]
    /\ \A i \in DOMAIN g.lines : g.lines[i].key = k => i \in DOMAIN f.lines /\ g.lines[i] = f.lines[i]

\* Then they say the same of it.
LEMMA SameOfKeeps ==
  ASSUME NEW f, NEW g, NEW k, SameOf(f, g, k)
  PROVE  /\ \A kinds : LinesWith(g, kinds, k) = LinesWith(f, kinds, k)
         /\ \A v : Places(g, k, v) = Places(f, k, v)
         /\ Value(g, k) = Value(f, k)
         /\ Contains(g, k) = Contains(f, k)
<1>1. \A kinds : LinesWith(g, kinds, k) = LinesWith(f, kinds, k)
  BY DEF SameOf, LinesWith
<1>2. \A kinds : \A i \in LinesWith(f, kinds, k) : g.lines[i] = f.lines[i]
  BY DEF SameOf, LinesWith
<1>3. \A v : Places(g, k, v) = Places(f, k, v)
  BY <1>1, <1>2 DEF Places
<1>4. Value(g, k) = Value(f, k)
  BY <1>1, <1>2 DEF Value
<1>5. QED
  BY <1>1, <1>3, <1>4 DEF Contains

\* The places of a text are finitely many line numbers.
LEMMA PlacesFinite ==
  ASSUME NEW f \in File, NEW k, NEW v
  PROVE  /\ Places(f, k, v) \in SUBSET Nat /\ IsFiniteSet(Places(f, k, v))
         /\ Cardinality(Places(f, k, v)) \in Nat
<1>1. DOMAIN f.lines = 1..Len(f.lines) /\ Len(f.lines) \in Nat
  BY DEF File
<1>2. Places(f, k, v) \subseteq 1..Len(f.lines)
  BY <1>1 DEF Places, LinesWith
<1>3. IsFiniteSet(1..Len(f.lines))
  BY <1>1, FS_Interval
<1>4. IsFiniteSet(Places(f, k, v))
  BY <1>2, <1>3, FS_Subset
<1>5. QED
  BY <1>1, <1>2, <1>4, FS_CardinalityType

\* What YAML reads, if it is not what is wanted, is the other value.
LEMMA WrongValue ==
  ASSUME NEW f \in File, NEW k \in Keys, Value(f, k) # Want[k]
  PROVE  Places(f, k, Value(f, k)) = Wrong(f, k)
<1>1. Want[k] \in BOOLEAN
  BY KeysAssumption
<1>2. Value(f, k) \in BOOLEAN
  BY DEF Value
<1>3. Value(f, k) = ~Want[k]
  BY <1>1, <1>2
<1>4. QED
  BY <1>3 DEF Wrong

\* A key set in kubeadm's form to what is not wanted has a wrong place.
LEMMA HasWrong ==
  ASSUME NEW f \in File, NEW k \in Keys, Value(f, k) # Want[k],
         LinesWith(f, {"exact"}, k) # {}, LinesWith(f, {"spaced"}, k) = {}
  PROVE  Wrong(f, k) # {}
<1>1. Want[k] \in BOOLEAN
  BY KeysAssumption
<1>2. \A i \in DOMAIN f.lines : f.lines[i].value \in BOOLEAN
  <2>1. f.lines \in Seq(Line)
    BY DEF File
  <2>2. \A i \in DOMAIN f.lines : f.lines[i] \in Line
    BY <2>1
  <2>3. QED
    BY <2>2 DEF Line
<1>3. CASE Want[k] = TRUE
  <2> DEFINE S == LinesWith(f, {"exact", "spaced"}, k)
  <2>1. PICK i \in S : \A j \in S : j <= i
    <3>1. S \in SUBSET (1..Len(f.lines)) /\ S # {} /\ Len(f.lines) \in Nat
      BY DEF LinesWith, File
    <3> HIDE DEF S
    <3>2. QED
      BY <3>1, GreatestPlace
  <2>2. ~Value(f, k)
    BY <1>3 DEF Value
  <2>3. i \in LinesWith(f, {"exact", "comment"}, k) /\ i \in DOMAIN f.lines
    BY <2>1 DEF LinesWith
  <2>4. f.lines[i].value = FALSE
    BY <1>2, <2>1, <2>2, <2>3 DEF Value
  <2>5. i \in Wrong(f, k)
    BY <1>3, <2>3, <2>4 DEF Wrong, Places
  <2>6. QED
    BY <2>5
<1>4. CASE Want[k] = FALSE
  <2>1. Value(f, k)
    BY <1>4 DEF Value
  <2>2. PICK i \in LinesWith(f, {"exact", "spaced"}, k) : f.lines[i].value
    BY <2>1 DEF Value
  <2>3. i \in LinesWith(f, {"exact", "comment"}, k) /\ i \in DOMAIN f.lines
    BY <2>2 DEF LinesWith
  <2>4. f.lines[i].value = TRUE
    BY <1>2, <2>2, <2>3
  <2>5. i \in Wrong(f, k)
    BY <1>4, <2>3, <2>4 DEF Wrong, Places
  <2>6. QED
    BY <2>5
<1>5. QED
  BY <1>1, <1>3, <1>4

\* A replacement in a text that mentions the key as kubeadm does: one wrong place
\* less, and the other lines as they were.
LEMMA ReplaceRepairs ==
  ASSUME NEW f \in File, NEW k \in Keys, Value(f, k) # Want[k],
         LinesWith(f, {"exact"}, k) # {}, LinesWith(f, {"spaced"}, k) = {}
  PROVE  LET g == ReplaceOne(f, k)
         IN  /\ Cardinality(Wrong(g, k)) + 1 = Cardinality(Wrong(f, k))
             /\ \A q \in Keys \ {k} : SameOf(f, g, q)
<1> DEFINE p == First(Wrong(f, k))
           ls == [f.lines EXCEPT ![p].value = Want[k]]
           g == ReplaceOne(f, k)
<1>1. Wrong(f, k) # {} /\ Places(f, k, Value(f, k)) = Wrong(f, k)
  BY HasWrong, WrongValue
<1>2. p \in Wrong(f, k)
  BY <1>1, PlacesFinite, LeastPlace DEF Wrong
<1>3. g = [f EXCEPT !.lines = ls]
  BY <1>1 DEF ReplaceOne
<1>4. g \in File /\ SameLines(f, g)
  BY ReplaceKeepsLines
<1>5. g.lines = ls /\ f.lines \in Seq(Line)
  BY <1>3 DEF File
<1> HIDE DEF p, g
<1>6. /\ p \in DOMAIN f.lines /\ f.lines[p].key = k /\ f.lines[p].kind \in {"exact", "comment"}
      /\ f.lines[p].value = ~Want[k]
  BY <1>2 DEF Wrong, Places, LinesWith
<1>7. /\ \A i \in DOMAIN f.lines \ {p} : ls[i] = f.lines[i]
      /\ DOMAIN ls = DOMAIN f.lines
      /\ ls[p] = [f.lines[p] EXCEPT !.value = Want[k]]
  BY <1>5, <1>6
<1>8. f.lines[p] \in Line
  BY <1>5, <1>6
<1>9. ls[p].value = Want[k]
  BY <1>7, <1>8 DEF Line
<1>10. ls[p].key = k /\ ls[p].kind = f.lines[p].kind
  BY <1>6, <1>7, <1>8 DEF Line
<1> HIDE DEF ls
<1>11. Want[k] # ~Want[k]
  BY KeysAssumption
<1>12. Wrong(g, k) = Wrong(f, k) \ {p}
  <2>1. ASSUME NEW i \in DOMAIN f.lines, i # p PROVE i \in Wrong(g, k) <=> i \in Wrong(f, k)
    BY <1>5, <1>7, <2>1 DEF Wrong, Places, LinesWith
  <2>2. p \notin Wrong(g, k)
    BY <1>5, <1>9, <1>11 DEF Wrong, Places
  <2>3. Wrong(g, k) \subseteq DOMAIN f.lines /\ Wrong(f, k) \subseteq DOMAIN f.lines
    BY <1>5, <1>7 DEF Wrong, Places, LinesWith
  <2>4. QED
    BY <2>1, <2>2, <2>3
<1>13. Cardinality(Wrong(g, k)) = Cardinality(Wrong(f, k)) - 1 /\ Cardinality(Wrong(f, k)) \in Nat
  <2>1. IsFiniteSet(Wrong(f, k)) /\ Cardinality(Wrong(f, k)) \in Nat
    BY PlacesFinite DEF Wrong
  <2>2. QED
    BY <1>2, <1>12, <2>1, FS_RemoveElement
<1>14. \A q \in Keys \ {k} : SameOf(f, g, q)
  BY <1>5, <1>6, <1>7, <1>10 DEF SameOf
<1>15. QED
  BY <1>13, <1>14 DEF g

\* A key that nothing mentions, and that YAML reads as false, is wanted true; the
\* line that is added sets it.
LEMMA AppendRepairs ==
  ASSUME NEW f \in File, NEW k \in Keys, Value(f, k) # Want[k], f.ended = TRUE, ~Contains(f, k)
  PROVE  LET g == AppendKey(f, k)
         IN  /\ Value(g, k) = Want[k]
             /\ \A q \in Keys \ {k} : SameOf(f, g, q)
             /\ g.ended = TRUE
<1> DEFINE line == [kind |-> "exact", key |-> k, value |-> Want[k]]
           g == AppendKey(f, k)
           n == Len(f.lines) + 1
<1>1. g.lines = Append(f.lines, line) /\ g.ended = TRUE
  BY DEF AppendKey
<1>2. f.lines \in Seq(Line) /\ line \in Line
  BY KeysAssumption DEF File, Line, Kinds
<1>3. line.kind = "exact" /\ line.key = k /\ line.value = Want[k]
  OBVIOUS
<1> HIDE DEF line, g
<1>4. /\ DOMAIN g.lines = 1..n /\ DOMAIN f.lines = 1..Len(f.lines) /\ Len(f.lines) \in Nat
      /\ \A i \in DOMAIN f.lines : g.lines[i] = f.lines[i]
      /\ g.lines[n] = line
  BY <1>1, <1>2
<1>5. n \in LinesWith(g, {"exact", "spaced"}, k)
  BY <1>3, <1>4 DEF LinesWith
<1>6. ~Value(f, k)
  BY DEF Value, Contains, LinesWith
<1>7. Want[k] = TRUE
  <2>1. Want[k] \in BOOLEAN
    BY KeysAssumption
  <2>2. Value(f, k) = FALSE
    BY <1>6 DEF Value
  <2>3. QED
    BY <2>1, <2>2
<1>8. Value(g, k)
  <2>1. \A j \in LinesWith(g, {"exact", "spaced"}, k) : j <= n
    BY <1>4 DEF LinesWith
  <2>2. g.lines[n].value = TRUE
    BY <1>3, <1>4, <1>7
  <2>3. QED
    BY <1>5, <2>1, <2>2 DEF Value
<1>9. Value(g, k) = Want[k]
  BY <1>7, <1>8 DEF Value
<1>10. ASSUME NEW q \in Keys \ {k} PROVE SameOf(f, g, q)
  <2>1. \A i \in 1..n : i \in 1..Len(f.lines) \/ i = n
    BY <1>4
  <2>2. QED
    BY <1>3, <1>4, <2>1 DEF SameOf
<1>11. QED
  BY <1>1, <1>9, <1>10 DEF g

\* A key is in a form that the update understands.
KeyRegular(f, k) ==
    \/ LinesWith(f, {"exact"}, k) # {} /\ LinesWith(f, {"spaced"}, k) = {}
    \/ f.ended = TRUE /\ ~Contains(f, k)
    \/ Value(f, k) = Want[k]

LEMMA RegularKeys ==
  ASSUME NEW f \in File PROVE Regular(f) <=> Parses(f) /\ \A k \in Keys : KeyRegular(f, k)
<1>1. f.ended \in BOOLEAN
  BY DEF File
<1>2. QED
  BY <1>1 DEF Regular, KeyRegular

\* A text has fewer wrong places of a key than another, but still one.
Fewer(g, f, k) ==
    Wrong(g, k) # {} /\ Cardinality(Wrong(g, k)) + 1 <= Cardinality(Wrong(f, k))

\* exec.go:134-147: one key.
LEMMA UpdateKeyRepairs ==
  ASSUME NEW f \in File, NEW k \in Keys, Regular(f)
  PROVE  LET g == UpdateKey(f, k)
         IN  /\ g \in File /\ Regular(g)
             /\ Value(g, k) = Want[k] \/ Fewer(g, f, k)
             /\ \A q \in Keys \ {k} : SameOf(f, g, q)
<1> DEFINE g == UpdateKey(f, k)
<1>1. Parses(f) /\ \A q \in Keys : KeyRegular(f, q)
  BY RegularKeys
<1>2. CASE Value(f, k) = Want[k]
  <2>1. g = f
    BY <1>2 DEF UpdateKey
  <2>2. QED
    BY <1>2, <2>1 DEF SameOf
<1>3. CASE Value(f, k) # Want[k] /\ Contains(f, k)
  <2>1. g = ReplaceOne(f, k)
    BY <1>3 DEF UpdateKey
  <2>2. LinesWith(f, {"exact"}, k) # {} /\ LinesWith(f, {"spaced"}, k) = {}
    BY <1>1, <1>3 DEF KeyRegular
  <2> HIDE DEF g
  <2>3. g \in File /\ SameLines(f, g)
    BY <2>1, ReplaceKeepsLines
  <2>4. /\ Cardinality(Wrong(g, k)) + 1 = Cardinality(Wrong(f, k))
        /\ \A q \in Keys \ {k} : SameOf(f, g, q)
    BY <1>3, <2>1, <2>2, ReplaceRepairs
  <2>5. KeyRegular(g, k) /\ (Value(g, k) = Want[k] \/ Wrong(g, k) # {})
    <3>1. \A kinds : LinesWith(g, kinds, k) = LinesWith(f, kinds, k)
      BY <2>3 DEF SameLines, LinesWith
    <3>2. LinesWith(g, {"exact"}, k) # {} /\ LinesWith(g, {"spaced"}, k) = {}
      BY <2>2, <3>1
    <3>3. QED
      BY <2>3, <3>2, HasWrong DEF KeyRegular
  <2>6. ASSUME NEW q \in Keys \ {k} PROVE KeyRegular(g, q)
    BY <1>1, <2>3, <2>4, SameOfKeeps DEF KeyRegular, SameLines
  <2>7. Parses(g)
    BY <1>1, <2>3, SameLinesKeep
  <2>8. Cardinality(Wrong(f, k)) \in Nat
    BY PlacesFinite DEF Wrong
  <2>9. Regular(g)
    BY <2>3, <2>5, <2>6, <2>7, RegularKeys
  <2>10. Value(g, k) = Want[k] \/ Fewer(g, f, k)
    <3>1. Cardinality(Wrong(g, k)) \in Nat
      BY <2>3, PlacesFinite DEF Wrong
    <3>2. QED
      BY <2>4, <2>5, <2>8, <3>1 DEF Fewer
  <2>11. QED
    BY <2>3, <2>4, <2>9, <2>10 DEF g
<1>4. CASE Value(f, k) # Want[k] /\ ~Contains(f, k)
  <2>1. g = AppendKey(f, k)
    BY <1>4 DEF UpdateKey
  <2>2. f.ended = TRUE
    BY <1>1, <1>4 DEF KeyRegular, Contains, LinesWith
  <2> HIDE DEF g
  <2>3. g \in File /\ Parses(g)
    BY <1>1, <2>1, <2>2, AppendKeepsLines DEF Ends
  <2>4. Value(g, k) = Want[k] /\ g.ended = TRUE /\ \A q \in Keys \ {k} : SameOf(f, g, q)
    BY <1>4, <2>1, <2>2, AppendRepairs
  <2>5. ASSUME NEW q \in Keys \ {k} PROVE KeyRegular(g, q)
    BY <1>1, <2>4, SameOfKeeps DEF KeyRegular
  <2>6. Regular(g)
    BY <2>3, <2>4, <2>5, RegularKeys DEF KeyRegular
  <2>7. QED
    BY <2>3, <2>4, <2>6 DEF g
<1>5. QED
  BY <1>2, <1>3, <1>4

\* exec.go:127-159: both keys. Neither update undoes the other.
LEMMA UpdateRepairs ==
  ASSUME NEW f \in File, Regular(f)
  PROVE  LET g == updateVarLibKubeletConfigYaml(f)
         IN  /\ Regular(g)
             /\ \A k \in Keys : Value(g, k) = Want[k] \/ Fewer(g, f, k)
<1> DEFINE a == "rotateCertificates"
           b == "serverTLSBootstrap"
           h == UpdateKey(f, a)
           g == UpdateKey(h, b)
<1>1. Keys = {a, b} /\ a # b
  BY DEF Keys
<1> HIDE DEF a, b
<1>2. /\ h \in File /\ Regular(h) /\ SameOf(f, h, b)
      /\ Value(h, a) = Want[a] \/ Fewer(h, f, a)
  BY <1>1, UpdateKeyRepairs
<1> HIDE DEF h
<1>3. /\ Regular(g) /\ SameOf(h, g, a)
      /\ Value(g, b) = Want[b] \/ Fewer(g, h, b)
  BY <1>1, <1>2, UpdateKeyRepairs
<1> HIDE DEF g
<1>4. Value(g, a) = Value(h, a) /\ Wrong(g, a) = Wrong(h, a) /\ Wrong(h, b) = Wrong(f, b)
  BY <1>2, <1>3, SameOfKeeps DEF Wrong
<1>5. \A k \in Keys : Value(g, k) = Want[k] \/ Fewer(g, f, k)
  BY <1>1, <1>2, <1>3, <1>4 DEF Fewer
<1>6. QED
  BY <1>3, <1>5 DEF updateVarLibKubeletConfigYaml, a, b, g, h

\* What a single write repairs.
Simple(f) == Regular(f) /\ \A k \in Keys : Cardinality(Wrong(f, k)) <= 1

\* exec.go:127-159: a regular text that says each wrong value at most once agrees
\* with the flags after one update. Such are the files that RotationLoop does not
\* take for Irregular, kubeadm's own among them.
THEOREM SimpleInOneWrite ==
  ASSUME NEW f \in File, Simple(f) PROVE Agrees(updateVarLibKubeletConfigYaml(f))
<1> DEFINE g == updateVarLibKubeletConfigYaml(f)
<1>1. g \in File
  BY UpdateGood
<1>2. \A k \in Keys : Value(g, k) = Want[k] \/ Fewer(g, f, k)
  BY UpdateRepairs DEF Simple
<1> HIDE DEF g
<1>3. ASSUME NEW k \in Keys PROVE ~Fewer(g, f, k)
  <2>1. IsFiniteSet(Wrong(g, k)) /\ Cardinality(Wrong(g, k)) \in Nat
    BY <1>1, PlacesFinite DEF Wrong
  <2>2. Wrong(g, k) # {} => Cardinality(Wrong(g, k)) # 0
    BY <2>1, FS_EmptySet
  <2>3. Cardinality(Wrong(f, k)) \in Nat /\ Cardinality(Wrong(f, k)) <= 1
    BY PlacesFinite DEF Wrong, Simple
  <2>4. QED
    BY <2>1, <2>2, <2>3 DEF Fewer
<1>4. QED
  BY <1>2, <1>3 DEF Agrees, g

-------------------------------------------------------------------------------
(* The inductive invariant.                                                *)

\* Unless spoilt, config.yaml is good, except while it is truncated, and so is the
\* new content of it that a pass has in hand.
YamlInv ==
    "config.yaml" \notin spoilt /\ Ends(base) =>
        /\ ~(pc = "truncated" /\ inHand = "config.yaml") => Good(configYaml, base)
        /\ inHand = "config.yaml" => Good(newYaml, base)

\* The same of the users of kubelet.conf.
ConfInv ==
    "kubelet.conf" \notin spoilt =>
        /\ ~(pc = "truncated" /\ inHand = "kubelet.conf") => kubeletConf.users = Users
        /\ inHand = "kubelet.conf" => newConf.users = Users

Inv == TypeOK /\ YamlInv /\ ConfInv

LEMMA EmptyTypes == EmptyFile \in File /\ EmptyConf \in Conf
<1>1. <<>> \in Seq(Line)
  OBVIOUS
<1>2. QED
  BY <1>1 DEF EmptyFile, EmptyConf, File, Conf

\* What an editor leaves is a text of the right type, and good if it ends well.
LEMMA EditedGood ==
  ASSUME NEW f \in Edited PROVE f \in File /\ (Ends(f) => Good(f, f))
BY EditedAssumption DEF Good, Parses

LEMMA InitInv == Init => Inv
<1> SUFFICES ASSUME Init PROVE Inv
  OBVIOUS
<1>1. TypeOK
  BY EmptyTypes, EditedGood, BoundsAssumption DEF Init, TypeOK
<1>2. YamlInv
  BY EditedGood, NoFileAssumption DEF Init, YamlInv, Configs
<1>3. ConfInv
  BY NoFileAssumption DEF Init, ConfInv, Configs
<1>4. QED
  BY <1>1, <1>2, <1>3 DEF Inv

\* kubelet.go:43-60.
LEMMA CheckConfigInv == ASSUME Inv, CheckConfig PROVE Inv'
<1>1. /\ pc = "idle" /\ pc' \in {"idle", "update"}
      /\ UNCHANGED <<configYaml, kubeletConf, inHand, newYaml, newConf, base, spoilt, writes,
                     stops, edits>>
  BY DEF CheckConfig, files, history
<1>2. inHand = NoFile
  BY <1>1 DEF Inv, TypeOK
<1>3. configsToBeUpdate' \subseteq Configs /\ faults' \in 0..MaxFaults
  BY BoundsAssumption DEF CheckConfig, Fault, Stale, Inv, TypeOK
<1>4. TypeOK'
  BY <1>1, <1>2, <1>3 DEF Inv, TypeOK
<1>5. YamlInv' /\ ConfInv'
  BY <1>1, <1>2, NoFileAssumption DEF Inv, YamlInv, ConfInv, Configs
<1>6. QED
  BY <1>4, <1>5 DEF Inv

\* exec.go:76-89, 127-159: the read and the new content.
LEMMA ReadFileInv == ASSUME Inv, NEW c \in Configs, ReadFile(c) PROVE Inv'
<1>1. /\ pc = "update" /\ c \in configsToBeUpdate
      /\ UNCHANGED <<configYaml, kubeletConf, base, spoilt, writes, stops, edits>>
  BY DEF ReadFile, files, history
<1>2. inHand = NoFile
  BY <1>1 DEF Inv, TypeOK
<1>3. CASE /\ newYaml' = IF c = "config.yaml" THEN updateVarLibKubeletConfigYaml(configYaml)
                                              ELSE newYaml
           /\ newConf' = IF c = "kubelet.conf" THEN updateEtcKubernetesKubeletConf(kubeletConf)
                                               ELSE newConf
           /\ inHand' = c /\ pc' = "write"
           /\ UNCHANGED <<configsToBeUpdate, faults>>
  <2>1. newYaml' \in File
    BY <1>3, UpdateGood DEF Inv, TypeOK
  <2>2. LET conf == updateEtcKubernetesKubeletConf(kubeletConf)
        IN  conf \in Conf /\ conf.users = kubeletConf.users
    BY DEF updateEtcKubernetesKubeletConf, Inv, TypeOK, Conf
  <2>3. newConf' \in Conf
    BY <1>3, <2>2 DEF Inv, TypeOK
  <2>4. c # NoFile
    BY NoFileAssumption
  <2>5. TypeOK'
    BY <1>1, <1>3, <2>1, <2>3, <2>4 DEF Inv, TypeOK
  <2>6. YamlInv'
    <3> SUFFICES ASSUME "config.yaml" \notin spoilt, Ends(base)
                 PROVE  Good(configYaml, base) /\ (c = "config.yaml" => Good(newYaml', base))
      BY <1>1, <1>3 DEF YamlInv
    <3>1. Good(configYaml, base)
      BY <1>1 DEF Inv, YamlInv
    <3>2. QED
      BY <1>3, <3>1, UpdateGood DEF Inv, TypeOK
  <2>7. ConfInv'
    BY <1>1, <1>3, <2>2 DEF Inv, ConfInv
  <2>8. QED
    BY <2>5, <2>6, <2>7 DEF Inv
<1>4. CASE /\ UNCHANGED faults \/ Fault
           /\ configsToBeUpdate' = configsToBeUpdate \ {c}
           /\ UNCHANGED <<pc, inHand, newYaml, newConf>>
  <2>1. faults' \in 0..MaxFaults
    BY <1>4, BoundsAssumption DEF Fault, Inv, TypeOK
  <2>2. TypeOK'
    BY <1>1, <1>2, <1>4, <2>1 DEF Inv, TypeOK
  <2>3. YamlInv' /\ ConfInv'
    BY <1>1, <1>4 DEF Inv, YamlInv, ConfInv
  <2>4. QED
    BY <2>2, <2>3 DEF Inv
<1>5. QED
  BY <1>3, <1>4 DEF ReadFile

\* exec.go:91, 165: the file is emptied.
LEMMA TruncateInv == ASSUME Inv, Truncate PROVE Inv'
<1>1. /\ pc = "write" /\ pc' = "truncated"
      /\ configYaml'  = IF inHand = "config.yaml" THEN EmptyFile ELSE configYaml
      /\ kubeletConf' = IF inHand = "kubelet.conf" THEN EmptyConf ELSE kubeletConf
      /\ UNCHANGED <<configsToBeUpdate, inHand, newYaml, newConf, base, spoilt, writes, faults,
                     stops, edits>>
  BY DEF Truncate, Put, history
<1>2. TypeOK'
  BY <1>1, EmptyTypes DEF Inv, TypeOK
<1>3. YamlInv' /\ ConfInv'
  BY <1>1 DEF Inv, YamlInv, ConfInv
<1>4. QED
  BY <1>2, <1>3 DEF Inv

\* exec.go:91, 165: and written, or the write fails.
LEMMA WriteFileInv == ASSUME Inv, WriteFile PROVE Inv'
<1>1. /\ pc = "truncated" /\ pc' = "update" /\ inHand' = NoFile
      /\ configsToBeUpdate' = configsToBeUpdate \ {inHand}
      /\ newYaml' = EmptyFile /\ newConf' = EmptyConf
      /\ UNCHANGED <<base, stops, edits>>
  BY DEF WriteFile, NextFile
<1>2. CASE /\ Put(newYaml, newConf) /\ UNCHANGED <<spoilt, faults>>
           /\ writes' = IF inHand = "config.yaml" /\ writes < MaxWrites THEN writes + 1 ELSE writes
  <2>1. writes' \in 0..MaxWrites
    BY <1>2, BoundsAssumption DEF Inv, TypeOK
  <2>2. TypeOK'
    BY <1>1, <1>2, <2>1, EmptyTypes DEF Inv, TypeOK, Put
  <2>3. YamlInv'
    BY <1>1, <1>2, NoFileAssumption DEF Inv, YamlInv, Put, Configs
  <2>4. ConfInv'
    BY <1>1, <1>2, NoFileAssumption DEF Inv, ConfInv, Put, Configs
  <2>5. QED
    BY <2>2, <2>3, <2>4 DEF Inv
<1>3. CASE Fault /\ spoilt' = spoilt \cup {inHand} /\ UNCHANGED <<files, writes>>
  <2>1. faults' \in 0..MaxFaults
    BY <1>3, BoundsAssumption DEF Fault, Inv, TypeOK
  <2>2. TypeOK'
    BY <1>1, <1>3, <2>1, EmptyTypes DEF Inv, TypeOK, files
  <2>3. YamlInv'
    BY <1>1, <1>3, NoFileAssumption DEF Inv, YamlInv, Configs, files
  <2>4. ConfInv'
    BY <1>1, <1>3, NoFileAssumption DEF Inv, ConfInv, Configs, files
  <2>5. QED
    BY <2>2, <2>3, <2>4 DEF Inv
<1>4. QED
  BY <1>2, <1>3 DEF WriteFile

LEMMA UpdateConfigDoneInv == ASSUME Inv, UpdateConfigDone PROVE Inv'
<1>1. /\ pc = "update" /\ pc' = "idle"
      /\ UNCHANGED <<configYaml, kubeletConf, configsToBeUpdate, inHand, newYaml, newConf, base,
                     spoilt, writes, faults, stops, edits>>
  BY DEF UpdateConfigDone, files, history
<1>2. TypeOK'
  BY <1>1 DEF Inv, TypeOK
<1>3. YamlInv' /\ ConfInv'
  BY <1>1 DEF Inv, YamlInv, ConfInv
<1>4. QED
  BY <1>2, <1>3 DEF Inv

\* A death, at worst between the two halves of a write.
LEMMA StopInv == ASSUME Inv, Stop PROVE Inv'
<1>1. /\ pc' = "idle" /\ configsToBeUpdate' = {} /\ inHand' = NoFile
      /\ newYaml' = EmptyFile /\ newConf' = EmptyConf
      /\ spoilt' = IF pc = "truncated" THEN spoilt \cup {inHand} ELSE spoilt
      /\ UNCHANGED <<configYaml, kubeletConf, base, writes, faults, edits>>
  BY DEF Stop, files
<1>2. stops' \in 0..MaxStops
  BY BoundsAssumption DEF Stop, Inv, TypeOK
<1>3. TypeOK'
  BY <1>1, <1>2, EmptyTypes DEF Inv, TypeOK
<1>4. YamlInv'
  BY <1>1, NoFileAssumption DEF Inv, YamlInv, Configs
<1>5. ConfInv'
  BY <1>1, NoFileAssumption DEF Inv, ConfInv, Configs
<1>6. QED
  BY <1>3, <1>4, <1>5 DEF Inv

\* Edits: the one that a write is about to overtake spoils the file.
LEMMA EditYamlInv == ASSUME Inv, NEW f \in Edited, EditYaml(f) PROVE Inv'
<1>1. /\ configYaml' = f /\ base' = f /\ writes' = 0
      /\ spoilt' = IF inHand = "config.yaml" THEN spoilt \cup {"config.yaml"}
                                             ELSE spoilt \ {"config.yaml"}
      /\ UNCHANGED <<kubeletConf, pc, configsToBeUpdate, inHand, newYaml, newConf, faults, stops>>
  BY DEF EditYaml, passVars
<1>2. edits' \in 0..MaxEdits
  BY BoundsAssumption DEF EditYaml, Inv, TypeOK
<1>3. TypeOK'
  BY <1>1, <1>2, EditedGood, BoundsAssumption DEF Inv, TypeOK, Configs
<1>4. YamlInv'
  BY <1>1, EditedGood DEF YamlInv
<1>5. ConfInv'
  BY <1>1 DEF Inv, ConfInv
<1>6. QED
  BY <1>3, <1>4, <1>5 DEF Inv

LEMMA EditConfInv == ASSUME Inv, EditConf PROVE Inv'
<1>1. /\ kubeletConf' = [users |-> Users, inline |-> Users]
      /\ spoilt' = IF inHand = "kubelet.conf" THEN spoilt \cup {"kubelet.conf"}
                                              ELSE spoilt \ {"kubelet.conf"}
      /\ UNCHANGED <<configYaml, base, writes, pc, configsToBeUpdate, inHand, newYaml, newConf,
                     faults, stops>>
  BY DEF EditConf, passVars
<1>2. edits' \in 0..MaxEdits
  BY BoundsAssumption DEF EditConf, Inv, TypeOK
<1>3. TypeOK'
  BY <1>1, <1>2 DEF Inv, TypeOK, Configs, Conf
<1>4. YamlInv'
  BY <1>1 DEF Inv, YamlInv
<1>5. ConfInv'
  BY <1>1 DEF ConfInv
<1>6. QED
  BY <1>3, <1>4, <1>5 DEF Inv

LEMMA Invariant == Spec => []Inv
<1>1. ASSUME Inv, [Next]_vars PROVE Inv'
  <2>1. CASE Next
    BY <1>1, <2>1, CheckConfigInv, ReadFileInv, TruncateInv, WriteFileInv, UpdateConfigDoneInv,
       StopInv, EditYamlInv, EditConfInv DEF Next, UpdateConfig
  <2>2. CASE UNCHANGED vars
    BY <1>1, <2>2 DEF vars, files, passVars, history, Inv, TypeOK, YamlInv, ConfInv
  <2>3. QED
    BY <1>1, <2>1, <2>2
<1>2. QED
  BY InitInv, <1>1, PTL DEF Spec

-------------------------------------------------------------------------------
(* The theorems.                                                           *)

\* There is a file in hand from its read to the end of its write, and only then
\* (kubelet.go:62-76).
THEOREM KubeletTypeCorrect == Spec => []TypeOK
<1>1. Inv => TypeOK
  BY DEF Inv
<1>2. QED
  BY <1>1, Invariant, PTL

\* exec.go:91, 146, 165: for any text and any interleaving of passes, deaths,
\* failures and edits, a file loses nothing that is not kucero's, unless a write
\* was cut short, a write overtook an edit or the text ended within a setting.
THEOREM SettingsAlwaysKept == Spec => []SettingsKept
<1>1. Inv => SettingsKept
  <2> SUFFICES ASSUME Inv PROVE SettingsKept
    OBVIOUS
  <2>1. base.ended \in BOOLEAN
    BY EditedGood DEF Inv, TypeOK, File
  <2>2. QED
    BY <2>1 DEF Inv, YamlInv, ConfInv, SettingsKept, Good, Ends
<1>2. QED
  BY <1>1, Invariant, PTL

-------------------------------------------------------------------------------
(* Every write repairs. The property speaks of the file between writes;    *)
(* RepairInv adds the new content that a pass has in hand, which is one    *)
(* write ahead of the file.                                                *)

\* A text that n writes have made of the edited one.
Repaired(f, n) ==
    /\ Regular(f)
    /\ \A k \in Keys : \/ Value(f, k) = Want[k]
                       \/ /\ Cardinality(Wrong(f, k)) + n <= Cardinality(Wrong(base, k))
                          /\ n > 0 => Wrong(f, k) # {}

RepairInv ==
    "config.yaml" \notin spoilt /\ Regular(base) =>
        /\ ~(pc = "truncated" /\ inHand = "config.yaml") => Repaired(configYaml, writes)
        /\ inHand = "config.yaml" => Repaired(newYaml, writes + 1)

\* An edited file has not been written.
LEMMA EditedRepaired ==
  ASSUME NEW f \in Edited, Regular(f)
  PROVE  \A k \in Keys : Cardinality(Wrong(f, k)) + 0 <= Cardinality(Wrong(f, k))
<1>1. f \in File
  BY EditedGood
<1>2. \A k \in Keys : Cardinality(Wrong(f, k)) \in Nat
  BY <1>1, PlacesFinite DEF Wrong
<1>3. QED
  BY <1>2

\* exec.go:127-159: what a pass has in hand is one write ahead.
LEMMA UpdateAhead ==
  ASSUME TypeOK, Repaired(configYaml, writes)
  PROVE  Repaired(updateVarLibKubeletConfigYaml(configYaml), writes + 1)
<1> DEFINE g == updateVarLibKubeletConfigYaml(configYaml)
<1>1. configYaml \in File /\ base \in File /\ writes \in Nat
  BY EditedGood, BoundsAssumption DEF TypeOK
<1>2. g \in File
  BY <1>1, UpdateGood
<1>3. Regular(g) /\ \A k \in Keys : Value(g, k) = Want[k] \/ Fewer(g, configYaml, k)
  BY <1>1, UpdateRepairs DEF Repaired
<1>4. ASSUME NEW k \in Keys, Value(configYaml, k) = Want[k] PROVE Value(g, k) = Want[k]
  <2> DEFINE a == "rotateCertificates"
             b == "serverTLSBootstrap"
             h == UpdateKey(configYaml, a)
  <2>1. Keys = {a, b} /\ a # b
    BY DEF Keys
  <2>2. g = UpdateKey(h, b)
    BY DEF updateVarLibKubeletConfigYaml
  <2> HIDE DEF a, b, g
  <2>3. h \in File /\ Regular(h) /\ SameOf(configYaml, h, b)
    BY <1>1, <2>1, UpdateKeyRepairs DEF Repaired
  <2>4. k = a => h = configYaml
    BY <1>4 DEF UpdateKey
  <2> HIDE DEF h
  <2>5. SameOf(h, g, a)
    BY <2>1, <2>2, <2>3, UpdateKeyRepairs
  <2>6. CASE k = a
    BY <1>4, <2>4, <2>5, <2>6, SameOfKeeps
  <2>7. CASE k = b
    <3>1. Value(h, b) = Want[b]
      BY <1>4, <2>3, <2>7, SameOfKeeps
    <3>2. QED
      BY <2>2, <2>7, <3>1 DEF UpdateKey
  <2>8. QED
    BY <2>1, <2>6, <2>7
<1> HIDE DEF g
<1>5. ASSUME NEW k \in Keys, Value(g, k) # Want[k]
      PROVE  /\ Cardinality(Wrong(g, k)) + (writes + 1) <= Cardinality(Wrong(base, k))
             /\ Wrong(g, k) # {}
  <2>1. /\ Cardinality(Wrong(g, k)) \in Nat /\ Cardinality(Wrong(configYaml, k)) \in Nat
        /\ Cardinality(Wrong(base, k)) \in Nat
    BY <1>1, <1>2, PlacesFinite DEF Wrong
  <2>2. Cardinality(Wrong(configYaml, k)) + writes <= Cardinality(Wrong(base, k))
    BY <1>4, <1>5 DEF Repaired
  <2>3. Wrong(g, k) # {} /\ Cardinality(Wrong(g, k)) + 1 <= Cardinality(Wrong(configYaml, k))
    BY <1>3, <1>5 DEF Fewer
  <2>4. QED
    BY <1>1, <2>1, <2>2, <2>3
<1>6. QED
  BY <1>3, <1>5 DEF Repaired, g

\* A count of writes that is cut off at its bound says less, never more.
LEMMA FewerCounted ==
  ASSUME TypeOK, NEW f \in File, NEW m \in Nat, NEW n \in Nat, m <= n, Repaired(f, n)
  PROVE  Repaired(f, m)
<1>1. \A k \in Keys : Cardinality(Wrong(f, k)) \in Nat /\ Cardinality(Wrong(base, k)) \in Nat
  BY EditedGood, PlacesFinite DEF Wrong, TypeOK
<1>2. QED
  BY <1>1 DEF Repaired

LEMMA RepairStep ==
  ASSUME Inv, RepairInv, [Next]_vars
  PROVE  RepairInv'
<1> TypeOK
  BY DEF Inv
<1>1. ASSUME UNCHANGED <<configYaml, inHand, newYaml, base, spoilt, writes>>,
             pc = "truncated" <=> pc' = "truncated"
      PROVE  RepairInv'
  BY <1>1 DEF RepairInv, Repaired
<1>2. CASE CheckConfig \/ UpdateConfigDone \/ EditConf \/ UNCHANGED vars
  <2>1. CASE EditConf
    BY <2>1 DEF EditConf, passVars, RepairInv, Repaired
  <2>2. CASE CheckConfig \/ UpdateConfigDone \/ UNCHANGED vars
    BY <1>1, <2>2 DEF CheckConfig, UpdateConfigDone, files, passVars, history, vars
  <2>3. QED
    BY <1>2, <2>1, <2>2
<1>3. ASSUME NEW c \in Configs, ReadFile(c) PROVE RepairInv'
  <2>1. UNCHANGED <<configYaml, base, spoilt, writes>> /\ pc = "update"
    BY <1>3 DEF ReadFile, files, history
  <2>2. CASE UNCHANGED <<pc, inHand, newYaml>>
    BY <1>1, <2>1, <2>2
  <2>3. CASE /\ newYaml' = IF c = "config.yaml" THEN updateVarLibKubeletConfigYaml(configYaml)
                                                ELSE newYaml
             /\ inHand' = c /\ pc' = "write"
    <3> SUFFICES ASSUME "config.yaml" \notin spoilt, Regular(base)
                 PROVE  /\ Repaired(configYaml, writes)
                        /\ c = "config.yaml" => Repaired(newYaml', writes + 1)
      BY <2>1, <2>3 DEF RepairInv, Repaired
    <3>1. Repaired(configYaml, writes)
      BY <2>1 DEF RepairInv
    <3>2. QED
      BY <2>3, <3>1, UpdateAhead
  <2>4. QED
    BY <1>3, <2>2, <2>3 DEF ReadFile
<1>4. CASE Truncate
  <2>1. /\ pc = "write" /\ pc' = "truncated"
        /\ configYaml' = IF inHand = "config.yaml" THEN EmptyFile ELSE configYaml
        /\ UNCHANGED <<inHand, newYaml, base, spoilt, writes>>
    BY <1>4 DEF Truncate, Put, history
  <2>2. QED
    BY <2>1 DEF RepairInv, Repaired
<1>5. CASE WriteFile
  <2>1. pc = "truncated" /\ inHand' = NoFile /\ UNCHANGED base
    BY <1>5 DEF WriteFile, NextFile
  <2>2. NoFile # "config.yaml" /\ writes \in Nat /\ newYaml \in File
    BY NoFileAssumption, BoundsAssumption DEF Configs, TypeOK
  <2>3. CASE /\ Put(newYaml, newConf) /\ UNCHANGED <<spoilt, faults>>
             /\ writes' = IF inHand = "config.yaml" /\ writes < MaxWrites THEN writes + 1 ELSE writes
    <3> SUFFICES ASSUME "config.yaml" \notin spoilt, Regular(base)
                 PROVE  Repaired(configYaml', writes')
      BY <2>1, <2>2, <2>3 DEF RepairInv, Repaired
    <3>1. CASE inHand = "config.yaml"
      <4>1. configYaml' = newYaml /\ writes' \in Nat /\ writes' <= writes + 1
        BY <2>2, <2>3, <3>1 DEF Put
      <4>2. Repaired(newYaml, writes + 1)
        BY <3>1 DEF RepairInv
      <4>3. QED
        BY <2>2, <4>1, <4>2, FewerCounted
    <3>2. CASE inHand # "config.yaml"
      BY <2>3, <3>2 DEF Put, RepairInv
    <3>3. QED
      BY <3>1, <3>2
  <2>4. CASE spoilt' = spoilt \cup {inHand} /\ UNCHANGED <<files, writes>>
    BY <2>1, <2>2, <2>4 DEF files, RepairInv, Repaired
  <2>5. QED
    BY <1>5, <2>3, <2>4 DEF WriteFile
<1>6. CASE Stop
  <2>1. /\ inHand' = NoFile /\ UNCHANGED <<configYaml, base, writes>>
        /\ spoilt' = IF pc = "truncated" THEN spoilt \cup {inHand} ELSE spoilt
    BY <1>6 DEF Stop, files
  <2>2. QED
    BY <2>1, NoFileAssumption DEF Configs, RepairInv, Repaired
<1>7. ASSUME NEW f \in Edited, EditYaml(f) PROVE RepairInv'
  <2>1. /\ configYaml' = f /\ base' = f /\ writes' = 0
        /\ spoilt' = IF inHand = "config.yaml" THEN spoilt \cup {"config.yaml"}
                                               ELSE spoilt \ {"config.yaml"}
        /\ UNCHANGED <<pc, inHand, newYaml>>
    BY <1>7 DEF EditYaml, passVars
  <2>2. QED
    BY <2>1, EditedRepaired DEF RepairInv, Repaired
<1>8. QED
  BY <1>2, <1>3, <1>4, <1>5, <1>6, <1>7 DEF Next, UpdateConfig

\* exec.go:127-166: for any flags, any regular file and any interleaving of passes,
\* deaths, failures and edits, each write leaves config.yaml regular and with a
\* wrong text less of each key that does not agree, so that it agrees after more
\* writes than the file had such texts; and what agrees stays so.
THEOREM WritesRepair == Spec => []EveryWriteRepairs
<1>1. Init => RepairInv
  BY EditedRepaired, NoFileAssumption DEF Init, Configs, RepairInv, Repaired
<1>2. RepairInv => EveryWriteRepairs
  BY DEF RepairInv, Repaired, EveryWriteRepairs
<1>3. QED
  BY <1>1, <1>2, Invariant, RepairStep, PTL DEF Spec
===============================================================================
