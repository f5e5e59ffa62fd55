------------------------ MODULE ConfigurationProofs -------------------------
(* What the loops of the imports make of a protocol stack, for stacks and    *)
(* lists of any length.  A loop is a function of the number of its turns;    *)
(* what is so after every turn follows, there being a least turn after which *)
(* it is not, if there is one.                                               *)
EXTENDS Configuration, FiniteSetTheorems, TLAPS

-----------------------------------------------------------------------------
(* Least and greatest elements                                              *)

\* A non-empty set of numbers has a least one.
LEMMA LeastNumber ==
    ASSUME NEW S \in SUBSET Nat, S # {}
    PROVE  \E n \in S : \A m \in S : n <= m
  <1>1. PICK n \in S : \A m \in S : ~(<<m, n>> \in OpToRel(<, Nat))
    BY NatLessThanWellFounded, WFMin
  <1>2. \A m \in S : ~(m < n)
    BY <1>1 DEF OpToRel
  <1>3. QED
    BY <1>2

\* A bounded one has a greatest.
LEMMA GreatestNumber ==
    ASSUME NEW k \in Nat, NEW S \in SUBSET (1 .. k), S # {}
    PROVE  \E n \in S : \A m \in S : m <= n
  <1> DEFINE T == {k - n : n \in S}
  <1>1. T \in SUBSET Nat /\ T # {}
    <2>1. \A n \in S : n \in Int /\ n <= k
      OBVIOUS
    <2>2. \A n \in S : k - n \in Nat
      BY <2>1
    <2>3. QED
      BY <2>2
  <1>2. PICK t \in T : \A m \in T : t <= m
    BY <1>1, LeastNumber
  <1>3. PICK n \in S : t = k - n
    OBVIOUS
  <1>4. \A m \in S : k - n <= k - m
    BY <1>2, <1>3
  <1>5. QED
    BY <1>4

-----------------------------------------------------------------------------
(* Tables                                                                   *)

\* An inserted table holds entries of the list under their own names.
LEMMA InsertedEntries ==
    ASSUME NEW entries, Len(entries) \in Nat, DOMAIN entries = 1 .. Len(entries),
           NEW n \in DOMAIN Inserted(entries)
    PROVE  n # "" /\ \E i \in DOMAIN entries :
               Inserted(entries)[n] = entries[i] /\ entries[i].name = n
  <1> DEFINE S == {i \in DOMAIN entries : entries[i].name = n}
  <1>1. n # "" /\ S # {}
    BY DEF Inserted
  <1> HIDE DEF S
  <1>5. S \in SUBSET Nat
    BY DEF S
  <1>2. Min(S) \in S
    BY <1>1, <1>5, LeastNumber DEF Min
  <1>3. Inserted(entries)[n] = entries[Min(S)]
    BY DEF Inserted, S
  <1>4. QED
    BY <1>1, <1>2, <1>3 DEF S

LEMMA InsertedFinite ==
    ASSUME NEW entries, Len(entries) \in Nat, DOMAIN entries = 1 .. Len(entries)
    PROVE  IsFiniteSet(DOMAIN Inserted(entries))
  <1> DEFINE S == 1 .. Len(entries)
             f == [i \in S |-> entries[i].name]
             T == {f[i] : i \in S}
  <1>1. IsFiniteSet(S)
    BY FS_Interval
  <1>2. f \in Surjection(S, T)
    BY DEF Surjection
  <1>3. IsFiniteSet(T)
    BY <1>1, <1>2, FS_Surjection
  <1>4. DOMAIN Inserted(entries) \subseteq T
    BY DEF Inserted
  <1>5. QED
    BY <1>3, <1>4, FS_Subset

-----------------------------------------------------------------------------
(* Selectors                                                                *)

\* Every token takes one turn of the loop.
LEMMA ParsingTurns ==
    ASSUME NEW tokens, NEW size, Len(tokens) \in Nat
    PROVE  /\ Parsing(tokens, size)[0] = [bytes |-> <<>>, thrown |-> FALSE]
           /\ \A i \in 1 .. Len(tokens) :
                 Parsing(tokens, size)[i] = StoreByte(size, Parsing(tokens, size)[i - 1], tokens[i])
  <1> DEFINE first == [bytes |-> <<>>, thrown |-> FALSE]
             Turns(p, k) == p = [i \in 0 .. k |-> IF i = 0 THEN first ELSE StoreByte(size, p[i - 1], tokens[i])]
             Without == {k \in 0 .. Len(tokens) : ~\E p : Turns(p, k)}
  <1> HIDE DEF first, Turns
  <1>1. Without = {}
    <2>1. SUFFICES ASSUME Without # {} PROVE FALSE
      OBVIOUS
    <2>2. PICK k \in Without : \A m \in Without : k <= m
      <3>1. Without \in SUBSET Nat
        OBVIOUS
      <3> HIDE DEF Without
      <3>2. QED
        BY <2>1, <3>1, LeastNumber
    <2>3. CASE k = 0
      <3>1. Turns([i \in 0 .. 0 |-> first], 0)
        BY DEF Turns
      <3>2. QED
        BY <2>2, <2>3, <3>1
    <2>4. CASE k # 0
      <3>1. k - 1 \in 0 .. Len(tokens) /\ k - 1 \notin Without
        BY <2>2, <2>4
      <3>2. PICK p : Turns(p, k - 1)
        BY <3>1
      <3> DEFINE q == [i \in 0 .. k |-> IF i = k THEN StoreByte(size, p[k - 1], tokens[k]) ELSE p[i]]
      <3>3. \A i \in 0 .. k : q[i] = IF i = 0 THEN first ELSE StoreByte(size, q[i - 1], tokens[i])
        BY <2>2, <2>4, <3>2 DEF Turns
      <3>4. Turns(q, k)
        BY <3>3 DEF Turns
      <3>5. QED
        BY <2>2, <3>4
    <2>5. QED
      BY <2>3, <2>4
  <1>2. PICK p : Turns(p, Len(tokens))
    BY <1>1
  <1>3. Turns(Parsing(tokens, size), Len(tokens))
    BY <1>2 DEF Parsing, first, Turns
  <1>4. \A q : Turns(q, Len(tokens)) =>
            /\ q[0] = first
            /\ \A i \in 1 .. Len(tokens) : q[i] = StoreByte(size, q[i - 1], tokens[i])
    BY DEF Turns
  <1>5. QED
    BY <1>3, <1>4 DEF first

\* A selector that is accepted has a byte for every token, the number of the token, and
\* no more bytes than its buffer.
LEMMA ParsedTokens ==
    ASSUME NEW tokens \in Seq(SUBSET Int), NEW size \in Nat,
           \A i \in DOMAIN tokens : AtMostOne(tokens[i]),
           ~parseOsiSelector(tokens, size).thrown
    PROVE  LET bytes == parseOsiSelector(tokens, size).bytes IN
           /\ [i \in DOMAIN bytes |-> {bytes[i]}] = tokens
           /\ Len(bytes) <= size
  <1> DEFINE p == Parsing(tokens, size)
             \* What is so after k tokens.
             Parsed(k) ==
                 /\ p[k] \in [bytes : Seq(0 .. 255), thrown : BOOLEAN]
                 /\ ~p[k].thrown =>
                       /\ Len(p[k].bytes) = k /\ k <= size
                       /\ \A j \in 1 .. k : tokens[j] = {p[k].bytes[j]}
             Wrong == {k \in 0 .. Len(tokens) : ~Parsed(k)}
  <1>1. Len(tokens) \in Nat /\ DOMAIN tokens = 1 .. Len(tokens)
    OBVIOUS
  <1>2. /\ p[0] = [bytes |-> <<>>, thrown |-> FALSE]
        /\ \A i \in 1 .. Len(tokens) : p[i] = StoreByte(size, p[i - 1], tokens[i])
    BY <1>1, ParsingTurns
  <1> HIDE DEF p
  <1>3. Parsed(0)
    BY <1>2
  <1>4. ASSUME NEW k \in 1 .. Len(tokens), Parsed(k - 1)
        PROVE  Parsed(k)
    <2> DEFINE q == p[k - 1]
    <2>1. p[k] = StoreByte(size, q, tokens[k]) /\ k - 1 \in Nat
      BY <1>2
    <2> HIDE DEF q
    <2>2. CASE q.thrown \/ Len(q.bytes) >= size \/ tokens[k] = {} \/ ~tokens[k] \subseteq 0 .. 255
      <3>1. p[k] = [q EXCEPT !.thrown = TRUE]
        BY <2>1, <2>2 DEF StoreByte
      <3>2. q \in [bytes : Seq(0 .. 255), thrown : BOOLEAN]
        BY <1>4 DEF q
      <3>3. QED
        BY <3>1, <3>2
    <2>3. CASE ~(q.thrown \/ Len(q.bytes) >= size \/ tokens[k] = {} \/ ~tokens[k] \subseteq 0 .. 255)
      <3>1. PICK byte \in 0 .. 255 : tokens[k] = {byte}
        <4>1. AtMostOne(tokens[k]) /\ tokens[k] # {} /\ tokens[k] \subseteq 0 .. 255
          BY <2>3, <1>1
        <4>2. PICK byte \in tokens[k] : TRUE
          BY <4>1
        <4>3. byte \in 0 .. 255 /\ tokens[k] = {byte}
          BY <4>1, <4>2 DEF AtMostOne
        <4>4. QED
          BY <4>3
      <3>2. The(tokens[k]) = byte
        BY <3>1 DEF The
      <3>3. /\ q \in [bytes : Seq(0 .. 255), thrown : BOOLEAN] /\ ~q.thrown /\ Len(q.bytes) = k - 1 /\ k - 1 <= size
            /\ \A j \in 1 .. k - 1 : tokens[j] = {q.bytes[j]}
        BY <2>3, <1>4 DEF q
      <3>4. p[k] = [q EXCEPT !.bytes = Append(@, byte)]
        BY <2>1, <2>3, <3>2 DEF StoreByte
      <3>5. p[k].bytes = Append(q.bytes, byte) /\ p[k].thrown = FALSE
            /\ p[k] \in [bytes : Seq(0 .. 255), thrown : BOOLEAN]
        <4>1. Append(q.bytes, byte) \in Seq(0 .. 255)
          BY <3>3
        <4>2. p[k] = [bytes |-> Append(q.bytes, byte), thrown |-> FALSE]
          BY <3>3, <3>4
        <4>3. QED
          BY <4>1, <4>2
      <3>6. Len(q.bytes) < size
        BY <2>3, <3>3
      <3>7. /\ Len(p[k].bytes) = k
            /\ \A j \in 1 .. k : p[k].bytes[j] = IF j = k THEN byte ELSE q.bytes[j]
        BY <3>3, <3>5
      <3>8. QED
        BY <3>1, <3>3, <3>5, <3>6, <3>7
    <2>4. QED
      BY <2>2, <2>3
  <1>5. Wrong = {}
    <2>1. SUFFICES ASSUME Wrong # {} PROVE FALSE
      OBVIOUS
    <2>2. PICK k \in Wrong : \A m \in Wrong : k <= m
      <3>1. Wrong \in SUBSET Nat
        BY <1>1
      <3> HIDE DEF Wrong
      <3>2. QED
        BY <2>1, <3>1, LeastNumber
    <2> HIDE DEF Parsed
    <2>3. k \in 1 .. Len(tokens) /\ k - 1 \in 0 .. Len(tokens) /\ k - 1 \notin Wrong
      BY <1>1, <1>3, <2>2
    <2>4. QED
      BY <1>4, <2>2, <2>3
  <1>6. Parsed(Len(tokens))
    BY <1>1, <1>5
  <1>7. p[Len(tokens)] = parseOsiSelector(tokens, size)
    BY DEF p, parseOsiSelector
  <1>8. QED
    BY <1>1, <1>6, <1>7

-----------------------------------------------------------------------------
(* Connections                                                              *)

\* Every connection takes one turn: it is appended or passed over.
LEMMA ImportingTurns ==
    ASSUME NEW s, Len(s.connections) \in Nat
    PROVE  /\ Importing(s)[0] = <<>>
           /\ \A i \in 1 .. Len(s.connections) :
                 \/ Importing(s)[i] = Importing(s)[i - 1]
                 \/ /\ ConnectionOutcome(s.connections[i]) = "imported"
                    /\ Importing(s)[i] = Append(Importing(s)[i - 1], RedGroup(s.connections[i]))
  <1> DEFINE n == Len(s.connections)
             Taken(i) == /\ ConnectionOutcome(s.connections[i]) = "imported"
                         /\ \A e \in Ending(s) : i < e
             Turn(i, groups) == IF Taken(i) THEN Append(groups, RedGroup(s.connections[i]))
                                ELSE groups
             Turns(g, k) == g = [i \in 0 .. k |-> IF i = 0 THEN <<>> ELSE Turn(i, g[i - 1])]
             Without == {k \in 0 .. n : ~\E g : Turns(g, k)}
  <1> HIDE DEF Turn, Turns
  <1>1. Without = {}
    <2>1. SUFFICES ASSUME Without # {} PROVE FALSE
      OBVIOUS
    <2>2. PICK k \in Without : \A m \in Without : k <= m
      <3>1. Without \in SUBSET Nat
        OBVIOUS
      <3> HIDE DEF Without
      <3>2. QED
        BY <2>1, <3>1, LeastNumber
    <2>3. CASE k = 0
      <3>1. Turns([i \in 0 .. 0 |-> <<>>], 0)
        BY DEF Turns
      <3>2. QED
        BY <2>2, <2>3, <3>1
    <2>4. CASE k # 0
      <3>1. k - 1 \in 0 .. n /\ k - 1 \notin Without
        BY <2>2, <2>4
      <3>2. PICK g : Turns(g, k - 1)
        BY <3>1
      <3> DEFINE h == [i \in 0 .. k |-> IF i = k THEN Turn(k, g[k - 1]) ELSE g[i]]
      <3>3. \A i \in 0 .. k : h[i] = IF i = 0 THEN <<>> ELSE Turn(i, h[i - 1])
        BY <2>2, <2>4, <3>2 DEF Turns
      <3>4. Turns(h, k)
        BY <3>3 DEF Turns
      <3>5. QED
        BY <2>2, <3>4
    <2>5. QED
      BY <2>3, <2>4
  <1>2. PICK g : Turns(g, n)
    BY <1>1
  <1>3. Turns(Importing(s), n)
    BY <1>2 DEF Importing, Turn, Turns
  <1>4. \A h : Turns(h, n) =>
            /\ h[0] = <<>>
            /\ \A i \in 1 .. n : h[i] = Turn(i, h[i - 1])
    BY DEF Turns
  <1>5. QED
    BY <1>3, <1>4 DEF Turn

\* The connections kept are connections of the stack, each once and in its order.
LEMMA GroupsOfConnections ==
    ASSUME NEW s, Len(s.connections) \in Nat
    PROVE  LET groups == Connections(s) IN
           \E at \in [DOMAIN groups -> 1 .. Len(s.connections)] :
               /\ \A i, j \in DOMAIN groups : i < j => at[i] < at[j]
               /\ \A i \in DOMAIN groups :
                     /\ ConnectionOutcome(s.connections[at[i]]) = "imported"
                     /\ groups[i] = RedGroup(s.connections[at[i]])
  <1> DEFINE n == Len(s.connections)
             g == Importing(s)
             Groups == {RedGroup(s.connections[i]) : i \in 1 .. n}
             From(k, at) ==
                 /\ \A i, j \in 1 .. Len(g[k]) : i < j => at[i] < at[j]
                 /\ \A i \in 1 .. Len(g[k]) :
                       /\ ConnectionOutcome(s.connections[at[i]]) = "imported"
                       /\ g[k][i] = RedGroup(s.connections[at[i]])
             Kept(k) == /\ g[k] \in Seq(Groups)
                        /\ \E at \in [1 .. Len(g[k]) -> 1 .. k] : From(k, at)
             Wrong == {k \in 0 .. n : ~Kept(k)}
  <1>1. /\ g[0] = <<>>
        /\ \A i \in 1 .. n :
               \/ g[i] = g[i - 1]
               \/ /\ ConnectionOutcome(s.connections[i]) = "imported"
                  /\ g[i] = Append(g[i - 1], RedGroup(s.connections[i]))
    BY ImportingTurns
  <1> HIDE DEF g
  <1>2. Kept(0)
    <2>1. g[0] \in Seq(Groups) /\ Len(g[0]) = 0
      BY <1>1
    <2>2. <<>> \in [1 .. Len(g[0]) -> 1 .. 0]
      BY <2>1
    <2>3. QED
      BY <2>1, <2>2
  <1>3. ASSUME NEW k \in 1 .. n, Kept(k - 1)
        PROVE  Kept(k)
    <2>1. g[k - 1] \in Seq(Groups) /\ k - 1 \in Nat
      BY <1>3
    <2>2. PICK at \in [1 .. Len(g[k - 1]) -> 1 .. k - 1] : From(k - 1, at)
      BY <1>3
    <2>3. CASE g[k] = g[k - 1]
      <3>1. at \in [1 .. Len(g[k]) -> 1 .. k]
        BY <2>1, <2>2, <2>3
      <3>2. QED
        BY <2>1, <2>2, <2>3, <3>1
    <2>4. CASE /\ ConnectionOutcome(s.connections[k]) = "imported"
               /\ g[k] = Append(g[k - 1], RedGroup(s.connections[k]))
      <3> DEFINE m == Len(g[k - 1])
                 next == [i \in 1 .. m + 1 |-> IF i = m + 1 THEN k ELSE at[i]]
      <3>1. RedGroup(s.connections[k]) \in Groups
        OBVIOUS
      <3> HIDE DEF Groups
      <3>2. /\ g[k] \in Seq(Groups) /\ m \in Nat /\ Len(g[k]) = m + 1
            /\ g[k][m + 1] = RedGroup(s.connections[k])
            /\ \A i \in 1 .. m : g[k][i] = g[k - 1][i]
        BY <2>1, <2>4, <3>1
      <3>3. next \in [1 .. m + 1 -> 1 .. k]
        BY <2>2, <3>2
      <3>4. \A i \in 1 .. m + 1 : next[i] = IF i = m + 1 THEN k ELSE at[i]
        OBVIOUS
      <3> HIDE DEF next
      <3>5. /\ \A i \in 1 .. m : at[i] \in 1 .. k - 1
            /\ \A i, j \in 1 .. m : i < j => at[i] < at[j]
        BY <2>2
      <3> HIDE DEF m
      <3>6. \A i, j \in 1 .. m + 1 : i < j => next[i] < next[j]
        BY <3>2, <3>4, <3>5
      <3>7. \A i \in 1 .. m + 1 :
                /\ ConnectionOutcome(s.connections[next[i]]) = "imported"
                /\ g[k][i] = RedGroup(s.connections[next[i]])
        BY <2>2, <2>4, <3>2, <3>4 DEF m
      <3>8. QED
        BY <3>2, <3>3, <3>6, <3>7
    <2>5. QED
      BY <1>1, <2>3, <2>4
  <1>4. Wrong = {}
    <2>1. SUFFICES ASSUME Wrong # {} PROVE FALSE
      OBVIOUS
    <2>2. PICK k \in Wrong : \A m \in Wrong : k <= m
      <3>1. Wrong \in SUBSET Nat
        OBVIOUS
      <3> HIDE DEF Wrong
      <3>2. QED
        BY <2>1, <3>1, LeastNumber
    <2> HIDE DEF Kept
    <2>3. k \in 1 .. n /\ k - 1 \in 0 .. n /\ k - 1 \notin Wrong
      BY <1>2, <2>2
    <2>4. QED
      BY <1>3, <2>2, <2>3
  <1>5. Kept(n)
    <2> HIDE DEF Kept
    <2>1. QED
      BY <1>4
  <1>6. Connections(s) = g[n] /\ DOMAIN g[n] = 1 .. Len(g[n])
    BY <1>5 DEF Connections, g
  <1>7. QED
    BY <1>5, <1>6
=============================================================================
