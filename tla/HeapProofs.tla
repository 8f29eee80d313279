----------------------------- MODULE HeapProofs -----------------------------
(***************************************************************************)
(* The heap, for every number of blocks, of pointers and of sizes.         *)
(***************************************************************************)
EXTENDS XMem, UmmIntegrity, TLAPS, FiniteSetTheorems, WellFoundedInduction

Headers == [Blocks -> Header \cup Data]
Bodies  == [Blocks -> Links \cup Data]
Memory  == [hdr : Headers, body : Bodies]

(* The blocks that start at S are a list upward from 0 to N - 1.           *)
Ahead(hdr, S, b) ==
  LET n == hdr[b].next
  IN  /\ n \in S /\ n > b /\ hdr[n].prev = b
      /\ \A s \in S : s <= b \/ n <= s
Behind(hdr, S, b) ==
  LET p == hdr[b].prev
  IN  p \in S /\ p < b /\ hdr[p].next = b
Chain(hdr, S) ==
  /\ S \subseteq Blocks /\ 0 \in S /\ 1 \in S /\ N - 1 \in S
  /\ \A b \in S : hdr[b] \in Header
  /\ \A b \in S \ {N - 1} : Ahead(hdr, S, b)
  /\ \A b \in S \ {0} : Behind(hdr, S, b)
  /\ hdr[N - 1].next = 0

(* F are the free ones.                                                    *)
Bits(hdr, S, F) ==
  /\ F \subseteq S \ {0, N - 1}
  /\ \A b \in S : hdr[b].free <=> b \in F

(* Block 0 and the free ones are one ring.                                 *)
Linked(body, b, R) ==
  /\ body[b] \in Links /\ body[b].next \in R /\ body[b].prev \in R
  /\ body[body[b].next].prev = b /\ body[body[b].prev].next = b
OneRing(body, R) ==
  \A T \in SUBSET R : 0 \in T /\ (\A b \in T : body[b].next \in T) => T = R
Ring(body, F) ==
  LET R == F \cup {0}
  IN  R \subseteq Blocks /\ (\A b \in R : Linked(body, b, R)) /\ OneRing(body, R)

Sound(m, S, F) ==
  /\ m \in Memory
  /\ Chain(m.hdr, S) /\ Bits(m.hdr, S, F) /\ Ring(m.body, F)

(* The start of each used block *)
Used(S, F) == S \ (F \cup {0, N - 1})

-----------------------------------------------------------------------------
LEMMA PutNext ==
  ASSUME NEW body \in Bodies, NEW b \in Blocks, body[b] \in Links, NEW n \in Blocks,
         NEW to, to = [body EXCEPT ![b].next = n]
  PROVE  /\ to \in Bodies /\ to[b] \in Links
         /\ to[b].next = n /\ to[b].prev = body[b].prev
         /\ \A x \in Blocks \ {b} : to[x] = body[x]
<1>1. to[b] = [body[b] EXCEPT !.next = n] /\ \A x \in Blocks \ {b} : to[x] = body[x]
  BY DEF Bodies
<1>2. /\ [body[b] EXCEPT !.next = n] \in Links
      /\ [body[b] EXCEPT !.next = n] = [next |-> n, prev |-> body[b].prev]
  BY DEF Links
<1>3. to \in Bodies
  BY <1>1, <1>2 DEF Bodies
<1> QED BY <1>1, <1>2, <1>3

LEMMA PutPrev ==
  ASSUME NEW body \in Bodies, NEW b \in Blocks, body[b] \in Links, NEW n \in Blocks,
         NEW to, to = [body EXCEPT ![b].prev = n]
  PROVE  /\ to \in Bodies /\ to[b] \in Links
         /\ to[b].prev = n /\ to[b].next = body[b].next
         /\ \A x \in Blocks \ {b} : to[x] = body[x]
<1>1. to[b] = [body[b] EXCEPT !.prev = n] /\ \A x \in Blocks \ {b} : to[x] = body[x]
  BY DEF Bodies
<1>2. /\ [body[b] EXCEPT !.prev = n] \in Links
      /\ [body[b] EXCEPT !.prev = n] = [next |-> body[b].next, prev |-> n]
  BY DEF Links
<1>3. to \in Bodies
  BY <1>1, <1>2 DEF Bodies
<1> QED BY <1>1, <1>2, <1>3

(* What the three changes of the free list write.                          *)
TakenOut(body, to, c, R) ==
  /\ to \in Bodies
  /\ \A b \in R : /\ to[b] \in Links
                  /\ to[b].next = IF b = body[c].prev THEN body[c].next ELSE body[b].next
                  /\ to[b].prev = IF b = body[c].next THEN body[c].prev ELSE body[b].prev
  /\ \A b \in Blocks \ R : to[b] = body[b]
PutIn(body, to, c, R) ==
  /\ to \in Bodies
  /\ \A b \in R \cup {c} :
       /\ to[b] \in Links
       /\ to[b].next = IF b = 0 THEN c ELSE IF b = c THEN body[0].next ELSE body[b].next
       /\ to[b].prev = IF b = body[0].next THEN c ELSE IF b = c THEN 0 ELSE body[b].prev
  /\ \A b \in Blocks \ (R \cup {c}) : to[b] = body[b]
Replaced(body, to, c, r, R) ==
  /\ to \in Bodies
  /\ \A b \in R \cup {r} :
       /\ to[b] \in Links
       /\ to[b].next = IF b = body[c].prev THEN r ELSE IF b = r THEN body[c].next ELSE body[b].next
       /\ to[b].prev = IF b = body[c].next THEN r ELSE IF b = r THEN body[c].prev ELSE body[b].prev
  /\ \A b \in Blocks \ (R \cup {r}) : to[b] = body[b]

LEMMA WritesTakeOut ==
  ASSUME NEW R \in SUBSET Blocks, NEW body \in Bodies, \A b \in R : Linked(body, b, R), NEW c \in R,
         NEW n, NEW p, n = body[c].next, p = body[c].prev
  PROVE  TakenOut(body, [body EXCEPT ![p].next = n, ![n].prev = p], c, R)
<1>1. n \in R /\ p \in R /\ n \in Blocks /\ p \in Blocks /\ \A b \in R : body[b] \in Links
  BY DEF Linked
<1> DEFINE one == [body EXCEPT ![p].next = n]
           two == [one EXCEPT ![n].prev = p]
<1>2. /\ one \in Bodies /\ one[p] \in Links /\ one[p].next = n /\ one[p].prev = body[p].prev
      /\ \A x \in Blocks \ {p} : one[x] = body[x]
  BY <1>1, PutNext
<1> HIDE DEF one
<1>3. one[n] \in Links
  BY <1>1, <1>2
<1>4. /\ two \in Bodies /\ two[n] \in Links /\ two[n].prev = p /\ two[n].next = one[n].next
      /\ \A x \in Blocks \ {n} : two[x] = one[x]
  BY <1>1, <1>2, <1>3, PutPrev
<1> HIDE DEF two
<1>5. TakenOut(body, two, c, R)
  BY <1>1, <1>2, <1>4 DEF TakenOut
<1> QED BY <1>5 DEF one, two

LEMMA WritesPutIn ==
  ASSUME NEW R \in SUBSET Blocks, NEW body \in Bodies, \A b \in R : Linked(body, b, R), 0 \in R,
         NEW c \in Blocks \ R, NEW n, n = body[0].next
  PROVE  PutIn(body, [body EXCEPT ![c] = [next |-> n, prev |-> 0], ![n].prev = c, ![0].next = c], c, R)
<1>1. n \in R /\ n \in Blocks /\ n # c /\ c # 0 /\ \A b \in R : body[b] \in Links
  BY DEF Linked
<1> DEFINE one == [body EXCEPT ![c] = [next |-> n, prev |-> 0]]
           two == [one EXCEPT ![n].prev = c]
           three == [two EXCEPT ![0].next = c]
<1>2. /\ one \in Bodies /\ one[c] = [next |-> n, prev |-> 0] /\ one[c] \in Links
      /\ \A x \in Blocks \ {c} : one[x] = body[x]
  BY <1>1 DEF Bodies, Links
<1> HIDE DEF one
<1>3. one[n] \in Links
  BY <1>1, <1>2
<1>4. /\ two \in Bodies /\ two[n] \in Links /\ two[n].prev = c /\ two[n].next = one[n].next
      /\ \A x \in Blocks \ {n} : two[x] = one[x]
  BY <1>1, <1>2, <1>3, PutPrev
<1> HIDE DEF two
<1>5. two[0] \in Links
  BY <1>1, <1>2, <1>4
<1>6. /\ three \in Bodies /\ three[0] \in Links /\ three[0].next = c /\ three[0].prev = two[0].prev
      /\ \A x \in Blocks \ {0} : three[x] = two[x]
  BY <1>1, <1>4, <1>5, PutNext
<1> HIDE DEF three
<1>7. PutIn(body, three, c, R)
  BY <1>1, <1>2, <1>4, <1>6 DEF PutIn
<1> QED BY <1>7 DEF one, two, three

LEMMA WritesReplace ==
  ASSUME NEW R \in SUBSET Blocks, NEW body \in Bodies, \A b \in R : Linked(body, b, R), NEW c \in R,
         NEW r \in Blocks \ R, NEW n, NEW p, n = body[c].next, p = body[c].prev
  PROVE  Replaced(body, [body EXCEPT ![r] = [next |-> n, prev |-> p], ![p].next = r, ![n].prev = r],
                  c, r, R)
<1>1. /\ n \in R /\ n \in Blocks /\ n # r /\ p \in R /\ p \in Blocks /\ p # r
      /\ \A b \in R : body[b] \in Links
  BY DEF Linked
<1> DEFINE one == [body EXCEPT ![r] = [next |-> n, prev |-> p]]
           two == [one EXCEPT ![p].next = r]
           three == [two EXCEPT ![n].prev = r]
<1>2. /\ one \in Bodies /\ one[r] = [next |-> n, prev |-> p] /\ one[r] \in Links
      /\ \A x \in Blocks \ {r} : one[x] = body[x]
  BY <1>1 DEF Bodies, Links
<1> HIDE DEF one
<1>3. one[p] \in Links
  BY <1>1, <1>2
<1>4. /\ two \in Bodies /\ two[p] \in Links /\ two[p].next = r /\ two[p].prev = one[p].prev
      /\ \A x \in Blocks \ {p} : two[x] = one[x]
  BY <1>1, <1>2, <1>3, PutNext
<1> HIDE DEF two
<1>5. two[n] \in Links
  BY <1>1, <1>2, <1>4
<1>6. /\ three \in Bodies /\ three[n] \in Links /\ three[n].prev = r /\ three[n].next = two[n].next
      /\ \A x \in Blocks \ {n} : three[x] = two[x]
  BY <1>1, <1>4, <1>5, PutPrev
<1> HIDE DEF three
<1>7. Replaced(body, three, c, r, R)
  BY <1>1, <1>2, <1>4, <1>6 DEF Replaced
<1> QED BY <1>7 DEF one, two, three

-----------------------------------------------------------------------------
(* The ring of the free blocks.                                            *)
LEMMA RingWithout ==
  ASSUME NEW F, NEW body, Ring(body, F), NEW c \in F, c # 0,
         NEW to, TakenOut(body, to, c, F \cup {0})
  PROVE  Ring(to, F \ {c}) /\ body[c].next # c /\ body[c].prev # c
<1> DEFINE R == F \cup {0}  R2 == (F \ {c}) \cup {0}  n == body[c].next  p == body[c].prev
<1>1. R \subseteq Blocks /\ (\A b \in R : Linked(body, b, R)) /\ OneRing(body, R)
  BY DEF Ring
<1>2. n \in R /\ p \in R /\ body[n].prev = c /\ body[p].next = c
  BY <1>1 DEF Linked
<1>3. n # c
  <2>1. ASSUME n = c PROVE FALSE
    <3>1. R \ {c} \in SUBSET R /\ 0 \in R \ {c}
      OBVIOUS
    <3>2. ASSUME NEW b \in R \ {c} PROVE body[b].next \in R \ {c}
      <4>1. Linked(body, b, R)
        BY <1>1
      <4>2. ASSUME body[b].next = c PROVE FALSE
        BY <4>1, <4>2, <1>2, <2>1 DEF Linked
      <4> QED BY <4>1, <4>2 DEF Linked
    <3>3. R \ {c} = R
      BY <3>1, <3>2, <1>1 DEF OneRing
    <3> QED BY <3>3
  <2> QED BY <2>1
<1>4. p # c
  BY <1>2, <1>3
<1>5. ASSUME NEW b \in R2 PROVE Linked(to, b, R2)
  <2>1. Linked(body, b, R) /\ Linked(body, c, R)
    BY <1>1
  <2>2. b # p => body[b].next # c /\ body[b].next # n
    BY <2>1 DEF Linked
  <2>3. b # n => body[b].prev # c /\ body[b].prev # p
    BY <2>1 DEF Linked
  <2> QED BY <1>2, <1>3, <1>4, <2>1, <2>2, <2>3 DEF Linked, TakenOut
<1>6. OneRing(to, R2)
  <2>1. \A b \in R2 : to[b].next = IF b = p THEN n ELSE body[b].next
    BY DEF TakenOut
  <2> SUFFICES ASSUME NEW T \in SUBSET R2, 0 \in T, \A b \in T : to[b].next \in T
               PROVE  T = R2
    BY DEF OneRing
  <2>2. CASE p \in T
    <3>1. \A b \in T \cup {c} : body[b].next \in T \cup {c}
      BY <2>1, <2>2, <1>2
    <3>2. T \cup {c} \in SUBSET R /\ 0 \in T \cup {c}
      OBVIOUS
    <3>3. T \cup {c} = R
      BY <3>1, <3>2, <1>1 DEF OneRing
    <3> QED BY <3>3
  <2>3. CASE p \notin T
    <3>1. \A b \in T : body[b].next \in T
      BY <2>1, <2>3
    <3>2. T = R
      BY <3>1, <1>1 DEF OneRing
    <3> QED BY <3>2
  <2> QED BY <2>2, <2>3
<1>7. Ring(to, F \ {c})
  BY <1>1, <1>5, <1>6 DEF Ring
<1> QED BY <1>3, <1>4, <1>7

LEMMA RingWith ==
  ASSUME NEW F, NEW body, Ring(body, F), NEW c \in Blocks \ (F \cup {0}),
         NEW to, PutIn(body, to, c, F \cup {0})
  PROVE  Ring(to, F \cup {c})
<1> DEFINE R == F \cup {0}  R2 == (F \cup {c}) \cup {0}  n == body[0].next
<1>1. R \subseteq Blocks /\ (\A b \in R : Linked(body, b, R)) /\ OneRing(body, R)
  BY DEF Ring
<1>2. n \in R /\ n # c /\ c # 0 /\ body[n].prev = 0
  BY <1>1 DEF Linked
<1>3. ASSUME NEW b \in R2 PROVE Linked(to, b, R2)
  <2>1. b # c => Linked(body, b, R)
    BY <1>1
  <2>2. b \notin {0, c} => body[b].next # n /\ body[b].next # c
    BY <2>1, <1>2 DEF Linked
  <2>3. b \notin {n, c} => body[b].prev # 0 /\ body[b].prev # c
    BY <2>1, <1>2 DEF Linked
  <2> QED BY <1>2, <2>1, <2>2, <2>3 DEF Linked, PutIn
<1>4. OneRing(to, R2)
  <2>1. \A b \in R2 : to[b].next = IF b = 0 THEN c ELSE IF b = c THEN n ELSE body[b].next
    BY DEF PutIn
  <2>2. \A b \in R : body[b].next \in R
    BY <1>1 DEF Linked
  <2> SUFFICES ASSUME NEW T \in SUBSET R2, 0 \in T, \A b \in T : to[b].next \in T
               PROVE  T = R2
    BY DEF OneRing
  <2>3. c \in T /\ n \in T
    BY <1>2, <2>1
  <2>4. T \ {c} \in SUBSET R /\ 0 \in T \ {c}
    OBVIOUS
  <2>5. \A b \in T \ {c} : body[b].next \in T \ {c}
    BY <1>2, <2>1, <2>2, <2>3, <2>4
  <2>6. T \ {c} = R
    BY <1>1, <2>4, <2>5 DEF OneRing
  <2> QED BY <2>3, <2>6
<1> QED BY <1>1, <1>3, <1>4 DEF Ring

(* Block r takes the place of block c.                                     *)
LEMMA RingReplaces ==
  ASSUME NEW F, NEW body, Ring(body, F), NEW c \in F, c # 0,
         body[c].next # c, body[c].prev # c,
         NEW r \in Blocks \ (F \cup {0}), NEW to, Replaced(body, to, c, r, F \cup {0})
  PROVE  Ring(to, (F \ {c}) \cup {r})
<1> DEFINE R == F \cup {0}  R2 == ((F \ {c}) \cup {r}) \cup {0}
           n == body[c].next  p == body[c].prev
<1>1. R \subseteq Blocks /\ (\A b \in R : Linked(body, b, R)) /\ OneRing(body, R)
  BY DEF Ring
<1>2. /\ n \in R /\ n # r /\ body[n].prev = c
      /\ p \in R /\ p # r /\ body[p].next = c
  BY <1>1 DEF Linked
<1>3. ASSUME NEW b \in R2 PROVE Linked(to, b, R2)
  <2>1. Linked(body, c, R) /\ (b # r => Linked(body, b, R))
    BY <1>1
  <2>2. b \notin {p, r} => body[b].next # n /\ body[b].next # c
    BY <2>1, <1>2 DEF Linked
  <2>3. b \notin {n, r} => body[b].prev # p /\ body[b].prev # c
    BY <2>1, <1>2 DEF Linked
  <2> QED BY <1>2, <2>1, <2>2, <2>3 DEF Linked, Replaced
<1>4. OneRing(to, R2)
  <2>1. \A b \in R2 : to[b].next = IF b = p THEN r ELSE IF b = r THEN n ELSE body[b].next
    BY DEF Replaced
  <2>2. \A b \in R : body[b].next \in R
    BY <1>1 DEF Linked
  <2> SUFFICES ASSUME NEW T \in SUBSET R2, 0 \in T, \A b \in T : to[b].next \in T
               PROVE  T = R2
    BY DEF OneRing
  <2>3. r \in T => n \in T
    BY <1>2, <2>1
  <2>4. p \in T => r \in T
    BY <2>1
  <2> DEFINE O == (T \ {r}) \cup (IF p \in T THEN {c} ELSE {})
  <2>5. O \in SUBSET R /\ 0 \in O
    OBVIOUS
  <2>6. ASSUME NEW b \in O PROVE body[b].next \in O
    <3>1. CASE b = c
      BY <3>1, <1>2, <2>3, <2>4
    <3>2. CASE b = p
      BY <3>2, <1>2
    <3>3. CASE b \notin {c, p}
      <4>1. b \in T /\ to[b].next \in T /\ to[b].next = body[b].next /\ body[b].next \in R
        BY <3>3, <2>1, <2>2, <2>5
      <4> QED BY <4>1
    <3> QED BY <3>1, <3>2, <3>3
  <2>7. O = R
    BY <1>1, <2>5, <2>6 DEF OneRing
  <2> QED BY <2>4, <2>7
<1> QED BY <1>1, <1>2, <1>3, <1>4 DEF Ring

LEMMA RingKept ==
  ASSUME NEW F, NEW body, Ring(body, F), NEW to, \A b \in F \cup {0} : to[b] = body[b]
  PROVE  Ring(to, F)
<1> DEFINE R == F \cup {0}
<1>1. \A b \in R : Linked(to, b, R)
  BY DEF Ring, Linked
<1>2. OneRing(to, R)
  BY DEF Ring, OneRing
<1> QED BY <1>1, <1>2 DEF Ring

-----------------------------------------------------------------------------
(* The chain of the blocks.                                                *)
Clean(hdr, S) == \A b \in S : ~hdr[b].mark

(* Block b takes its successor in.                                         *)
Merged(hdr, to, b, S) ==
  LET n == hdr[b].next
  IN  \A x \in S \ {n} :
        /\ to[x] \in Header
        /\ to[x].next = IF x = b THEN hdr[n].next ELSE hdr[x].next
        /\ to[x].prev = IF x = hdr[n].next THEN b ELSE hdr[x].prev
LEMMA ChainMerged ==
  ASSUME NEW S, NEW hdr, Chain(hdr, S), NEW b \in S \ {0, N - 1}, hdr[b].next # N - 1,
         NEW to, Merged(hdr, to, b, S)
  PROVE  Chain(to, S \ {hdr[b].next})
<1> DEFINE n == hdr[b].next  nn == hdr[n].next  S2 == S \ {n}
<1> USE HeapAssumption DEF Blocks
<1>1. /\ b \in Int /\ n \in S /\ n \in Int /\ n > b /\ nn \in S /\ nn \in Int /\ nn > n
      /\ hdr[n].prev = b /\ hdr[nn].prev = n
  <2>1. S \subseteq Int /\ Ahead(hdr, S, b)
    BY DEF Chain
  <2>2. n \in S \ {N - 1} /\ n > b
    BY <2>1 DEF Ahead
  <2>3. Ahead(hdr, S, n)
    BY <2>2 DEF Chain
  <2> QED BY <2>1, <2>2, <2>3 DEF Ahead
<1>2. S2 \subseteq Blocks /\ 0 \in S2 /\ 1 \in S2 /\ N - 1 \in S2 /\ b \in S2 /\ nn \in S2
  <2>1. S \subseteq 0 .. N - 1 /\ 0 \in S /\ 1 \in S /\ N - 1 \in S /\ n # 0 /\ n # 1
    BY <1>1 DEF Chain
  <2>2. b # n /\ nn # n /\ N - 1 # n
    BY <1>1
  <2> QED BY <1>1, <2>1, <2>2
<1>3. \A x \in S2 : to[x] \in Header
  BY DEF Merged
<1>4. ASSUME NEW x \in S2 \ {N - 1}
      PROVE  /\ to[x].next \in S2 /\ to[x].next > x /\ to[to[x].next].prev = x
             /\ \A s \in S2 : s <= x \/ to[x].next <= s
  <2>1. CASE x = b
    <3>1. /\ \A s \in S : s <= n \/ nn <= s
          /\ \A s \in S : s <= b \/ n <= s
      BY <1>1 DEF Chain, Ahead
    <3> QED BY <1>1, <1>2, <2>1, <3>1 DEF Merged
  <2>2. CASE x # b
    <3>1. /\ hdr[x].next \in S /\ hdr[x].next > x /\ hdr[hdr[x].next].prev = x
          /\ \A s \in S : s <= x \/ hdr[x].next <= s
      BY DEF Chain, Ahead
    <3>2. hdr[x].next # n /\ hdr[x].next # nn
      BY <1>1, <2>2, <3>1
    <3> QED BY <1>2, <2>2, <3>1, <3>2 DEF Merged
  <2> QED BY <2>1, <2>2
<1>5. ASSUME NEW x \in S2 \ {0}
      PROVE  to[x].prev \in S2 /\ to[x].prev < x /\ to[to[x].prev].next = x
  <2>1. CASE x = nn
    BY <1>1, <1>2, <2>1 DEF Merged
  <2>2. CASE x # nn
    <3>1. hdr[x].prev \in S /\ hdr[x].prev < x /\ hdr[hdr[x].prev].next = x
      BY DEF Chain, Behind
    <3>2. hdr[x].prev # n /\ hdr[x].prev # b
      BY <1>1, <2>2, <3>1
    <3> QED BY <1>2, <2>2, <3>1, <3>2 DEF Merged
  <2> QED BY <2>1, <2>2
<1>6. to[N - 1].next = 0
  <2>1. N - 1 \in S \ {n} /\ N - 1 # b /\ hdr[N - 1].next = 0
    BY <1>2 DEF Chain
  <2> QED BY <2>1 DEF Merged
<1> QED BY <1>2, <1>3, <1>4, <1>5, <1>6 DEF Chain, Ahead, Behind

(* Block c is cut after k blocks.                                          *)
Cut(hdr, to, c, k, S) ==
  \A x \in S \cup {c + k} :
    /\ to[x] \in Header
    /\ to[x].next = IF x = c THEN c + k ELSE IF x = c + k THEN hdr[c].next ELSE hdr[x].next
    /\ to[x].prev = IF x = c + k THEN c ELSE IF x = hdr[c].next THEN c + k ELSE hdr[x].prev
LEMMA ChainCut ==
  ASSUME NEW S, NEW hdr, Chain(hdr, S), NEW c \in S \ {N - 1},
         NEW k \in Nat \ {0}, c + k < hdr[c].next,
         NEW to, Cut(hdr, to, c, k, S)
  PROVE  Chain(to, S \cup {c + k}) /\ c + k \in Blocks \ S
<1> DEFINE n == hdr[c].next  r == c + k  S2 == S \cup {r}
<1> USE HeapAssumption DEF Blocks
<1>1. /\ c \in Int /\ n \in S /\ n \in 0 .. N - 1 /\ n > c /\ hdr[n].prev = c
      /\ \A s \in S : s <= c \/ n <= s
  <2>1. S \subseteq Blocks /\ Ahead(hdr, S, c)
    BY DEF Chain
  <2>2. n \in S /\ n > c /\ hdr[n].prev = c /\ \A s \in S : s <= c \/ n <= s
    BY <2>1 DEF Ahead
  <2>3. S \subseteq 0 .. N - 1 /\ n \in S
    BY <2>1, <2>2
  <2>4. \A x \in S : x \in 0 .. N - 1 /\ x \in Int
    BY <2>3
  <2>5. c \in Int /\ n \in 0 .. N - 1
    BY <2>3, <2>4
  <2> QED BY <2>2, <2>5
<1>2. r \in Blocks \ S /\ r # c /\ r # n /\ r # 0 /\ r # N - 1
  BY <1>1 DEF Chain
<1>3. S2 \subseteq Blocks /\ 0 \in S2 /\ 1 \in S2 /\ N - 1 \in S2
  BY <1>2 DEF Chain
<1>4. \A x \in S2 : to[x] \in Header
  BY DEF Cut
<1>5. ASSUME NEW x \in S2 \ {N - 1}
      PROVE  /\ to[x].next \in S2 /\ to[x].next > x /\ to[to[x].next].prev = x
             /\ \A s \in S2 : s <= x \/ to[x].next <= s
  <2>1. CASE x = c
    BY <1>1, <1>2, <2>1 DEF Cut
  <2>2. CASE x = r
    BY <1>1, <1>2, <2>2 DEF Cut
  <2>3. CASE x \notin {c, r}
    <3>1. /\ hdr[x].next \in S /\ hdr[x].next > x /\ hdr[hdr[x].next].prev = x
          /\ \A s \in S : s <= x \/ hdr[x].next <= s
      BY <2>3 DEF Chain, Ahead
    <3>2. hdr[x].next # n /\ x \in Int /\ hdr[x].next \in Int
      BY <1>1, <2>3, <3>1, <1>3
    <3>3. r <= x \/ hdr[x].next <= r
      BY <1>1, <1>2, <2>3, <3>1, <3>2
    <3> QED BY <1>2, <2>3, <3>1, <3>2, <3>3 DEF Cut
  <2> QED BY <2>1, <2>2, <2>3
<1>6. ASSUME NEW x \in S2 \ {0}
      PROVE  to[x].prev \in S2 /\ to[x].prev < x /\ to[to[x].prev].next = x
  <2>1. CASE x = r
    BY <1>1, <1>2, <2>1 DEF Cut
  <2>2. CASE x = n
    BY <1>1, <1>2, <2>2 DEF Cut
  <2>3. CASE x \notin {n, r}
    <3>1. hdr[x].prev \in S /\ hdr[x].prev < x /\ hdr[hdr[x].prev].next = x
      BY <2>3 DEF Chain, Behind
    <3>2. hdr[x].prev # c
      BY <1>1, <2>3, <3>1
    <3> QED BY <1>2, <2>3, <3>1, <3>2 DEF Cut
  <2> QED BY <2>1, <2>2, <2>3
<1>7. to[N - 1].next = 0
  <2>1. N - 1 \in S2 /\ N - 1 \notin {c, r} /\ hdr[N - 1].next = 0
    BY <1>2 DEF Chain
  <2> QED BY <2>1 DEF Cut
<1> QED BY <1>2, <1>3, <1>4, <1>5, <1>6, <1>7 DEF Chain, Ahead, Behind

LEMMA ChainKept ==
  ASSUME NEW S, NEW hdr, Chain(hdr, S), NEW to,
         \A b \in S : to[b] \in Header /\ to[b].next = hdr[b].next /\ to[b].prev = hdr[b].prev
  PROVE  Chain(to, S)
BY HeapAssumption DEF Chain, Ahead, Behind, Blocks

(* A header written.                                                       *)
Wrote(hdr, to, b, h) ==
  h \in Header /\ to \in Headers /\ to[b] = h /\ \A x \in Blocks \ {b} : to[x] = hdr[x]
LEMMA PutHeader ==
  ASSUME NEW hdr \in Headers, NEW b \in Blocks, hdr[b] \in Header,
         NEW n \in Blocks, NEW v \in BOOLEAN,
         NEW h, h = hdr[b]
  PROVE  /\ Wrote(hdr, [hdr EXCEPT ![b].next = n], b,
                  [next |-> n, free |-> h.free, prev |-> h.prev, mark |-> h.mark])
         /\ Wrote(hdr, [hdr EXCEPT ![b].prev = n], b,
                  [next |-> h.next, free |-> h.free, prev |-> n, mark |-> h.mark])
         /\ Wrote(hdr, [hdr EXCEPT ![b].free = v], b,
                  [next |-> h.next, free |-> v, prev |-> h.prev, mark |-> h.mark])
         /\ Wrote(hdr, [hdr EXCEPT ![b].mark = v], b,
                  [next |-> h.next, free |-> h.free, prev |-> h.prev, mark |-> v])
<1>1. h.next \in Blocks /\ h.prev \in Blocks /\ h.free \in BOOLEAN /\ h.mark \in BOOLEAN
  BY DEF Header
<1>2. ASSUME NEW g \in Header, NEW to, to = [hdr EXCEPT ![b] = g]
      PROVE  Wrote(hdr, to, b, g)
  BY <1>2 DEF Wrote, Headers
<1>3. /\ [h EXCEPT !.next = n] = [next |-> n, free |-> h.free, prev |-> h.prev, mark |-> h.mark]
      /\ [h EXCEPT !.next = n] \in Header
  BY <1>1 DEF Header
<1>4. /\ [h EXCEPT !.prev = n] = [next |-> h.next, free |-> h.free, prev |-> n, mark |-> h.mark]
      /\ [h EXCEPT !.prev = n] \in Header
  BY <1>1 DEF Header
<1>5. /\ [h EXCEPT !.free = v] = [next |-> h.next, free |-> v, prev |-> h.prev, mark |-> h.mark]
      /\ [h EXCEPT !.free = v] \in Header
  BY <1>1 DEF Header
<1>6. /\ [h EXCEPT !.mark = v] = [next |-> h.next, free |-> h.free, prev |-> h.prev, mark |-> v]
      /\ [h EXCEPT !.mark = v] \in Header
  BY <1>1 DEF Header
<1> QED BY <1>2, <1>3, <1>4, <1>5, <1>6

-----------------------------------------------------------------------------
(* The operators keep the two lists.                                       *)
Touched(m, to, H, B) ==
  /\ \A x \in Blocks \ H : to.hdr[x] = m.hdr[x]
  /\ \A x \in Blocks \ B : to.body[x] = m.body[x]

SoundTypes(m, S, F) ==
  /\ m.hdr \in Headers /\ m.body \in Bodies
  /\ F \cup {0} \subseteq Blocks /\ F \subseteq S /\ S \subseteq Blocks
  /\ \A b \in F \cup {0} : Linked(m.body, b, F \cup {0})
  /\ \A b \in S : m.hdr[b] \in Header /\ (m.hdr[b].free <=> b \in F)
  /\ 0 \notin F /\ N - 1 \notin F
  /\ Chain(m.hdr, S) /\ Bits(m.hdr, S, F) /\ Ring(m.body, F)
LEMMA SoundHasTypes ==
  ASSUME NEW m, NEW S, NEW F, Sound(m, S, F)
  PROVE  SoundTypes(m, S, F)
BY DEF Sound, Memory, Chain, Bits, Ring, SoundTypes

(* The headers' other fields stay.                                         *)
SameChain(m, to, S) ==
  \A x \in S : /\ to.hdr[x].next = m.hdr[x].next
               /\ to.hdr[x].prev = m.hdr[x].prev
               /\ to.hdr[x].mark = m.hdr[x].mark

LEMMA WroteThere ==
  ASSUME NEW hdr, NEW to, NEW b, NEW x, NEW free, NEW p, NEW mark,
         Wrote(hdr, to, b, [next |-> x, free |-> free, prev |-> p, mark |-> mark])
  PROVE  /\ to \in Headers /\ to[b] \in Header
         /\ to[b].next = x /\ to[b].free = free /\ to[b].prev = p /\ to[b].mark = mark
BY DEF Wrote

LEMMA WroteElsewhere ==
  ASSUME NEW hdr, NEW to, NEW b, NEW h, Wrote(hdr, to, b, h), NEW x \in Blocks, x # b
  PROVE  to[x] = hdr[x]
BY DEF Wrote

(* Free block c is unlinked and used.                                      *)
Unlinked(m, to, S, F, c) ==
  Sound(to, S, F \ {c}) /\ Touched(m, to, {c}, F \cup {0}) /\ SameChain(m, to, S)
LEMMA DisconnectSound ==
  ASSUME NEW m, NEW S, NEW F, Sound(m, S, F), NEW c \in F,
         NEW to, to = Disconnect(m, c)
  PROVE  Unlinked(m, to, S, F, c)
<1> DEFINE n == m.body[c].next  p == m.body[c].prev  h == m.hdr[c]  R == F \cup {0}
           hdr == [m.hdr EXCEPT ![c].free = FALSE]
           body == [m.body EXCEPT ![p].next = n, ![n].prev = p]
<1>0. SoundTypes(m, S, F)
  BY SoundHasTypes
<1>1. to = [hdr |-> hdr, body |-> body]
  BY DEF Disconnect
<1>2. /\ m.hdr \in Headers /\ m.body \in Bodies /\ R \subseteq Blocks
      /\ c \in S /\ c \in Blocks /\ S \subseteq Blocks
      /\ h \in Header /\ \A b \in R : Linked(m.body, b, R)
  BY <1>0 DEF SoundTypes
<1>3. Wrote(m.hdr, hdr, c, [next |-> h.next, free |-> FALSE, prev |-> h.prev, mark |-> h.mark])
  BY <1>2, PutHeader
<1>4. TakenOut(m.body, body, c, R)
  BY <1>2, WritesTakeOut
<1> HIDE DEF hdr, body
<1>5. /\ hdr \in Headers /\ body \in Bodies
      /\ hdr[c] \in Header /\ hdr[c].next = h.next /\ hdr[c].prev = h.prev
      /\ hdr[c].mark = h.mark /\ ~hdr[c].free
      /\ \A x \in Blocks \ {c} : hdr[x] = m.hdr[x]
      /\ \A x \in Blocks \ R : body[x] = m.body[x]
  BY <1>3, <1>4 DEF Wrote, TakenOut
<1>6. to \in Memory /\ to.hdr = hdr /\ to.body = body
  BY <1>1, <1>5 DEF Memory
<1>7. \A x \in S : /\ hdr[x] \in Header /\ hdr[x].next = m.hdr[x].next
                   /\ hdr[x].prev = m.hdr[x].prev /\ hdr[x].mark = m.hdr[x].mark
  BY <1>0, <1>2, <1>5 DEF SoundTypes
<1>8. Chain(hdr, S)
  <2>1. Chain(m.hdr, S)
    BY <1>0 DEF SoundTypes
  <2> QED BY <1>7, <2>1, ChainKept
<1>9. Bits(hdr, S, F \ {c})
  BY <1>0, <1>2, <1>5 DEF SoundTypes, Bits
<1>10. Ring(body, F \ {c})
  <2>1. Ring(m.body, F) /\ c # 0
    BY <1>0 DEF SoundTypes
  <2> QED BY <1>4, <2>1, RingWithout
<1> QED BY <1>5, <1>6, <1>7, <1>8, <1>9, <1>10 DEF Sound, Touched, SameChain, Unlinked

(* Used block c is put in the free list.                                   *)
Pushed(m, to, S, F, c) ==
  Sound(to, S, F \cup {c}) /\ Touched(m, to, {c}, F \cup {0, c}) /\ SameChain(m, to, S)
LEMMA PushFreeSound ==
  ASSUME NEW m, NEW S, NEW F, Sound(m, S, F), NEW c \in Used(S, F),
         NEW to, to = PushFree(m, c)
  PROVE  Pushed(m, to, S, F, c)
<1> DEFINE n == m.body[0].next  h == m.hdr[c]  R == F \cup {0}
           hdr == [m.hdr EXCEPT ![c].free = TRUE]
           body == [m.body EXCEPT ![c] = [next |-> n, prev |-> 0], ![n].prev = c, ![0].next = c]
<1>0. SoundTypes(m, S, F)
  BY SoundHasTypes
<1>1. to = [hdr |-> hdr, body |-> body]
  BY DEF PushFree
<1>2. /\ m.hdr \in Headers /\ m.body \in Bodies /\ R \subseteq Blocks
      /\ c \in S /\ c \in Blocks \ R /\ c # N - 1 /\ S \subseteq Blocks
      /\ h \in Header /\ \A b \in R : Linked(m.body, b, R)
  BY <1>0 DEF SoundTypes, Used
<1>3. Wrote(m.hdr, hdr, c, [next |-> h.next, free |-> TRUE, prev |-> h.prev, mark |-> h.mark])
  BY <1>2, PutHeader
<1>4. PutIn(m.body, body, c, R)
  BY <1>2, WritesPutIn
<1> HIDE DEF hdr, body
<1>5. /\ hdr \in Headers /\ body \in Bodies
      /\ hdr[c] \in Header /\ hdr[c].next = h.next /\ hdr[c].prev = h.prev
      /\ hdr[c].mark = h.mark /\ hdr[c].free
      /\ \A x \in Blocks \ {c} : hdr[x] = m.hdr[x]
      /\ \A x \in Blocks \ (R \cup {c}) : body[x] = m.body[x]
  BY <1>3, <1>4 DEF Wrote, PutIn
<1>6. to \in Memory /\ to.hdr = hdr /\ to.body = body
  BY <1>1, <1>5 DEF Memory
<1>7. \A x \in S : /\ hdr[x] \in Header /\ hdr[x].next = m.hdr[x].next
                   /\ hdr[x].prev = m.hdr[x].prev /\ hdr[x].mark = m.hdr[x].mark
  BY <1>0, <1>2, <1>5 DEF SoundTypes
<1>8. Chain(hdr, S)
  <2>1. Chain(m.hdr, S)
    BY <1>0 DEF SoundTypes
  <2> QED BY <1>7, <2>1, ChainKept
<1>9. Bits(hdr, S, F \cup {c})
  BY <1>0, <1>2, <1>5 DEF SoundTypes, Bits
<1>10. Ring(body, F \cup {c})
  <2>1. Ring(m.body, F)
    BY <1>0 DEF SoundTypes
  <2> QED BY <1>2, <1>4, <2>1, RingWith
<1> QED BY <1>5, <1>6, <1>7, <1>8, <1>9, <1>10 DEF Sound, Touched, SameChain, Pushed

(* A used block takes in a free one after it.                              *)
TookNext(m, to, S, F, c, n) ==
  LET nn == m.hdr[n].next
  IN  /\ Sound(to, S \ {n}, F \ {n})
      /\ to.hdr[c].next = nn /\ to.hdr[c].prev = m.hdr[c].prev
      /\ nn \in S /\ nn > n
      /\ Touched(m, to, {c, n, nn}, F \cup {0})
      /\ \A x \in S \ {c, n} : to.hdr[x].next = m.hdr[x].next
      /\ Clean(m.hdr, S) => Clean(to.hdr, S \ {n})
LEMMA AssimilateUpSound ==
  ASSUME NEW m, NEW S, NEW F, Sound(m, S, F), NEW c \in Used(S, F), NEW n, n = m.hdr[c].next,
         n \in F, NEW to, to = AssimilateUp(m, c)
  PROVE  TookNext(m, to, S, F, c, n)
<1> DEFINE nn == m.hdr[n].next  d == Disconnect(m, n)
           one == [d.hdr EXCEPT ![nn].prev = c]
           two == [one EXCEPT ![nn].mark = FALSE]
           hdr == [two EXCEPT ![c].next = nn]
<1>0. SoundTypes(m, S, F)
  BY SoundHasTypes
<1>1. /\ n \in S /\ n \in Blocks /\ c \in S /\ c \in Blocks /\ S \subseteq Blocks /\ c # N - 1 /\ n # N - 1
      /\ c # 0
  BY <1>0 DEF SoundTypes, Used
<1>2. nn \in S /\ nn \in Blocks /\ nn > n /\ n > c /\ c \in Int /\ n \in Int /\ nn \in Int
  <2>1. Ahead(m.hdr, S, c) /\ Ahead(m.hdr, S, n)
    BY <1>0, <1>1 DEF SoundTypes, Chain
  <2> QED BY <1>1, <2>1 DEF Ahead, Blocks
<1> HIDE DEF nn
<1>3. m.hdr[n].free
  BY <1>0, <1>1 DEF SoundTypes
<1>4. Unlinked(m, d, S, F, n)
  BY DisconnectSound
<1>5. to = [hdr |-> hdr, body |-> d.body]
  BY <1>3 DEF AssimilateUp, nn
<1> HIDE DEF d
<1>4a. SoundTypes(d, S, F \ {n})
  BY <1>4, SoundHasTypes DEF Unlinked
<1>4b. SameChain(m, d, S)
  BY <1>4 DEF Unlinked
<1>6. d.hdr \in Headers /\ d.body \in Bodies /\ \A x \in S : d.hdr[x] \in Header
  BY <1>4a DEF SoundTypes
<1>7. Wrote(d.hdr, one, nn, [next |-> d.hdr[nn].next, free |-> d.hdr[nn].free, prev |-> c, mark |-> d.hdr[nn].mark])
  BY <1>1, <1>2, <1>6, PutHeader
<1> HIDE DEF one
<1>8. one \in Headers /\ one[nn] \in Header
  BY <1>7 DEF Wrote
<1>9. Wrote(one, two, nn, [next |-> one[nn].next, free |-> one[nn].free, prev |-> one[nn].prev, mark |-> FALSE])
  BY <1>2, <1>8, PutHeader
<1> HIDE DEF two
<1>10. two \in Headers /\ two[c] = d.hdr[c] /\ two[c] \in Header
  <2>0. c \in Blocks /\ c # nn
    BY <1>1, <1>2
  <2>1. two \in Headers /\ two[c] = one[c]
    BY <1>9, <2>0 DEF Wrote
  <2>2. one[c] = d.hdr[c]
    BY <1>7, <2>0 DEF Wrote
  <2>3. d.hdr[c] \in Header
    BY <1>1, <1>6
  <2> QED BY <2>1, <2>2, <2>3
<1>11. Wrote(two, hdr, c, [next |-> nn, free |-> two[c].free, prev |-> two[c].prev, mark |-> two[c].mark])
  BY <1>1, <1>2, <1>10, PutHeader
<1> HIDE DEF hdr
<1>12. /\ hdr \in Headers
       /\ hdr[nn] \in Header /\ hdr[nn].next = d.hdr[nn].next /\ hdr[nn].prev = c
       /\ hdr[nn].free = d.hdr[nn].free /\ ~hdr[nn].mark
  <2>1. hdr \in Headers /\ hdr[nn] = two[nn]
    BY <1>2, <1>11 DEF Wrote
  <2>2. /\ two[nn] \in Header /\ two[nn].next = one[nn].next /\ two[nn].prev = one[nn].prev
        /\ two[nn].free = one[nn].free /\ two[nn].mark = FALSE
    BY <1>9, WroteThere
  <2>3. /\ one[nn].next = d.hdr[nn].next /\ one[nn].prev = c /\ one[nn].free = d.hdr[nn].free
    BY <1>7, WroteThere
  <2> QED BY <2>1, <2>2, <2>3
<1>13. /\ hdr[c] \in Header /\ hdr[c].next = nn /\ hdr[c].prev = d.hdr[c].prev
       /\ hdr[c].free = d.hdr[c].free /\ hdr[c].mark = d.hdr[c].mark
  BY <1>10, <1>11 DEF Wrote
<1>14. \A x \in Blocks \ {c, nn} : hdr[x] = d.hdr[x]
  BY <1>7, <1>9, <1>11 DEF Wrote
<1>15. to \in Memory /\ to.hdr = hdr /\ to.body = d.body
  BY <1>5, <1>6, <1>12 DEF Memory
<1>16. Merged(d.hdr, hdr, c, S)
  <2>1. d.hdr[c].next = n /\ d.hdr[n].next = nn
    BY <1>1, <1>4b DEF SameChain, nn
  <2>2. ASSUME NEW x \in S \ {n}
        PROVE  /\ hdr[x] \in Header
               /\ hdr[x].next = IF x = c THEN nn ELSE d.hdr[x].next
               /\ hdr[x].prev = IF x = nn THEN c ELSE d.hdr[x].prev
    BY <1>1, <1>2, <1>6, <1>12, <1>13, <1>14
  <2> QED BY <2>1, <2>2 DEF Merged
<1>17. Chain(hdr, S \ {n})
  <2>1. Chain(d.hdr, S) /\ d.hdr[c].next = n /\ c \in S \ {N - 1}
    BY <1>1, <1>4a, <1>4b DEF SoundTypes, SameChain
  <2> QED BY <1>1, <1>16, <2>1, ChainMerged
<1>18. Bits(hdr, S \ {n}, F \ {n})
  <2>1. Bits(d.hdr, S, F \ {n})
    BY <1>4a DEF SoundTypes
  <2>2. \A x \in S \ {n} : hdr[x].free = d.hdr[x].free
    BY <1>1, <1>12, <1>13, <1>14
  <2> QED BY <2>1, <2>2 DEF Bits
<1>19. Touched(m, to, {c, n, nn}, F \cup {0})
  BY <1>4, <1>14, <1>15 DEF Touched, Unlinked
<1>20. \A x \in S \ {c, n} : hdr[x].next = m.hdr[x].next
  <2>1. ASSUME NEW x \in S \ {c, n} PROVE hdr[x].next = m.hdr[x].next
    <3>1. hdr[x].next = d.hdr[x].next
      BY <1>1, <1>12, <1>14
    <3>2. d.hdr[x].next = m.hdr[x].next
      BY <1>4b DEF SameChain
    <3> QED BY <3>1, <3>2
  <2> QED BY <2>1
<1>21. Clean(m.hdr, S) => Clean(hdr, S \ {n})
  <2>1. ASSUME NEW x \in S \ {n}, hdr[x].mark PROVE m.hdr[x].mark
    <3>1. d.hdr[x].mark
      BY <1>1, <1>12, <1>13, <1>14, <2>1
    <3> QED BY <1>4b, <3>1 DEF SameChain
  <2> QED BY <2>1 DEF Clean
<1>22. Sound(to, S \ {n}, F \ {n})
  BY <1>4, <1>15, <1>17, <1>18 DEF Sound, Unlinked
<1>23. hdr[c].next = nn /\ hdr[c].prev = m.hdr[c].prev
  BY <1>1, <1>4b, <1>13 DEF SameChain
<1> QED BY <1>2, <1>15, <1>19, <1>20, <1>21, <1>22, <1>23 DEF TookNext, nn

(* A used block is taken in by the one before it, which is not on the free *)
(* list or is to stay there.                                               *)
TookIn(m, to, S, F, c, p) ==
  LET n == m.hdr[c].next
  IN  /\ Sound(to, S \ {c}, F)
      /\ to.hdr[p].next = n /\ to.hdr[p].prev = m.hdr[p].prev
      /\ n \in S /\ n > c
      /\ Touched(m, to, {p, n}, {})
      /\ \A x \in S \ {c, p} : to.hdr[x].next = m.hdr[x].next
      /\ Clean(m.hdr, S) => Clean(to.hdr, S \ {c})
LEMMA AssimilateDownSound ==
  ASSUME NEW m, NEW S, NEW F, Sound(m, S, F), NEW c \in Used(S, F),
         m.hdr[c].prev # 0, NEW v \in BOOLEAN, v <=> m.hdr[c].prev \in F,
         NEW to, to = AssimilateDown(m, c, v)
  PROVE  TookIn(m, to, S, F, c, m.hdr[c].prev) /\ m.hdr[c].prev \in S
<1> DEFINE n == m.hdr[c].next  p == m.hdr[c].prev
           one == [m.hdr EXCEPT ![p].next = n]
           two == [one EXCEPT ![p].free = v]
           three == [two EXCEPT ![n].prev = p]
           hdr == [three EXCEPT ![n].mark = m.hdr[c].mark]
<1>0. SoundTypes(m, S, F)
  BY SoundHasTypes
<1>1. /\ m.hdr \in Headers /\ \A x \in S : m.hdr[x] \in Header
      /\ c \in S /\ c \in Blocks /\ S \subseteq Blocks /\ c # N - 1 /\ c # 0 /\ c \notin F
  BY <1>0 DEF SoundTypes, Used
<1>2. /\ p \in S /\ p \in Blocks /\ n \in S /\ n \in Blocks /\ p < c /\ c < n
      /\ c \in Int /\ n \in Int /\ p \in Int /\ m.hdr[p].next = c /\ m.hdr[n].prev = c
      /\ p # N - 1
  <2>1. Ahead(m.hdr, S, c) /\ Behind(m.hdr, S, c) /\ S \subseteq 0 .. N - 1
    BY <1>0, <1>1 DEF SoundTypes, Chain, Blocks
  <2>2. p \in S /\ n \in S /\ p < c /\ c < n /\ m.hdr[p].next = c /\ m.hdr[n].prev = c
    BY <2>1 DEF Ahead, Behind
  <2>3. \A x \in S : x \in Int /\ x <= N - 1 /\ x \in Blocks
    BY <1>1, <2>1
  <2>4. N \in Int /\ c \in Int /\ n \in Int /\ p \in Int /\ n <= N - 1 /\ p \in Blocks /\ n \in Blocks
    BY HeapAssumption, <1>1, <2>2, <2>3
  <2> QED BY <2>2, <2>4
<1>3. to = [hdr |-> hdr, body |-> m.body]
  BY Zenon DEF AssimilateDown
<1>4. Wrote(m.hdr, one, p, [next |-> n, free |-> m.hdr[p].free, prev |-> m.hdr[p].prev, mark |-> m.hdr[p].mark])
  BY <1>1, <1>2, PutHeader
<1> HIDE DEF one
<1>5. one \in Headers /\ one[p] \in Header
  BY <1>4 DEF Wrote
<1>6. Wrote(one, two, p, [next |-> one[p].next, free |-> v, prev |-> one[p].prev, mark |-> one[p].mark])
  BY <1>2, <1>5, PutHeader
<1> HIDE DEF two
<1>7. two \in Headers /\ two[n] = m.hdr[n] /\ two[n] \in Header
  <2>1. n \in Blocks \ {p}
    BY <1>2
  <2>2. two \in Headers /\ two[n] = one[n]
    BY <1>6, <2>1 DEF Wrote
  <2>3. one[n] = m.hdr[n]
    BY <1>4, <2>1 DEF Wrote
  <2> QED BY <1>1, <1>2, <2>2, <2>3
<1>8. Wrote(two, three, n, [next |-> two[n].next, free |-> two[n].free, prev |-> p, mark |-> two[n].mark])
  BY <1>2, <1>7, PutHeader
<1> HIDE DEF three
<1>9. three \in Headers /\ three[n] \in Header /\ m.hdr[c].mark \in BOOLEAN
  BY <1>1, <1>8 DEF Wrote, Header
<1>10. Wrote(three, hdr, n, [next |-> three[n].next, free |-> three[n].free, prev |-> three[n].prev, mark |-> m.hdr[c].mark])
  BY <1>2, <1>9, PutHeader
<1> HIDE DEF hdr
<1>11. /\ hdr \in Headers
       /\ hdr[n] \in Header /\ hdr[n].next = m.hdr[n].next /\ hdr[n].prev = p
       /\ hdr[n].free = m.hdr[n].free /\ hdr[n].mark = m.hdr[c].mark
  <2>1. /\ hdr \in Headers /\ hdr[n] \in Header /\ hdr[n].next = three[n].next
        /\ hdr[n].prev = three[n].prev /\ hdr[n].free = three[n].free /\ hdr[n].mark = m.hdr[c].mark
    BY <1>10 DEF Wrote
  <2>2. three[n].next = two[n].next /\ three[n].prev = p /\ three[n].free = two[n].free
    BY <1>8 DEF Wrote
  <2> QED BY <1>7, <2>1, <2>2
<1>12. /\ hdr[p] \in Header /\ hdr[p].next = n /\ hdr[p].prev = m.hdr[p].prev
       /\ hdr[p].free = v /\ hdr[p].mark = m.hdr[p].mark
  <2>1. p \in Blocks \ {n}
    BY <1>2
  <2>2. hdr[p] = three[p]
    BY <1>10, <2>1 DEF Wrote
  <2>3. three[p] = two[p]
    BY <1>8, <2>1 DEF Wrote
  <2>4. /\ two[p] \in Header /\ two[p].next = one[p].next /\ two[p].prev = one[p].prev
        /\ two[p].free = v /\ two[p].mark = one[p].mark
    BY <1>6 DEF Wrote
  <2>5. one[p].next = n /\ one[p].prev = m.hdr[p].prev /\ one[p].mark = m.hdr[p].mark
    BY <1>4 DEF Wrote
  <2> QED BY <2>2, <2>3, <2>4, <2>5
<1>13. \A x \in Blocks \ {p, n} : hdr[x] = m.hdr[x]
  BY <1>4, <1>6, <1>8, <1>10 DEF Wrote
<1>14. to \in Memory /\ to.hdr = hdr /\ to.body = m.body
  BY <1>0, <1>3, <1>11 DEF Memory, SoundTypes
<1>15. Merged(m.hdr, hdr, p, S)
  <2>1. ASSUME NEW x \in S \ {c}
        PROVE  /\ hdr[x] \in Header
               /\ hdr[x].next = IF x = p THEN n ELSE m.hdr[x].next
               /\ hdr[x].prev = IF x = n THEN p ELSE m.hdr[x].prev
    BY <1>1, <1>2, <1>11, <1>12, <1>13
  <2> QED BY <1>2, <2>1 DEF Merged
<1>16. Chain(hdr, S \ {c})
  <2>1. Chain(m.hdr, S) /\ p \in S \ {N - 1} /\ m.hdr[p].next = c
    BY <1>0, <1>2 DEF SoundTypes
  <2> QED BY <1>1, <1>15, <2>1, ChainMerged
<1>17. Bits(hdr, S \ {c}, F)
  <2>1. Bits(m.hdr, S, F)
    BY <1>0 DEF SoundTypes
  <2>2. \A x \in S \ {c, p} : hdr[x].free = m.hdr[x].free
    BY <1>1, <1>2, <1>11, <1>13
  <2> QED BY <1>1, <1>2, <1>12, <2>1, <2>2 DEF Bits
<1>18. Ring(m.body, F)
  BY <1>0 DEF SoundTypes
<1>19. Touched(m, to, {p, n}, {})
  BY <1>13, <1>14 DEF Touched
<1>20. \A x \in S \ {c, p} : hdr[x].next = m.hdr[x].next
  BY <1>1, <1>11, <1>13
<1>21. Clean(m.hdr, S) => Clean(hdr, S \ {c})
  BY <1>1, <1>2, <1>11, <1>12, <1>13 DEF Clean
<1>22. Sound(to, S \ {c}, F)
  BY <1>14, <1>16, <1>17, <1>18 DEF Sound
<1> QED BY <1>2, <1>12, <1>14, <1>19, <1>20, <1>21, <1>22 DEF TookIn

(* Block c is cut: what SplitBlock writes in the headers.                  *)
SplitInto(m, to, S, c, r, v) ==
  LET n == m.hdr[c].next
  IN  /\ to \in Memory /\ to.body = m.body
      /\ Chain(to.hdr, S \cup {r}) /\ r \in Blocks \ S /\ n \in S
      /\ to.hdr[r].next = n /\ to.hdr[r].free = v
      /\ to.hdr[c].next = r /\ ~to.hdr[c].free
      /\ \A x \in S \ {c} : to.hdr[x].next = m.hdr[x].next /\ to.hdr[x].free = m.hdr[x].free
      /\ Touched(m, to, {c, r, n}, {})
      /\ Clean(m.hdr, S) => Clean(to.hdr, S \cup {r})
LEMMA SplitWrites ==
  ASSUME NEW m, NEW S, NEW F, Sound(m, S, F), NEW c \in S \ {0, N - 1}, NEW k \in Nat \ {0},
         c + k < m.hdr[c].next, NEW v \in BOOLEAN, NEW to, to = SplitBlock(m, c, k, v)
  PROVE  SplitInto(m, to, S, c, c + k, v)
<1> DEFINE n == m.hdr[c].next  r == c + k
           new == [next |-> n, free |-> v, prev |-> c, mark |-> FALSE]
           one == [m.hdr EXCEPT ![r] = new]
           two == [one EXCEPT ![n].prev = r]
           three == [two EXCEPT ![n].mark = FALSE]
           four == [three EXCEPT ![c].next = r]
           hdr == [four EXCEPT ![c].free = FALSE]
<1>0. SoundTypes(m, S, F)
  BY SoundHasTypes
<1>1. /\ m.hdr \in Headers /\ \A x \in S : m.hdr[x] \in Header
      /\ c \in S /\ c \in Blocks /\ S \subseteq Blocks /\ c # N - 1 /\ c # 0
      /\ Chain(m.hdr, S)
  BY <1>0 DEF SoundTypes
<1>2. n \in S /\ n \in Blocks /\ c < n /\ c \in Int /\ n \in Int /\ n <= N - 1
  <2>1. Ahead(m.hdr, S, c) /\ S \subseteq 0 .. N - 1
    BY <1>1 DEF Chain, Blocks
  <2>2. n \in S /\ c < n
    BY <2>1 DEF Ahead
  <2>3. \A x \in S : x \in Int /\ x <= N - 1 /\ x \in Blocks
    BY <1>1, <2>1
  <2> QED BY <1>1, <2>2, <2>3
<1>3. r \in Blocks \ {c, n}
  BY <1>1, <1>2, HeapAssumption DEF Blocks
<1>4. to = [hdr |-> hdr, body |-> m.body]
  BY DEF SplitBlock
<1>5. Wrote(m.hdr, one, r, new)
  <2>1. new \in Header
    BY <1>1, <1>2 DEF Header
  <2> HIDE DEF new
  <2> QED BY <1>1, <1>3, <2>1 DEF Wrote, Headers
<1> HIDE DEF one
<1>6. one \in Headers /\ one[n] = m.hdr[n] /\ one[n] \in Header
  BY <1>1, <1>2, <1>3, <1>5 DEF Wrote
<1>7. Wrote(one, two, n, [next |-> one[n].next, free |-> one[n].free, prev |-> r, mark |-> one[n].mark])
  BY <1>2, <1>3, <1>6, PutHeader
<1> HIDE DEF two
<1>8. two \in Headers /\ two[n] \in Header
  BY <1>7 DEF Wrote
<1>9. Wrote(two, three, n, [next |-> two[n].next, free |-> two[n].free, prev |-> two[n].prev, mark |-> FALSE])
  BY <1>2, <1>8, PutHeader
<1> HIDE DEF three
<1>10. three \in Headers /\ three[c] = m.hdr[c] /\ three[c] \in Header
  <2>1. c \in Blocks \ {n} /\ c \in Blocks \ {r}
    BY <1>1, <1>2, <1>3
  <2>2. three \in Headers /\ three[c] = two[c]
    BY <1>9, <2>1 DEF Wrote
  <2>3. two[c] = one[c]
    BY <1>7, <2>1 DEF Wrote
  <2>4. one[c] = m.hdr[c]
    BY <1>5, <2>1 DEF Wrote
  <2> QED BY <1>1, <2>2, <2>3, <2>4
<1>11. Wrote(three, four, c, [next |-> r, free |-> three[c].free, prev |-> three[c].prev, mark |-> three[c].mark])
  BY <1>1, <1>3, <1>10, PutHeader
<1> HIDE DEF four
<1>12. four \in Headers /\ four[c] \in Header
  BY <1>11 DEF Wrote
<1>13. Wrote(four, hdr, c, [next |-> four[c].next, free |-> FALSE, prev |-> four[c].prev, mark |-> four[c].mark])
  BY <1>1, <1>12, PutHeader
<1> HIDE DEF hdr, new
<1>14. /\ hdr \in Headers /\ hdr[c] \in Header /\ hdr[c].next = r /\ ~hdr[c].free
       /\ hdr[c].prev = m.hdr[c].prev /\ hdr[c].mark = m.hdr[c].mark
  <2>1. /\ hdr \in Headers /\ hdr[c] \in Header /\ hdr[c].next = four[c].next /\ ~hdr[c].free
        /\ hdr[c].prev = four[c].prev /\ hdr[c].mark = four[c].mark
    BY <1>13 DEF Wrote
  <2>2. four[c].next = r /\ four[c].prev = three[c].prev /\ four[c].mark = three[c].mark
    BY <1>11 DEF Wrote
  <2> QED BY <1>10, <2>1, <2>2
<1>15. /\ hdr[n] \in Header /\ hdr[n].next = m.hdr[n].next /\ hdr[n].prev = r
       /\ hdr[n].free = m.hdr[n].free /\ ~hdr[n].mark
  <2>1. n \in Blocks \ {c}
    BY <1>2
  <2>2. hdr[n] = four[n]
    BY <1>13, <2>1 DEF Wrote
  <2>3. four[n] = three[n]
    BY <1>11, <2>1 DEF Wrote
  <2>4. /\ three[n] \in Header /\ three[n].next = two[n].next /\ three[n].prev = two[n].prev
        /\ three[n].free = two[n].free /\ ~three[n].mark
    BY <1>9 DEF Wrote
  <2>5. two[n].next = one[n].next /\ two[n].prev = r /\ two[n].free = one[n].free
    BY <1>7 DEF Wrote
  <2> QED BY <1>6, <2>2, <2>3, <2>4, <2>5
<1>16. hdr[r] = new /\ new \in Header
  BY <1>3, <1>5, <1>7, <1>9, <1>11, <1>13 DEF Wrote
<1>17. \A x \in Blocks \ {c, n, r} : hdr[x] = m.hdr[x]
  BY <1>5, <1>7, <1>9, <1>11, <1>13 DEF Wrote
<1>18. to \in Memory /\ to.hdr = hdr /\ to.body = m.body
  BY <1>0, <1>4, <1>14 DEF Memory, SoundTypes
<1>19. new.next = n /\ new.free = v /\ new.prev = c /\ new.mark = FALSE
  BY DEF new
<1>20. r \in Blocks \ S
  <2>1. Ahead(m.hdr, S, c)
    BY <1>1 DEF Chain
  <2> QED BY <1>1, <1>2, <1>3, <2>1 DEF Ahead
<1>21. Cut(m.hdr, hdr, c, k, S)
  <2>1. ASSUME NEW x \in S \cup {r}
        PROVE  /\ hdr[x] \in Header
               /\ hdr[x].next = IF x = c THEN r ELSE IF x = r THEN n ELSE m.hdr[x].next
               /\ hdr[x].prev = IF x = r THEN c ELSE IF x = n THEN r ELSE m.hdr[x].prev
    <3>1. CASE x = r
      BY <1>3, <1>16, <1>19, <3>1
    <3>2. CASE x = c
      BY <1>2, <1>3, <1>14, <3>2
    <3>3. CASE x = n
      BY <1>2, <1>3, <1>15, <3>3
    <3>4. CASE x \notin {r, c, n}
      BY <1>1, <1>17, <3>4
    <3> QED BY <3>1, <3>2, <3>3, <3>4
  <2> QED BY <2>1 DEF Cut
<1>22. Chain(hdr, S \cup {r})
  BY <1>1, <1>21, ChainCut
<1>23. \A x \in S \ {c} : hdr[x].next = m.hdr[x].next /\ hdr[x].free = m.hdr[x].free
  <2>1. ASSUME NEW x \in S \ {c} PROVE hdr[x].next = m.hdr[x].next /\ hdr[x].free = m.hdr[x].free
    <3>1. CASE x = n
      BY <1>15, <3>1
    <3>2. CASE x # n
      <4>1. x \in Blocks \ {c, n, r}
        BY <1>1, <1>20, <3>2
      <4> QED BY <1>17, <4>1
    <3> QED BY <3>1, <3>2
  <2> QED BY <2>1
<1>24. Touched(m, to, {c, r, n}, {})
  BY <1>17, <1>18 DEF Touched
<1>25. Clean(m.hdr, S) => Clean(hdr, S \cup {r})
  BY <1>1, <1>14, <1>15, <1>16, <1>17, <1>19 DEF Clean
<1>26. hdr[r].next = n /\ hdr[r].free = v
  BY <1>16, <1>19
<1> QED BY <1>2, <1>14, <1>18, <1>20, <1>22, <1>23, <1>24, <1>25, <1>26 DEF SplitInto

(* A used block is cut in two used ones.                                   *)
CutInTwo(m, to, S, F, c, r) ==
  /\ Sound(to, S \cup {r}, F)
  /\ r \in Blocks \ S /\ to.hdr[c].next = r /\ to.hdr[r].next = m.hdr[c].next
  /\ m.hdr[c].next \in S
  /\ \A x \in S \ {c} : to.hdr[x].next = m.hdr[x].next
  /\ Touched(m, to, {c, r, m.hdr[c].next}, {})
  /\ Clean(m.hdr, S) => Clean(to.hdr, S \cup {r})
LEMMA CutUsed ==
  ASSUME NEW m, NEW S, NEW F, Sound(m, S, F), NEW c \in Used(S, F), NEW k \in Nat \ {0},
         c + k < m.hdr[c].next, NEW to, to = SplitBlock(m, c, k, FALSE)
  PROVE  CutInTwo(m, to, S, F, c, c + k)
<1> DEFINE r == c + k  n == m.hdr[c].next
<1>1. SoundTypes(m, S, F)
  BY SoundHasTypes
<1>2. c \in S \ {0, N - 1} /\ c \notin F
  BY DEF Used
<1>3. SplitInto(m, to, S, c, r, FALSE)
  BY <1>2, SplitWrites
<1> HIDE DEF r
<1>4. Bits(to.hdr, S \cup {r}, F)
  <2>1. /\ ~to.hdr[r].free /\ ~to.hdr[c].free /\ r \notin S
        /\ \A x \in S \ {c} : to.hdr[x].free = m.hdr[x].free
    BY <1>3 DEF SplitInto
  <2>2. Bits(m.hdr, S, F)
    BY <1>1 DEF SoundTypes
  <2> QED BY <1>2, <2>1, <2>2 DEF Bits
<1>5. Sound(to, S \cup {r}, F)
  BY <1>1, <1>3, <1>4 DEF Sound, SoundTypes, SplitInto
<1>6. to.hdr[r].next = n
  BY <1>3 DEF SplitInto
<1>7. CutInTwo(m, to, S, F, c, r)
  BY <1>3, <1>5, <1>6 DEF CutInTwo, SplitInto
<1> QED BY <1>7 DEF r

LEMMA Parts ==
  ASSUME NEW h, NEW b, NEW m, m = [hdr |-> h, body |-> b]
  PROVE  m.hdr = h /\ m.body = b
OBVIOUS

(* A free block is cut; its first part is used.                            *)
CutOff(m, to, S, F, c, r) ==
  /\ Sound(to, S \cup {r}, (F \ {c}) \cup {r})
  /\ r \in Blocks \ S /\ to.hdr[c].next = r /\ to.hdr[r].next = m.hdr[c].next
  /\ m.hdr[c].next \in S
  /\ \A x \in S \ {c} : to.hdr[x].next = m.hdr[x].next
  /\ Touched(m, to, {c, r, m.hdr[c].next}, F \cup {0, r})
  /\ Clean(m.hdr, S) => Clean(to.hdr, S \cup {r})
LEMMA CutFree ==
  ASSUME NEW m, NEW S, NEW F, Sound(m, S, F), NEW c \in F, NEW k \in Nat \ {0},
         c + k < m.hdr[c].next, NEW to, to = MoveLinks(SplitBlock(m, c, k, TRUE), c, c + k)
  PROVE  CutOff(m, to, S, F, c, c + k)
<1> DEFINE r == c + k  n == m.hdr[c].next  s == SplitBlock(m, c, k, TRUE)  R == F \cup {0}
           q == m.body[c].next  p == m.body[c].prev
           body == [m.body EXCEPT ![r] = [next |-> q, prev |-> p], ![p].next = r, ![q].prev = r]
<1>1. SoundTypes(m, S, F)
  BY SoundHasTypes
<1>2. c \in S \ {0, N - 1}
  BY <1>1 DEF SoundTypes
<1>3. SplitInto(m, s, S, c, r, TRUE)
  BY <1>2, SplitWrites
<1> HIDE DEF s
<1>3a. /\ s \in Memory /\ s.body = m.body /\ r \in Blocks \ S
       /\ s.hdr[r].next = n /\ s.hdr[r].free /\ ~s.hdr[c].free
       /\ \A x \in S \ {c} : s.hdr[x].free = m.hdr[x].free
  BY <1>3 DEF SplitInto
<1>4. to = [hdr |-> s.hdr, body |-> body]
  BY <1>3a DEF MoveLinks, s
<1>5. Replaced(m.body, body, c, r, R)
  <2>1. /\ R \in SUBSET Blocks /\ m.body \in Bodies /\ c \in R /\ r \in Blocks \ R
        /\ \A b \in R : Linked(m.body, b, R)
    BY <1>1, <1>3a DEF SoundTypes, Chain
  <2> QED BY <2>1, WritesReplace
<1> HIDE DEF body
<1>6. body \in Bodies /\ \A x \in Blocks \ (R \cup {r}) : body[x] = m.body[x]
  BY <1>5 DEF Replaced
<1>7. to \in Memory /\ to.hdr = s.hdr /\ to.body = body
  <2>1. s.hdr \in Headers
    BY <1>3a DEF Memory
  <2>2. body \in Bodies
    BY <1>6
  <2>3. [hdr |-> s.hdr, body |-> body] \in Memory
    BY <2>1, <2>2 DEF Memory
  <2>4. to.hdr = s.hdr /\ to.body = body
    BY <1>4, Parts, Zenon
  <2> QED BY <1>4, <2>3, <2>4
<1>8. Ring(body, (F \ {c}) \cup {r})
  <2>1. /\ Ring(m.body, F) /\ c # 0 /\ c \in R /\ R \in SUBSET Blocks /\ r \in Blocks \ R
        /\ m.body \in Bodies /\ \A b \in R : Linked(m.body, b, R)
    BY <1>1, <1>3a DEF SoundTypes, Chain
  <2>2. TakenOut(m.body, [m.body EXCEPT ![p].next = q, ![q].prev = p], c, R)
    BY <2>1, WritesTakeOut
  <2>3. m.body[c].next # c /\ m.body[c].prev # c
    BY <2>1, <2>2, RingWithout
  <2> QED BY <1>5, <2>1, <2>3, RingReplaces
<1>9. Bits(s.hdr, S \cup {r}, (F \ {c}) \cup {r})
  <2>1. r # 0 /\ r # N - 1
    BY <1>1, <1>3a DEF SoundTypes, Chain
  <2>2. Bits(m.hdr, S, F)
    BY <1>1 DEF SoundTypes
  <2> HIDE DEF r
  <2> QED BY <1>2, <1>3a, <2>1, <2>2 DEF Bits
<1>10. Sound(to, S \cup {r}, (F \ {c}) \cup {r})
  BY <1>3, <1>7, <1>8, <1>9 DEF Sound, SplitInto
<1>11. Touched(m, to, {c, r, n}, R \cup {r})
  BY <1>3, <1>6, <1>7 DEF Touched, SplitInto
<1>13. R \cup {r} = F \cup {0, r}
  OBVIOUS
<1> QED BY <1>3, <1>3a, <1>7, <1>10, <1>11, <1>13 DEF CutOff, SplitInto

-----------------------------------------------------------------------------
(* The memory of a block, and what leaves it as it is.                     *)
Region(m, b) == b .. m.hdr[b].next - 1
Same(m, to, lo, hi) ==
  /\ \A x \in lo + 1 .. hi - 1 : to.hdr[x] = m.hdr[x]
  /\ \A x \in lo .. hi - 1 : to.body[x] = m.body[x]
Kept(m, to, b) == to.hdr[b].next = m.hdr[b].next /\ Same(m, to, b, m.hdr[b].next)

LEMMA RegionsApart ==
  ASSUME NEW hdr, NEW S, Chain(hdr, S), NEW b \in S \ {N - 1}
  PROVE  /\ b + 1 .. hdr[b].next - 1 \subseteq Blocks \ S
         /\ b .. hdr[b].next - 1 \subseteq Blocks
         /\ \A c \in S \ {b, N - 1} : (b .. hdr[b].next - 1) \cap (c .. hdr[c].next - 1) = {}
<1>1. Ahead(hdr, S, b) /\ S \subseteq 0 .. N - 1
  BY DEF Chain, Blocks
<1>2. /\ hdr[b].next \in 0 .. N - 1 /\ b \in 0 .. N - 1 /\ N \in Int
      /\ \A s \in S : s \in Int /\ (s <= b \/ hdr[b].next <= s)
  <2>1. hdr[b].next \in S /\ b \in S /\ \A s \in S : s <= b \/ hdr[b].next <= s
    BY <1>1 DEF Ahead
  <2>2. N \in Int
    BY HeapAssumption
  <2>3. \A s \in S : s \in 0 .. N - 1 /\ s \in Int
    BY <1>1, <2>2
  <2> QED BY <2>1, <2>2, <2>3
<1>3. b + 1 .. hdr[b].next - 1 \subseteq Blocks \ S /\ b .. hdr[b].next - 1 \subseteq Blocks
  BY <1>2 DEF Blocks
<1>4. ASSUME NEW c \in S \ {b, N - 1}
      PROVE  (b .. hdr[b].next - 1) \cap (c .. hdr[c].next - 1) = {}
  <2>1. Ahead(hdr, S, c)
    BY DEF Chain
  <2>2. hdr[c].next \in Int /\ c \in Int /\ (b <= c \/ hdr[c].next <= b) /\ (c <= b \/ hdr[b].next <= c)
    BY <1>1, <1>2, <2>1 DEF Ahead
  <2> QED BY <1>2, <2>2
<1> QED BY <1>3, <1>4

(* What is written in the headers of the list, in the free list's links    *)
(* and in the region of block c is written in no other used block.         *)
LEMMA OthersKept ==
  ASSUME NEW m, NEW S, NEW F, Sound(m, S, F), NEW c \in S \ {N - 1},
         NEW to, NEW H, NEW B, Touched(m, to, H, B),
         H \subseteq S \cup Region(m, c), B \subseteq F \cup {0} \cup Region(m, c),
         NEW b \in Used(S, F) \ {c}, to.hdr[b].next = m.hdr[b].next
  PROVE  Kept(m, to, b)
<1>1. SoundTypes(m, S, F)
  BY SoundHasTypes
<1>2. /\ Chain(m.hdr, S) /\ b \in S \ {N - 1} /\ b \notin F /\ b # 0 /\ F \cup {0} \subseteq S
  BY <1>1 DEF SoundTypes, Used, Chain
<1>3. /\ b + 1 .. m.hdr[b].next - 1 \subseteq Blocks \ S
      /\ b .. m.hdr[b].next - 1 \subseteq Blocks
      /\ (b .. m.hdr[b].next - 1) \cap Region(m, c) = {}
  BY <1>2, RegionsApart DEF Region
<1>4. S \subseteq Int /\ b \in Int /\ m.hdr[b].next \in Int
  <2>1. m.hdr[b].next \in S /\ S \subseteq Blocks
    BY <1>2 DEF Chain, Ahead
  <2>2. \A s \in S : s \in Int
    BY <2>1, HeapAssumption DEF Blocks
  <2> QED BY <1>2, <2>1, <2>2
<1>5. ASSUME NEW x \in b + 1 .. m.hdr[b].next - 1 PROVE to.hdr[x] = m.hdr[x]
  <2>1. x \in b .. m.hdr[b].next - 1
    BY <1>4
  <2>2. x \in Blocks \ H
    BY <1>3, <2>1
  <2> QED BY <2>2 DEF Touched
<1>6. ASSUME NEW x \in b .. m.hdr[b].next - 1 PROVE to.body[x] = m.body[x]
  <2>1. x = b \/ x \in b + 1 .. m.hdr[b].next - 1
    BY <1>4
  <2>2. x \in Blocks \ B
    BY <1>2, <1>3, <2>1
  <2> QED BY <2>2 DEF Touched
<1> QED BY <1>5, <1>6 DEF Kept, Same

LEMMA UsedBlock ==
  ASSUME NEW m, NEW S, NEW F, Sound(m, S, F), NEW c \in Used(S, F)
  PROVE  /\ Chain(m.hdr, S) /\ c \in S \ {0, N - 1} /\ c \in Blocks /\ c \notin F /\ c \in Int
         /\ Ahead(m.hdr, S, c) /\ Behind(m.hdr, S, c)
         /\ m.hdr[c].next \in S /\ m.hdr[c].next \in Int /\ m.hdr[c].next > c
         /\ m.hdr[c].next \in Blocks
         /\ m.hdr[c].prev \in S /\ m.hdr[c].prev \in Int /\ m.hdr[c].prev < c
<1>1. SoundTypes(m, S, F)
  BY SoundHasTypes
<1>2. c \in S \ {0, N - 1} /\ c \notin F /\ Chain(m.hdr, S) /\ S \subseteq Blocks
  BY <1>1 DEF SoundTypes, Used
<1>3. Ahead(m.hdr, S, c) /\ Behind(m.hdr, S, c)
  BY <1>2 DEF Chain
<1>4. \A x \in S : x \in Int /\ x \in Blocks
  BY <1>2, HeapAssumption DEF Blocks
<1>5. m.hdr[c].next \in S /\ m.hdr[c].next > c /\ m.hdr[c].prev \in S /\ m.hdr[c].prev < c
  BY <1>3 DEF Ahead, Behind
<1> QED BY <1>2, <1>3, <1>4, <1>5

LEMMA ListsOnly ==
  ASSUME NEW m, NEW S, NEW F, Sound(m, S, F),
         NEW to, NEW H \in SUBSET S, NEW B \in SUBSET (F \cup {0}), Touched(m, to, H, B),
         NEW b \in Used(S, F)
  PROVE  Same(m, to, b, m.hdr[b].next)
<1>1. SoundTypes(m, S, F)
  BY SoundHasTypes
<1>2. /\ Chain(m.hdr, S) /\ b \in S \ {N - 1} /\ b \notin F /\ b # 0 /\ F \cup {0} \subseteq S
  BY <1>1 DEF SoundTypes, Used, Chain
<1>3. /\ b + 1 .. m.hdr[b].next - 1 \subseteq Blocks \ S
      /\ b .. m.hdr[b].next - 1 \subseteq Blocks
  BY <1>2, RegionsApart
<1>4. ASSUME NEW x \in b + 1 .. m.hdr[b].next - 1 PROVE to.hdr[x] = m.hdr[x]
  BY <1>3 DEF Touched
<1>5. ASSUME NEW x \in b .. m.hdr[b].next - 1 PROVE to.body[x] = m.body[x]
  <2>1. b \in Int /\ m.hdr[b].next \in Int
    BY UsedBlock
  <2>2. x = b \/ x \in b + 1 .. m.hdr[b].next - 1
    BY <1>2, <2>1
  <2>3. x \in Blocks \ B
    BY <1>2, <1>3, <2>2
  <2> QED BY <2>3 DEF Touched
<1> QED BY <1>4, <1>5 DEF Same

-----------------------------------------------------------------------------
(* umm_free                                                                *)
Packed(m, F) == \A b \in F : m.hdr[b].next \notin F

(* What holds of the other used blocks and of the lists after a step.      *)
Tidy(m, to, S, F, S2, F2, c) ==
  /\ \A b \in Used(S, F) \ {c} : Kept(m, to, b)
  /\ Packed(m, F) => Packed(to, F2)
  /\ Clean(m.hdr, S) => Clean(to.hdr, S2)

Grown(m, to, S, F, S2, F2, c) ==
  /\ Sound(to, S2, F2) /\ Used(S2, F2) = Used(S, F)
  /\ to.hdr[c].prev = m.hdr[c].prev /\ to.hdr[c].next >= m.hdr[c].next
  /\ Same(m, to, c, m.hdr[c].next)
  /\ Tidy(m, to, S, F, S2, F2, c)
  /\ Packed(m, F) => to.hdr[c].next \notin F2

LEMMA GrowSound ==
  ASSUME NEW m, NEW S, NEW F, Sound(m, S, F), NEW c \in Used(S, F),
         NEW to, to = AssimilateUp(m, c)
  PROVE  \E S2, F2 : Grown(m, to, S, F, S2, F2, c)
<1> DEFINE n == m.hdr[c].next  nn == m.hdr[n].next
<1>0. SoundTypes(m, S, F)
  BY SoundHasTypes
<1>1. /\ c \in S \ {0, N - 1} /\ c \notin F /\ n \in S /\ n \in Int /\ n > c /\ c \in Int
      /\ F \subseteq S /\ S \subseteq Blocks
  BY <1>0, UsedBlock DEF SoundTypes
<1>2. CASE n \notin F
  <2>1. ~m.hdr[n].free
    BY <1>0, <1>1, <1>2 DEF SoundTypes
  <2>2. to = m
    BY <2>1 DEF AssimilateUp
  <2>3. Tidy(m, m, S, F, S, F, c) /\ Same(m, m, c, m.hdr[c].next)
    BY DEF Tidy, Kept, Same
  <2>4. Grown(m, m, S, F, S, F, c)
    BY <1>1, <1>2, <2>3 DEF Grown
  <2> QED BY <2>2, <2>4
<1>3. CASE n \in F
  <2> DEFINE S2 == S \ {n}  F2 == F \ {n}
  <2>1. TookNext(m, to, S, F, c, n)
    BY <1>3, AssimilateUpSound
  <2>2. /\ Sound(to, S2, F2) /\ to.hdr[c].next = nn /\ to.hdr[c].prev = m.hdr[c].prev
        /\ nn \in S /\ nn > n /\ Touched(m, to, {c, n, nn}, F \cup {0})
        /\ \A x \in S \ {c, n} : to.hdr[x].next = m.hdr[x].next
        /\ Clean(m.hdr, S) => Clean(to.hdr, S2)
    BY <2>1 DEF TookNext
  <2>3. Used(S2, F2) = Used(S, F)
    BY <1>3 DEF Used
  <2>4. Same(m, to, c, n)
    BY <1>1, <2>2, ListsOnly
  <2>5. ASSUME NEW b \in Used(S, F) \ {c} PROVE Kept(m, to, b)
    <3>1. to.hdr[b].next = m.hdr[b].next
      BY <1>3, <2>2 DEF Used
    <3>2. Same(m, to, b, m.hdr[b].next)
      BY <1>1, <2>2, ListsOnly
    <3> QED BY <3>1, <3>2 DEF Kept
  <2>6. ASSUME Packed(m, F) PROVE Packed(to, F2) /\ nn \notin F2
    BY <1>1, <1>3, <2>2, <2>6 DEF Packed
  <2>7. nn >= n
    <3>1. nn \in Int
      BY <1>1, <2>2, HeapAssumption DEF Blocks
    <3> QED BY <1>1, <2>2, <3>1
  <2>8. Grown(m, to, S, F, S2, F2, c)
    BY <2>2, <2>3, <2>4, <2>5, <2>6, <2>7 DEF Grown, Tidy
  <2> QED BY <2>8
<1> QED BY <1>2, <1>3

LEMMA KeptTrans ==
  ASSUME NEW m, NEW u, NEW to, NEW b, Kept(m, u, b), Kept(u, to, b)
  PROVE  Kept(m, to, b)
BY DEF Kept, Same

Freed(m, to, S, F, S2, F2, c) ==
  /\ Sound(to, S2, F2) /\ Used(S2, F2) = Used(S, F) \ {c}
  /\ Tidy(m, to, S, F, S2, F2, c)
LEMMA FreeSound ==
  ASSUME NEW m, NEW S, NEW F, Sound(m, S, F), NEW c \in Used(S, F),
         NEW to, to = UmmFree(m, c)
  PROVE  \E S2, F2 : Freed(m, to, S, F, S2, F2, c)
<1> DEFINE u == AssimilateUp(m, c)  p == u.hdr[c].prev
<1>1. PICK S1, F1 : Grown(m, u, S, F, S1, F1, c)
  BY GrowSound
<1>2. /\ Sound(u, S1, F1) /\ Used(S1, F1) = Used(S, F) /\ c \in Used(S1, F1)
      /\ Tidy(m, u, S, F, S1, F1, c) /\ (Packed(m, F) => u.hdr[c].next \notin F1)
  BY <1>1 DEF Grown
<1>3. to = IF u.hdr[p].free THEN AssimilateDown(u, c, TRUE) ELSE PushFree(u, c)
  BY DEF UmmFree
<1> HIDE DEF u
<1>4. /\ c \in S1 \ {0, N - 1} /\ c \notin F1 /\ c \in Int /\ Ahead(u.hdr, S1, c)
      /\ u.hdr[c].next \in S1 /\ u.hdr[c].next \in Int /\ u.hdr[c].next > c
      /\ p \in S1 /\ p < c /\ p \in Int
  BY <1>2, UsedBlock
<1>5. SoundTypes(u, S1, F1)
  BY <1>2, SoundHasTypes
<1>6. /\ Chain(u.hdr, S1) /\ F1 \subseteq S1 \ {0, N - 1}
      /\ \A b \in S1 : u.hdr[b].free <=> b \in F1
  BY <1>5 DEF SoundTypes
<1>7. Region(u, c) = c .. u.hdr[c].next - 1 /\ c \in Region(u, c)
  BY <1>4 DEF Region
<1>8. CASE u.hdr[p].free
  <2>1. p \in F1 /\ p # 0
    BY <1>4, <1>6, <1>8
  <2>2. to = AssimilateDown(u, c, TRUE)
    BY <1>3, <1>8
  <2>3. TookIn(u, to, S1, F1, c, p)
    BY <1>2, <2>1, <2>2, AssimilateDownSound
  <2> DEFINE S2 == S1 \ {c}
  <2>4. /\ Sound(to, S2, F1) /\ to.hdr[p].next = u.hdr[c].next
        /\ Touched(u, to, {p, u.hdr[c].next}, {})
        /\ \A x \in S1 \ {c, p} : to.hdr[x].next = u.hdr[x].next
        /\ Clean(u.hdr, S1) => Clean(to.hdr, S2)
    BY <2>3 DEF TookIn
  <2>5. Used(S2, F1) = Used(S, F) \ {c}
    BY <1>2, <1>4 DEF Used
  <2>6. ASSUME NEW b \in Used(S, F) \ {c} PROVE Kept(m, to, b)
    <3>1. b \in Used(S1, F1) /\ b # p /\ b \in S1
      BY <1>2, <2>1 DEF Used
    <3>2. to.hdr[b].next = u.hdr[b].next
      BY <2>4, <3>1
    <3>3. Same(u, to, b, u.hdr[b].next)
      <4>1. {p, u.hdr[c].next} \in SUBSET S1 /\ {} \in SUBSET (F1 \cup {0})
        BY <1>4
      <4> QED BY <1>2, <2>4, <3>1, <4>1, ListsOnly
    <3>4. Kept(u, to, b) /\ Kept(m, u, b)
      BY <1>2, <3>2, <3>3 DEF Kept, Tidy
    <3> QED BY <3>4, KeptTrans
  <2>7. ASSUME Packed(m, F) PROVE Packed(to, F1)
    <3>1. Packed(u, F1) /\ u.hdr[c].next \notin F1
      BY <1>2, <2>7 DEF Tidy
    <3> QED BY <1>4, <1>6, <2>4, <3>1 DEF Packed
  <2>8. Clean(m.hdr, S) => Clean(to.hdr, S2)
    BY <1>2, <2>4 DEF Tidy
  <2>9. Freed(m, to, S, F, S2, F1, c)
    BY <2>4, <2>5, <2>6, <2>7, <2>8 DEF Freed, Tidy
  <2> QED BY <2>9
<1>9. CASE ~u.hdr[p].free
  <2>1. p \notin F1
    BY <1>4, <1>6, <1>9
  <2>2. to = PushFree(u, c)
    BY <1>3, <1>9
  <2> DEFINE F2 == F1 \cup {c}
  <2>3. Pushed(u, to, S1, F1, c)
    BY <1>2, <2>2, PushFreeSound
  <2>4. /\ Sound(to, S1, F2)
        /\ Touched(u, to, {c}, F1 \cup {0, c})
        /\ \A x \in S1 : to.hdr[x].next = u.hdr[x].next /\ to.hdr[x].mark = u.hdr[x].mark
    BY <2>3 DEF Pushed, SameChain
  <2>5. Used(S1, F2) = Used(S, F) \ {c}
    BY <1>2, <1>4 DEF Used
  <2>6. ASSUME NEW b \in Used(S, F) \ {c} PROVE Kept(m, to, b)
    <3>1. b \in Used(S1, F1) \ {c} /\ b \in S1
      BY <1>2 DEF Used
    <3>2. to.hdr[b].next = u.hdr[b].next
      BY <2>4, <3>1
    <3>3. {c} \subseteq S1 \cup Region(u, c) /\ F1 \cup {0, c} \subseteq F1 \cup {0} \cup Region(u, c)
      BY <1>7
    <3>4. c \in S1 \ {N - 1}
      BY <1>4
    <3>5. Kept(u, to, b)
      BY <1>2, <2>4, <3>1, <3>2, <3>3, <3>4, OthersKept
    <3>6. Kept(m, u, b)
      BY <1>2 DEF Tidy
    <3> QED BY <3>5, <3>6, KeptTrans
  <2>7. ASSUME Packed(m, F) PROVE Packed(to, F2)
    <3>1. Packed(u, F1) /\ u.hdr[c].next \notin F1
      BY <1>2, <2>7 DEF Tidy
    <3>2. ASSUME NEW b \in F1 PROVE to.hdr[b].next \notin F2
      <4>1. b \in S1 \ {N - 1} /\ to.hdr[b].next = u.hdr[b].next
        BY <1>6, <2>4
      <4>2. Ahead(u.hdr, S1, b)
        BY <1>6, <4>1 DEF Chain
      <4>3. u.hdr[b].next # c
        BY <2>1, <4>2 DEF Ahead
      <4> QED BY <3>1, <4>1, <4>3 DEF Packed
    <3>3. to.hdr[c].next \notin F2
      BY <1>4, <2>4, <3>1
    <3> QED BY <3>2, <3>3 DEF Packed
  <2>8. Clean(m.hdr, S) => Clean(to.hdr, S1)
    BY <1>2, <2>4 DEF Tidy, Clean
  <2>9. Freed(m, to, S, F, S1, F2, c)
    BY <2>4, <2>5, <2>6, <2>7, <2>8 DEF Freed, Tidy
  <2> QED BY <2>9
<1> QED BY <1>8, <1>9

-----------------------------------------------------------------------------
(* A set of numbers has a least element, and one that has 0 and the        *)
(* successor of each of its elements has them all.                         *)
LEMMA LeastNumber ==
  ASSUME NEW S \in SUBSET Nat, S # {}
  PROVE  \E x \in S : \A y \in S : x <= y
<1> DEFINE T == {0 .. n : n \in S}
<1>1. T \subseteq FiniteSubsetsOf(Nat) /\ T # {}
  <2>1. ASSUME NEW n \in S PROVE 0 .. n \in FiniteSubsetsOf(Nat)
    BY FS_Interval DEF FiniteSubsetsOf
  <2> QED BY <2>1
<1>2. PICK X \in T : \A Y \in T : <<Y, X>> \notin StrictSubsetOrdering(Nat)
  BY <1>1, FS_StrictSubsetOrderingWellFounded, WFMin
<1>3. PICK x \in S : X = 0 .. x
  OBVIOUS
<1>4. ASSUME NEW y \in S PROVE x <= y
  <2>1. <<0 .. y, X>> \notin StrictSubsetOrdering(Nat)
    BY <1>2
  <2>2. ~(0 .. y \subseteq X /\ 0 .. y # X)
    BY <1>1, <2>1 DEF StrictSubsetOrdering, FiniteSubsetsOf
  <2> QED BY <1>3, <2>2
<1> QED BY <1>4

LEMMA Upwards ==
  ASSUME NEW S, 0 \in S, \A n \in Nat : n \in S => n + 1 \in S
  PROVE  Nat \subseteq S
<1> SUFFICES ASSUME Nat \ S # {} PROVE FALSE
  OBVIOUS
<1>1. PICK x \in Nat \ S : \A y \in Nat \ S : x <= y
  BY LeastNumber
<1>2. x - 1 \in Nat /\ x - 1 \in S
  BY <1>1
<1> QED BY <1>1, <1>2

Iteration(g, D, a, step, n) ==
  g \in [0 .. n -> D] /\ g[0] = a /\ \A k \in 0 .. n - 1 : g[k + 1] = step[g[k]]
LEMMA Iterates ==
  ASSUME NEW D, NEW a \in D, NEW step \in [D -> D], NEW M \in Nat
  PROVE  \E g : Iteration(g, D, a, step, M)
<1> DEFINE Rec(n, g) == Iteration(g, D, a, step, n)
           Some == {n \in Nat : \E g : Rec(n, g)}
<1>1. 0 \in Some
  <2>1. Rec(0, [n \in 0 .. 0 |-> a])
    BY DEF Iteration
  <2> QED BY <2>1
<1>2. ASSUME NEW n \in Nat, n \in Some PROVE n + 1 \in Some
  <2>1. PICK g : Rec(n, g)
    BY <1>2
  <2> DEFINE h == [k \in 0 .. n + 1 |-> IF k <= n THEN g[k] ELSE step[g[n]]]
  <2>2. g[n] \in D /\ step[g[n]] \in D
    BY <2>1 DEF Iteration
  <2>3. h \in [0 .. n + 1 -> D] /\ h[0] = a
    BY <2>1, <2>2 DEF Iteration
  <2>4. ASSUME NEW k \in 0 .. (n + 1) - 1 PROVE h[k + 1] = step[h[k]]
    <3>1. CASE k < n
      BY <2>1, <3>1 DEF Iteration
    <3>2. CASE k = n
      BY <2>1, <3>2 DEF Iteration
    <3> QED BY <3>1, <3>2
  <2>5. Rec(n + 1, h) /\ n + 1 \in Nat
    BY <2>3, <2>4 DEF Iteration
  <2> HIDE DEF h, Rec
  <2> QED BY <2>5
<1>3. Nat \subseteq Some
  <2> HIDE DEF Some
  <2> QED BY <1>1, <1>2, Upwards
<1> QED BY <1>3

(* The free list, as umm_malloc goes along it.                             *)
Scanned(m, at, R) ==
  /\ at \in [0 .. N -> R] /\ at[0] = m.body[0].next
  /\ \A k \in 0 .. N - 1 : at[k + 1] = IF at[k] = 0 THEN 0 ELSE m.body[at[k]].next
LEMMA FreeAtScans ==
  ASSUME NEW m, NEW S, NEW F, Sound(m, S, F)
  PROVE  Scanned(m, FreeAt(m), F \cup {0})
<1> DEFINE R == F \cup {0}
           step == [b \in R |-> IF b = 0 THEN 0 ELSE m.body[b].next]
           Rec(g) == g = [k \in 0 .. N |->
                            IF k = 0 THEN m.body[0].next
                            ELSE LET b == g[k - 1] IN IF b = 0 THEN 0 ELSE m.body[b].next]
<1>1. \A b \in R : m.body[b].next \in R
  BY SoundHasTypes DEF SoundTypes, Linked
<1>2. N \in Nat /\ 0 \in R
  BY HeapAssumption
<1>3. PICK g : Iteration(g, R, m.body[0].next, step, N)
  <2> DEFINE first == m.body[0].next
  <2>1. first \in R /\ step \in [R -> R]
    BY <1>1
  <2> HIDE DEF step, R, first
  <2>2. \E g : Iteration(g, R, first, step, N)
    BY <1>2, <2>1, Iterates
  <2> QED BY <2>2 DEF first
<1>4. Rec(g)
  <2>1. ASSUME NEW k \in 0 .. N
        PROVE  g[k] = IF k = 0 THEN m.body[0].next
                      ELSE LET b == g[k - 1] IN IF b = 0 THEN 0 ELSE m.body[b].next
    <3>1. CASE k = 0
      BY <1>3, <3>1 DEF Iteration
    <3>2. CASE k # 0
      <4>1. k - 1 \in 0 .. N - 1 /\ k - 1 + 1 = k /\ k - 1 \in 0 .. N
        BY <1>2, <3>2
      <4>2. g[k] = step[g[k - 1]] /\ g[k - 1] \in R
        BY <1>3, <4>1 DEF Iteration
      <4> QED BY <3>2, <4>2
    <3> QED BY <3>1, <3>2
  <2>2. g = [k \in 0 .. N |-> g[k]]
    BY <1>3 DEF Iteration
  <2> QED BY <2>1, <2>2
<1>5. FreeAt(m) = CHOOSE f : Rec(f)
  BY DEF FreeAt
<1>6. Rec(CHOOSE f : Rec(f))
  <2> HIDE DEF Rec
  <2> QED BY <1>4
<1>7. PICK at : at = CHOOSE f : Rec(f)
  OBVIOUS
<1>8. Rec(at)
  BY <1>6, <1>7
<1>9. /\ at = [k \in 0 .. N |-> at[k]] /\ at[0] = m.body[0].next
      /\ \A k \in 0 .. N - 1 : at[k + 1] = IF at[k] = 0 THEN 0 ELSE m.body[at[k]].next
  <2>1. ASSUME NEW k \in 0 .. N - 1
        PROVE  at[k + 1] = IF at[k] = 0 THEN 0 ELSE m.body[at[k]].next
    <3>1. k + 1 \in 0 .. N /\ k + 1 # 0 /\ (k + 1) - 1 = k
      BY <1>2
    <3>2. at[k + 1] = LET b == at[(k + 1) - 1] IN IF b = 0 THEN 0 ELSE m.body[b].next
      BY <1>8, <3>1
    <3> QED BY <3>1, <3>2
  <2>2. at = [k \in 0 .. N |-> at[k]]
    BY <1>8
  <2>3. at[0] = m.body[0].next
    BY <1>2, <1>8
  <2> QED BY <2>1, <2>2, <2>3
<1> HIDE DEF Rec
<1>10. \A k \in 0 .. N : at[k] \in R
  <2> DEFINE In == {k \in Nat : k <= N => at[k] \in R}
  <2>1. 0 \in In
    BY <1>1, <1>9
  <2>2. ASSUME NEW k \in Nat, k \in In PROVE k + 1 \in In
    <3>1. CASE k + 1 <= N
      <4>1. k \in 0 .. N - 1 /\ at[k] \in R
        BY <1>2, <2>2, <3>1
      <4>2. at[k + 1] = IF at[k] = 0 THEN 0 ELSE m.body[at[k]].next
        BY <1>9, <4>1
      <4> QED BY <1>1, <4>1, <4>2
    <3>2. CASE ~(k + 1 <= N)
      BY <3>2
    <3> QED BY <3>1, <3>2
  <2>3. Nat \subseteq In
    <3> HIDE DEF In
    <3> QED BY <2>1, <2>2, Upwards
  <2> QED BY <1>2, <2>3
<1>11. Scanned(m, at, R)
  BY <1>9, <1>10 DEF Scanned
<1> QED BY <1>5, <1>7, <1>11

LEMMA BestFitSound ==
  ASSUME NEW m, NEW S, NEW F, Sound(m, S, F), NEW k \in Nat
  PROVE  /\ BestFit(m, k) # 0 =>
              /\ BestFit(m, k) \in F /\ BlockSize(m, BestFit(m, k)) >= k
              /\ \A j \in 0 .. N :
                   FreeAt(m)[j] # 0 /\ BlockSize(m, FreeAt(m)[j]) >= k =>
                     BlockSize(m, BestFit(m, k)) <= BlockSize(m, FreeAt(m)[j])
         /\ BestFit(m, k) = 0 =>
              \A j \in 0 .. N : FreeAt(m)[j] # 0 => ~(BlockSize(m, FreeAt(m)[j]) >= k)
<1> DEFINE at == FreeAt(m)
           size(i) == BlockSize(m, at[i])
           fits == {i \in 0 .. N : at[i] # 0 /\ size(i) >= k}
           better(i, j) == size(i) < size(j) \/ (size(i) = size(j) /\ i <= j)
           i0 == CHOOSE i \in fits : \A j \in fits : better(i, j)
<1>1. BestFit(m, k) = IF fits = {} THEN 0 ELSE at[i0]
  BY Zenon DEF BestFit
<1> HIDE DEF at
<1>2. Scanned(m, at, F \cup {0})
  BY FreeAtScans DEF at
<1>3. ASSUME NEW i \in 0 .. N, at[i] # 0 PROVE at[i] \in F /\ size(i) \in Nat
  <2>1. at[i] \in F
    BY <1>2, <1>3 DEF Scanned
  <2>2. Chain(m.hdr, S) /\ at[i] \in S \ {N - 1} /\ S \subseteq Blocks
    <3>1. SoundTypes(m, S, F)
      BY SoundHasTypes
    <3> QED BY <2>1, <3>1 DEF SoundTypes
  <2>3. Ahead(m.hdr, S, at[i])
    BY <2>2 DEF Chain
  <2>4. m.hdr[at[i]].next \in Int /\ at[i] \in Int /\ m.hdr[at[i]].next > at[i]
    <3>1. \A x \in S : x \in Int
      BY <2>2, HeapAssumption DEF Blocks
    <3> QED BY <2>2, <2>3, <3>1 DEF Ahead
  <2> QED BY <2>1, <2>4 DEF BlockSize
<1>4. ASSUME fits # {} PROVE i0 \in fits /\ \A j \in fits : better(i0, j)
  <2> DEFINE V == {size(i) : i \in fits}
  <2>1. V \in SUBSET Nat /\ V # {}
    <3>1. \A i \in fits : size(i) \in Nat
      BY <1>3
    <3> HIDE DEF fits, size
    <3> QED BY <1>4, <3>1
  <2>2. PICK v \in V : \A w \in V : v <= w
    BY <2>1, LeastNumber
  <2> DEFINE I == {i \in fits : size(i) = v}
  <2>3. I \in SUBSET Nat /\ I # {}
    BY <2>2, HeapAssumption
  <2>4. PICK i \in I : \A j \in I : i <= j
    BY <2>3, LeastNumber
  <2>5. ASSUME NEW j \in fits PROVE better(i, j)
    <3>1. size(j) \in V /\ size(j) \in Nat /\ size(i) = v /\ v <= size(j)
      BY <1>3, <2>2
    <3>2. CASE size(j) = v
      BY <2>4, <3>1, <3>2
    <3>3. CASE size(j) # v
      <4>1. v \in Nat
        BY <2>1, <2>2
      <4> HIDE DEF size
      <4> QED BY <3>1, <3>3, <4>1
    <3> QED BY <3>2, <3>3
  <2>6. i \in fits
    OBVIOUS
  <2> HIDE DEF fits, better, I, V
  <2> QED BY <2>5, <2>6
<1>5. ASSUME fits # {}
      PROVE  /\ at[i0] \in F /\ BlockSize(m, at[i0]) >= k
             /\ \A j \in fits : BlockSize(m, at[i0]) <= BlockSize(m, at[j])
  <2> HIDE DEF i0
  <2>1. i0 \in fits /\ \A j \in fits : better(i0, j)
    BY <1>4, <1>5
  <2>2. at[i0] \in F /\ BlockSize(m, at[i0]) >= k /\ size(i0) \in Nat
    BY <1>3, <2>1
  <2>3. ASSUME NEW j \in fits PROVE size(i0) <= size(j)
    <3>1. size(j) \in Nat /\ better(i0, j)
      BY <1>3, <2>1
    <3> HIDE DEF size
    <3> QED BY <2>2, <3>1
  <2> QED BY <2>2, <2>3
<1>6. CASE fits = {}
  <2>1. BestFit(m, k) = 0
    BY <1>1, <1>6
  <2>2. \A j \in 0 .. N : at[j] # 0 => ~(BlockSize(m, at[j]) >= k)
    BY <1>6
  <2> QED BY <2>1, <2>2 DEF at
<1>7. CASE fits # {}
  <2>1. BestFit(m, k) = at[i0] /\ 0 \notin F
    <3>1. 0 \notin F
      BY SoundHasTypes DEF SoundTypes
    <3> HIDE DEF fits, i0
    <3> QED BY <1>1, <1>7, <3>1
  <2> HIDE DEF i0
  <2>2. \A j \in 0 .. N : at[j] # 0 /\ BlockSize(m, at[j]) >= k =>
           BlockSize(m, at[i0]) <= BlockSize(m, at[j])
    BY <1>5, <1>7
  <2>3. at[i0] \in F /\ BlockSize(m, at[i0]) >= k
    BY <1>5, <1>7
  <2> QED BY <2>1, <2>2, <2>3 DEF at
<1> QED BY <1>6, <1>7

-----------------------------------------------------------------------------
(* umm_malloc                                                              *)
Allotted(m, to, S, F, S2, F2, b, k) ==
  /\ Sound(to, S2, F2)
  /\ b \notin Used(S, F) /\ b # 0 /\ Used(S2, F2) = Used(S, F) \cup {b}
  /\ to.hdr[b].next = b + k
  /\ Tidy(m, to, S, F, S2, F2, b)
LEMMA FreeBlock ==
  ASSUME NEW m, NEW S, NEW F, Sound(m, S, F), NEW c \in F
  PROVE  /\ Chain(m.hdr, S) /\ c \in S \ {0, N - 1} /\ c \in Blocks /\ c \in Int
         /\ Ahead(m.hdr, S, c)
         /\ m.hdr[c].next \in S /\ m.hdr[c].next \in Int /\ m.hdr[c].next > c
         /\ F \subseteq S \ {0, N - 1}
<1>1. SoundTypes(m, S, F)
  BY SoundHasTypes
<1>2. c \in S \ {0, N - 1} /\ Chain(m.hdr, S) /\ S \subseteq Blocks /\ F \subseteq S \ {0, N - 1}
  BY <1>1 DEF SoundTypes
<1>3. Ahead(m.hdr, S, c)
  BY <1>2 DEF Chain
<1>4. \A x \in S : x \in Int /\ x \in Blocks
  BY <1>2, HeapAssumption DEF Blocks
<1>5. m.hdr[c].next \in S /\ m.hdr[c].next > c
  BY <1>3 DEF Ahead
<1> QED BY <1>2, <1>3, <1>4, <1>5

LEMMA MallocSound ==
  ASSUME NEW m, NEW S, NEW F, Sound(m, S, F), NEW k \in Nat \ {0},
         NEW b, b = UmmMalloc(m, k).block, NEW to, to = UmmMalloc(m, k).heap
  PROVE  \/ b = 0 /\ to = m
         \/ \E S2, F2 : Allotted(m, to, S, F, S2, F2, b, k)
<1> DEFINE c == BestFit(m, k)  s == SplitBlock(m, c, k, TRUE)  n == m.hdr[c].next
<1>1. CASE c = 0
  BY <1>1 DEF UmmMalloc
<1>2. CASE c # 0
  <2>1. c \in F /\ BlockSize(m, c) >= k
    BY <1>2, BestFitSound
  <2> HIDE DEF c
  <2>2. /\ Chain(m.hdr, S) /\ c \in S \ {0, N - 1} /\ c \in Blocks /\ c \in Int
        /\ Ahead(m.hdr, S, c) /\ n \in S /\ n \in Int /\ n > c /\ F \subseteq S \ {0, N - 1}
    BY <2>1, FreeBlock
  <2>3. CASE BlockSize(m, c) = k
    <3>1. b = c /\ to = Disconnect(m, c)
      BY <1>2, <2>3 DEF UmmMalloc, c
    <3> DEFINE F2 == F \ {c}
    <3>2. Unlinked(m, to, S, F, c)
      BY <2>1, <3>1, DisconnectSound
    <3>3. /\ Sound(to, S, F2) /\ Touched(m, to, {c}, F \cup {0})
          /\ \A x \in S : to.hdr[x].next = m.hdr[x].next /\ to.hdr[x].mark = m.hdr[x].mark
      BY <3>2 DEF Unlinked, SameChain
    <3>4. b \notin Used(S, F) /\ b # 0 /\ Used(S, F2) = Used(S, F) \cup {b}
      BY <1>2, <2>1, <2>2, <3>1 DEF Used
    <3>5. to.hdr[b].next = b + k
      BY <2>2, <2>3, <3>1, <3>3 DEF BlockSize
    <3>6. ASSUME NEW x \in Used(S, F) PROVE Kept(m, to, x)
      <4>1. to.hdr[x].next = m.hdr[x].next
        BY <3>3 DEF Used
      <4>2. {c} \in SUBSET S /\ F \cup {0} \in SUBSET (F \cup {0})
        BY <2>2
      <4>3. Same(m, to, x, m.hdr[x].next)
        BY <3>3, <4>2, ListsOnly
      <4> QED BY <4>1, <4>3 DEF Kept
    <3>7. Packed(m, F) => Packed(to, F2)
      BY <2>2, <3>3 DEF Packed
    <3>8. Clean(m.hdr, S) => Clean(to.hdr, S)
      BY <3>3 DEF Clean
    <3>9. Allotted(m, to, S, F, S, F2, b, k)
      BY <3>3, <3>4, <3>5, <3>6, <3>7, <3>8 DEF Allotted, Tidy
    <3> QED BY <3>9
  <2>4. CASE BlockSize(m, c) # k
    <3> DEFINE r == c + k  S2 == S \cup {r}  F2 == (F \ {c}) \cup {r}
    <3>1. b = c /\ to = MoveLinks(SplitBlock(m, c, k, TRUE), c, c + k)
      BY <1>2, <2>4, Zenon DEF UmmMalloc, c
    <3>2. c + k < n
      BY <2>1, <2>2, <2>4 DEF BlockSize
    <3>3. CutOff(m, to, S, F, c, r)
      BY <2>1, <3>1, <3>2, CutFree
    <3>4. /\ Sound(to, S2, F2) /\ r \in Blocks \ S /\ to.hdr[c].next = r /\ to.hdr[r].next = n
          /\ \A x \in S \ {c} : to.hdr[x].next = m.hdr[x].next
          /\ Touched(m, to, {c, r, n}, F \cup {0, r})
          /\ Clean(m.hdr, S) => Clean(to.hdr, S2)
      BY <3>3 DEF CutOff
    <3>5. r \in Region(m, c) /\ r \in Int /\ r > c
      BY <2>2, <3>2 DEF Region
    <3>6. b \notin Used(S, F) /\ b # 0 /\ Used(S2, F2) = Used(S, F) \cup {b}
      <4> HIDE DEF r
      <4> QED BY <1>2, <2>1, <2>2, <3>1, <3>4, <3>5 DEF Used
    <3>7. ASSUME NEW x \in Used(S, F) PROVE Kept(m, to, x)
      <4>1. x \in Used(S, F) \ {c} /\ to.hdr[x].next = m.hdr[x].next
        BY <2>1, <3>4 DEF Used
      <4>2. /\ {c, r, n} \subseteq S \cup Region(m, c)
            /\ F \cup {0, r} \subseteq F \cup {0} \cup Region(m, c)
        BY <2>2, <3>5
      <4>3. c \in S \ {N - 1}
        BY <2>2
      <4> HIDE DEF r
      <4> QED BY <3>4, <4>1, <4>2, <4>3, OthersKept
    <3>8. ASSUME Packed(m, F) PROVE Packed(to, F2)
      <4>1. \A x \in F : m.hdr[x].next \notin F
        BY <3>8 DEF Packed
      <4>2. ASSUME NEW x \in F \ {c} PROVE to.hdr[x].next \notin F2
        <5>1. x \in S \ {c} /\ m.hdr[x].next \in S
          BY <2>2, FreeBlock
        <5>2. to.hdr[x].next = m.hdr[x].next
          BY <3>4, <5>1
        <5> HIDE DEF r
        <5> QED BY <3>4, <4>1, <5>1, <5>2
      <4>3. n \notin F2
        BY <2>1, <2>2, <3>4, <4>1
      <4> HIDE DEF r
      <4> QED BY <3>4, <4>2, <4>3 DEF Packed
    <3>9. to.hdr[b].next = b + k
      BY <3>1, <3>4
    <3>10. Allotted(m, to, S, F, S2, F2, b, k)
      <4> HIDE DEF r
      <4> QED BY <3>4, <3>6, <3>7, <3>8, <3>9 DEF Allotted, Tidy
    <3> QED BY <3>10
  <2> QED BY <2>3, <2>4
<1> QED BY <1>1, <1>2

-----------------------------------------------------------------------------
(* What the program and the copies write in the memory of a used block.    *)
LEMMA Parity ==
  ASSUME NEW w \in Nat
  PROVE  \/ w % 2 = 0 /\ w = 2 * (w \div 2) /\ w \div 2 \in Nat
         \/ w % 2 # 0 /\ w = 2 * ((w + 1) \div 2) - 1 /\ (w + 1) \div 2 \in Nat \ {0}
OBVIOUS

LEMMA WordSame ==
  ASSUME NEW m, NEW to, NEW lo \in Int, NEW hi \in Int, Same(m, to, lo, hi),
         NEW w \in Nat, w <= 2 * (hi - lo) - 2
  PROVE  Word(to, lo, w) = Word(m, lo, w)
<1>1. CASE w % 2 = 0
  <2>1. w = 2 * (w \div 2) /\ w \div 2 \in Nat
    BY <1>1, Parity
  <2>2. lo + w \div 2 \in lo .. hi - 1
    BY <2>1
  <2> QED BY <1>1, <2>2 DEF Same, Word
<1>2. CASE w % 2 # 0
  <2>1. w = 2 * ((w + 1) \div 2) - 1 /\ (w + 1) \div 2 \in Nat \ {0}
    BY <1>2, Parity
  <2>2. lo + (w + 1) \div 2 \in lo + 1 .. hi - 1
    BY <2>1
  <2> QED BY <1>2, <2>2 DEF Same, Word
<1> QED BY <1>1, <1>2

LEMMA WordKind ==
  ASSUME NEW m \in Memory, NEW c \in Int, NEW w \in Nat, c .. c + (w + 1) \div 2 \subseteq Blocks
  PROVE  IF w % 2 = 0 THEN Word(m, c, w) \in Links \cup Data
                      ELSE Word(m, c, w) \in Header \cup Data
<1>1. (w + 1) \div 2 \in Nat /\ w \div 2 \in Nat /\ w \div 2 <= (w + 1) \div 2
  OBVIOUS
<1>2. c + w \div 2 \in Blocks /\ c + (w + 1) \div 2 \in Blocks
  BY <1>1
<1> QED BY <1>2 DEF Word, Memory, Headers, Bodies

(* Words lo to hi - 1 of block c hold val.                                 *)
Filled(m, to, S, F, c, lo, hi, val) ==
  /\ Sound(to, S, F)
  /\ \A x \in S : to.hdr[x] = m.hdr[x]
  /\ Touched(m, to, Region(m, c), Region(m, c))
  /\ \A w \in Nat : w <= 2 * (m.hdr[c].next - c) - 2 =>
       Word(to, c, w) = IF w \in lo .. hi - 1 THEN val[w] ELSE Word(m, c, w)
LEMMA PutWordsSound ==
  ASSUME NEW m, NEW S, NEW F, Sound(m, S, F), NEW c \in Used(S, F),
         NEW lo \in Nat, NEW hi \in Nat, hi <= 2 * (m.hdr[c].next - c) - 1, NEW val,
         \A w \in lo .. hi - 1 : IF w % 2 = 0 THEN val[w] \in Links \cup Data
                                             ELSE val[w] \in Header \cup Data,
         NEW to, to = PutWords(m, c, lo, hi, val)
  PROVE  Filled(m, to, S, F, c, lo, hi, val)
<1> DEFINE n == m.hdr[c].next
           hdr == [b \in Blocks |-> LET w == 2 * (b - c) - 1 IN
                     IF w \in lo .. hi - 1 THEN val[w] ELSE m.hdr[b]]
           body == [b \in Blocks |-> LET w == 2 * (b - c) IN
                     IF w \in lo .. hi - 1 THEN val[w] ELSE m.body[b]]
<1>1. to = [hdr |-> hdr, body |-> body]
  BY DEF PutWords
<1>2. SoundTypes(m, S, F)
  BY SoundHasTypes
<1>3. /\ Chain(m.hdr, S) /\ c \in S \ {0, N - 1} /\ c \in Int /\ c \in Blocks /\ c \notin F
      /\ n \in S /\ n \in Int /\ n > c
  BY UsedBlock
<1>4. /\ c + 1 .. n - 1 \subseteq Blocks \ S /\ c .. n - 1 \subseteq Blocks
  BY <1>3, RegionsApart
<1>5. Blocks \subseteq Int /\ S \subseteq Blocks /\ F \cup {0} \subseteq S
  BY <1>2, HeapAssumption DEF SoundTypes, Chain, Blocks
<1>6. ASSUME NEW b \in Blocks
      PROVE  /\ hdr[b] \in Header \cup Data /\ body[b] \in Links \cup Data
             /\ b \notin c + 1 .. n - 1 => hdr[b] = m.hdr[b]
             /\ b \notin c .. n - 1 => body[b] = m.body[b]
  <2>1. b \in Int
    BY <1>5
  <2>2. m.hdr[b] \in Header \cup Data /\ m.body[b] \in Links \cup Data
    BY <1>2 DEF SoundTypes, Headers, Bodies
  <2>3. (2 * (b - c) - 1) % 2 # 0 /\ (2 * (b - c)) % 2 = 0
    BY <1>3, <2>1
  <2>4. 2 * (b - c) - 1 \in lo .. hi - 1 => b \in c + 1 .. n - 1
    BY <1>3, <2>1
  <2>5. 2 * (b - c) \in lo .. hi - 1 => b \in c .. n - 1
    BY <1>3, <2>1
  <2>6. hdr[b] = IF 2 * (b - c) - 1 \in lo .. hi - 1 THEN val[2 * (b - c) - 1] ELSE m.hdr[b]
    OBVIOUS
  <2>7. body[b] = IF 2 * (b - c) \in lo .. hi - 1 THEN val[2 * (b - c)] ELSE m.body[b]
    OBVIOUS
  <2> HIDE DEF hdr, body
  <2> QED BY <2>2, <2>3, <2>4, <2>5, <2>6, <2>7
<1>7. ASSUME NEW w \in Nat, w <= 2 * (n - c) - 2
      PROVE  Word(to, c, w) = IF w \in lo .. hi - 1 THEN val[w] ELSE Word(m, c, w)
  <2>1. CASE w % 2 = 0
    <3> DEFINE b == c + w \div 2
    <3>1. w = 2 * (b - c) /\ b \in c .. n - 1
      BY <1>3, <1>7, <2>1, Parity
    <3>2. to.body[b] = IF w \in lo .. hi - 1 THEN val[w] ELSE m.body[b]
      BY <1>1, <1>4, <3>1
    <3> QED BY <2>1, <3>2 DEF Word
  <2>2. CASE w % 2 # 0
    <3> DEFINE b == c + (w + 1) \div 2
    <3>1. w = 2 * (b - c) - 1 /\ b \in c .. n - 1
      BY <1>3, <1>7, <2>2, Parity
    <3>2. to.hdr[b] = IF w \in lo .. hi - 1 THEN val[w] ELSE m.hdr[b]
      BY <1>1, <1>4, <3>1
    <3> QED BY <2>2, <3>2 DEF Word
  <2> QED BY <2>1, <2>2
<1>8. hdr \in Headers /\ body \in Bodies
  <2>1. hdr = [b \in Blocks |-> hdr[b]] /\ body = [b \in Blocks |-> body[b]]
    OBVIOUS
  <2> HIDE DEF hdr, body
  <2> QED BY <1>6, <2>1 DEF Headers, Bodies
<1> HIDE DEF hdr, body
<1>9. to.hdr = hdr /\ to.body = body /\ to \in Memory
  BY <1>1, <1>8 DEF Memory
<1>10. \A x \in S : hdr[x] = m.hdr[x]
  BY <1>4, <1>5, <1>6
<1>11. \A x \in F \cup {0} : body[x] = m.body[x]
  <2>1. ASSUME NEW x \in F \cup {0} PROVE x \in Blocks /\ x \notin c .. n - 1
    <3>1. x \in S /\ x # c
      BY <1>3, <1>5
    <3>2. x \notin c + 1 .. n - 1
      BY <1>4, <3>1
    <3> QED BY <1>3, <1>5, <3>1, <3>2
  <2> QED BY <1>6, <2>1
<1>12. Sound(to, S, F)
  <2>1. Chain(hdr, S) /\ Bits(hdr, S, F)
    BY <1>2, <1>10, ChainKept DEF SoundTypes, Bits
  <2>2. Ring(body, F)
    BY <1>2, <1>11, RingKept DEF SoundTypes
  <2> QED BY <1>9, <2>1, <2>2 DEF Sound
<1>13. Touched(m, to, Region(m, c), Region(m, c))
  BY <1>3, <1>6, <1>9 DEF Touched, Region
<1> QED BY <1>7, <1>9, <1>10, <1>12, <1>13 DEF Filled

(* Copied words have the right kind: words w of any two blocks are both    *)
(* headers or both bodies.                                                 *)
LEMMA CopySound ==
  ASSUME NEW m, NEW S, NEW F, Sound(m, S, F), NEW b \in Used(S, F), NEW c \in Int,
         NEW n \in Nat, n <= 2 * (m.hdr[b].next - b) - 1,
         NEW e \in Int, n <= 2 * (e - c) - 1, c .. e - 1 \subseteq Blocks,
         NEW to, to = Copy(m, c, b, n)
  PROVE  Filled(m, to, S, F, b, 0, n, [w \in 0 .. n - 1 |-> Word(m, c, w)])
<1> DEFINE val == [w \in 0 .. n - 1 |-> Word(m, c, w)]
<1>1. m \in Memory
  BY DEF Sound
<1>2. ASSUME NEW w \in 0 .. n - 1
      PROVE  IF w % 2 = 0 THEN val[w] \in Links \cup Data ELSE val[w] \in Header \cup Data
  <2>1. w \in Nat /\ w <= 2 * (e - c) - 2
    OBVIOUS
  <2>2. c + (w + 1) \div 2 <= e - 1
    BY <2>1, Parity
  <2>3. c .. c + (w + 1) \div 2 \subseteq Blocks
    BY <2>1, <2>2
  <2>4. val[w] = Word(m, c, w)
    OBVIOUS
  <2> QED BY <1>1, <2>1, <2>3, <2>4, WordKind
<1>3. to = PutWords(m, b, 0, n, val)
  BY DEF Copy
<1> HIDE DEF val
<1>4. Filled(m, to, S, F, b, 0, n, val)
  BY <1>2, <1>3, PutWordsSound
<1> QED BY <1>4 DEF val

(* A write in a used block leaves the others and the lists as they are.    *)
LEMMA FilledTidy ==
  ASSUME NEW m, NEW S, NEW F, Sound(m, S, F), NEW c \in Used(S, F),
         NEW lo, NEW hi, NEW val, NEW to, Filled(m, to, S, F, c, lo, hi, val)
  PROVE  Tidy(m, to, S, F, S, F, c) /\ Sound(to, S, F) /\ to.hdr[c].next = m.hdr[c].next
<1>1. /\ Sound(to, S, F) /\ \A x \in S : to.hdr[x] = m.hdr[x]
      /\ Touched(m, to, Region(m, c), Region(m, c))
  BY DEF Filled
<1>2. ASSUME NEW b \in Used(S, F) \ {c} PROVE Kept(m, to, b)
  <2>1. to.hdr[b].next = m.hdr[b].next /\ c \in S \ {N - 1}
    BY <1>1 DEF Used
  <2>2. Region(m, c) \subseteq S \cup Region(m, c) /\ Region(m, c) \subseteq F \cup {0} \cup Region(m, c)
    OBVIOUS
  <2> QED BY <1>1, <2>1, <2>2, OthersKept
<1>3. F \subseteq S /\ c \in S
  BY SoundHasTypes DEF SoundTypes, Used
<1> QED BY <1>1, <1>2, <1>3 DEF Tidy, Packed, Clean

LEMMA TidyTrans ==
  ASSUME NEW m, NEW u, NEW to, NEW S, NEW F, NEW S1, NEW F1, NEW S2, NEW F2, NEW c, NEW d,
         Tidy(m, u, S, F, S1, F1, c), Tidy(u, to, S1, F1, S2, F2, d),
         Used(S, F) \ {c} \subseteq Used(S1, F1) \ {d}
  PROVE  Tidy(m, to, S, F, S2, F2, c)
<1>1. ASSUME NEW b \in Used(S, F) \ {c} PROVE Kept(m, to, b)
  <2>1. Kept(m, u, b) /\ Kept(u, to, b)
    BY DEF Tidy
  <2> QED BY <2>1, KeptTrans
<1> QED BY <1>1 DEF Tidy

-----------------------------------------------------------------------------
(* umm_realloc: the grown block d holds the words of block c.              *)
Carried(m, to, c, d, n) == \A w \in Nat : w < n => Word(to, d, w) = Word(m, c, w)
Placed(m, to, S, F, S2, F2, c, d, n) ==
  /\ Sound(to, S2, F2)
  /\ d \notin Used(S, F) \ {c} /\ Used(S2, F2) = (Used(S, F) \ {c}) \cup {d}
  /\ to.hdr[d].next - d >= m.hdr[c].next - c
  /\ Carried(m, to, c, d, n)
  /\ Tidy(m, to, S, F, S2, F2, c)

Slid(m, to, S, F, c, p, n) ==
  Placed(m, to, S, F, S \ {c}, F \ {p}, c, p, n) /\ to.hdr[p].next = m.hdr[c].next
LEMMA SlideSound ==
  ASSUME NEW m, NEW S, NEW F, Sound(m, S, F), NEW c \in Used(S, F), NEW p, p = m.hdr[c].prev,
         p \in F, NEW n \in Nat, n <= 2 * (m.hdr[c].next - c) - 1,
         NEW v \in BOOLEAN, ~v,
         NEW to, to = Copy(AssimilateDown(Disconnect(m, p), c, v), c, p, n)
  PROVE  Slid(m, to, S, F, c, p, n)
<1> DEFINE u == Disconnect(m, p)  a == AssimilateDown(u, c, v)  F1 == F \ {p}  S2 == S \ {c}
           e == m.hdr[c].next
           val == [w \in 0 .. n - 1 |-> Word(a, c, w)]
<1>1. /\ Chain(m.hdr, S) /\ c \in S \ {0, N - 1} /\ c \notin F /\ c \in Int
      /\ e \in S /\ e \in Int /\ e > c /\ p \in S /\ p \in Int /\ p < c /\ p # 0
      /\ F \subseteq S \ {0, N - 1}
  BY UsedBlock, FreeBlock
<1>2. Unlinked(m, u, S, F, p)
  BY DisconnectSound
<1> HIDE DEF u
<1>3. /\ Sound(u, S, F1) /\ Touched(m, u, {p}, F \cup {0})
      /\ \A x \in S : /\ u.hdr[x].next = m.hdr[x].next /\ u.hdr[x].prev = m.hdr[x].prev
                      /\ u.hdr[x].mark = m.hdr[x].mark
  BY <1>2 DEF Unlinked, SameChain
<1>4. c \in Used(S, F1) /\ u.hdr[c].prev = p /\ p \notin F1 /\ u.hdr[c].next = e
  BY <1>1, <1>3 DEF Used
<1>5. TookIn(u, a, S, F1, c, p)
  <2>1. Sound(u, S, F1) /\ u.hdr[c].prev # 0 /\ (v <=> u.hdr[c].prev \in F1)
    BY <1>1, <1>3, <1>4
  <2> HIDE DEF F1
  <2> QED BY <1>4, <2>1, AssimilateDownSound
<1> HIDE DEF a
<1>6. /\ Sound(a, S2, F1) /\ a.hdr[p].next = e
      /\ Touched(u, a, {p, e}, {})
      /\ \A x \in S \ {c, p} : a.hdr[x].next = u.hdr[x].next
      /\ Clean(u.hdr, S) => Clean(a.hdr, S2)
  BY <1>4, <1>5 DEF TookIn
<1>7. Used(S2, F1) = (Used(S, F) \ {c}) \cup {p} /\ p \in Used(S2, F1)
  BY <1>1 DEF Used
<1>8. Touched(m, a, {p, e}, F \cup {0}) /\ {p, e} \in SUBSET S
  BY <1>1, <1>3, <1>6 DEF Touched
<1>9. \A b \in Used(S, F) : Same(m, a, b, m.hdr[b].next)
  BY <1>8, ListsOnly
<1>10. Tidy(m, a, S, F, S2, F1, c)
  <2>1. ASSUME NEW b \in Used(S, F) \ {c} PROVE Kept(m, a, b)
    <3>1. b \in S \ {c, p}
      BY DEF Used
    <3> QED BY <1>3, <1>6, <1>9, <3>1 DEF Kept
  <2>2. Packed(m, F) => Packed(a, F1)
    BY <1>1, <1>3, <1>6 DEF Packed
  <2>3. Clean(m.hdr, S) => Clean(a.hdr, S2)
    BY <1>3, <1>6 DEF Clean
  <2> QED BY <2>1, <2>2, <2>3 DEF Tidy
<1>11. c .. e - 1 \subseteq Blocks
  BY <1>1, RegionsApart
<1>12. Filled(a, to, S2, F1, p, 0, n, val)
  <2>1. n <= 2 * (a.hdr[p].next - p) - 1
    BY <1>1, <1>6
  <2>2. to = Copy(a, c, p, n)
    BY DEF a, u
  <2>3. c \in Int /\ e \in Int /\ n <= 2 * (e - c) - 1 /\ Sound(a, S2, F1) /\ p \in Used(S2, F1)
    BY <1>1, <1>6, <1>7
  <2> HIDE DEF S2, F1, e
  <2> QED BY <1>11, <2>1, <2>2, <2>3, CopySound
<1>13. Tidy(a, to, S2, F1, S2, F1, p) /\ Sound(to, S2, F1) /\ to.hdr[p].next = e
  <2>1. Sound(a, S2, F1) /\ p \in Used(S2, F1)
    BY <1>6, <1>7
  <2> HIDE DEF S2, F1, val
  <2> QED BY <1>6, <1>12, <2>1, FilledTidy
<1>14. Carried(m, to, c, p, n)
  <2> SUFFICES ASSUME NEW w \in Nat, w < n PROVE Word(to, p, w) = Word(m, c, w)
    BY DEF Carried
  <2>1. w <= 2 * (a.hdr[p].next - p) - 2 /\ w \in 0 .. n - 1
    BY <1>1, <1>6
  <2>2. Word(to, p, w) = val[w]
    BY <1>12, <2>1 DEF Filled
  <2>3. val[w] = Word(a, c, w)
    BY <2>1
  <2>4. w <= 2 * (e - c) - 2 /\ Same(m, a, c, e)
    BY <1>1, <1>9
  <2>5. Word(a, c, w) = Word(m, c, w)
    BY <1>1, <2>4, WordSame
  <2> QED BY <2>2, <2>3, <2>5
<1>15. Tidy(m, to, S, F, S2, F1, c)
  <2>1. Used(S, F) \ {c} \subseteq Used(S2, F1) \ {p}
    BY <1>7 DEF Used
  <2>2. Tidy(m, a, S, F, S2, F1, c) /\ Tidy(a, to, S2, F1, S2, F1, p)
    BY <1>10, <1>13
  <2> HIDE DEF S2, F1
  <2> QED BY <2>1, <2>2, TidyTrans
<1>16. p \notin Used(S, F) \ {c} /\ to.hdr[p].next - p >= e - c
  <2>1. p \notin Used(S, F)
    BY DEF Used
  <2>2. e - p >= e - c
    BY <1>1
  <2> QED BY <1>13, <2>1, <2>2
<1>17. Placed(m, to, S, F, S2, F1, c, p, n)
  BY <1>7, <1>13, <1>14, <1>15, <1>16 DEF Placed
<1> QED BY <1>13, <1>17 DEF Slid

LEMMA PlaceSound ==
  ASSUME NEW m, NEW S, NEW F, Sound(m, S, F), NEW c \in Used(S, F),
         NEW n, n = 2 * (m.hdr[c].next - c) - 1, NEW up, up = AssimilateUp(m, c),
         NEW p, p = up.hdr[c].prev, NEW v \in BOOLEAN, ~v, NEW down \in BOOLEAN,
         down => up.hdr[p].free, NEW d, d = IF down THEN p ELSE c,
         NEW to, to = IF down THEN Copy(AssimilateDown(Disconnect(up, p), c, v), c, p, n) ELSE up
  PROVE  \E S2, F2 : Placed(m, to, S, F, S2, F2, c, d, n)
<1> DEFINE e == m.hdr[c].next
<1>1. PICK S1, F1 : Grown(m, up, S, F, S1, F1, c)
  BY GrowSound
<1>2. /\ Sound(up, S1, F1) /\ Used(S1, F1) = Used(S, F) /\ c \in Used(S1, F1)
      /\ up.hdr[c].next >= e /\ Same(m, up, c, e) /\ Tidy(m, up, S, F, S1, F1, c)
  BY <1>1 DEF Grown
<1>3. /\ c \in Int /\ e \in Int /\ e > c /\ up.hdr[c].next \in Int /\ up.hdr[c].prev \in S1
  BY <1>2, UsedBlock
<1>4. n \in Nat /\ n <= 2 * (up.hdr[c].next - c) - 1 /\ up.hdr[c].next - c >= e - c
  BY <1>2, <1>3
<1>5. Carried(m, up, c, c, n)
  <2> SUFFICES ASSUME NEW w \in Nat, w < n PROVE Word(up, c, w) = Word(m, c, w)
    BY DEF Carried
  <2>1. w <= 2 * (e - c) - 2
    BY <1>3
  <2> QED BY <1>2, <1>3, <2>1, WordSame
<1>6. CASE down
  <2>1. d = p /\ to = Copy(AssimilateDown(Disconnect(up, p), c, v), c, p, n) /\ p \in S1
    BY <1>3, <1>6
  <2>2. p \in F1
    <3>1. SoundTypes(up, S1, F1)
      BY <1>2, SoundHasTypes
    <3> QED BY <1>6, <2>1, <3>1 DEF SoundTypes
  <2> DEFINE S2 == S1 \ {c}  F2 == F1 \ {p}
  <2>3. Placed(up, to, S1, F1, S2, F2, c, p, n)
    <3>1. Sound(up, S1, F1) /\ c \in Used(S1, F1) /\ n <= 2 * (up.hdr[c].next - c) - 1 /\ n \in Nat
      BY <1>2, <1>4
    <3>2. to = Copy(AssimilateDown(Disconnect(up, p), c, v), c, p, n)
      BY <2>1
    <3> HIDE DEF e
    <3>3. Slid(up, to, S1, F1, c, p, n)
      BY <2>2, <3>1, <3>2, SlideSound
    <3> QED BY <3>3 DEF Slid, S2, F2
  <2> HIDE DEF S2, F2
  <2>4. /\ Sound(to, S2, F2) /\ p \notin Used(S, F) \ {c}
        /\ Used(S2, F2) = (Used(S, F) \ {c}) \cup {p}
        /\ to.hdr[p].next - p >= up.hdr[c].next - c /\ Carried(up, to, c, p, n)
        /\ Tidy(up, to, S1, F1, S2, F2, c)
    BY <1>2, <2>3 DEF Placed
  <2>5. Carried(m, to, c, p, n)
    BY <1>5, <2>4 DEF Carried
  <2>6. Tidy(m, to, S, F, S2, F2, c)
    <3>1. Used(S, F) \ {c} \subseteq Used(S1, F1) \ {c}
      BY <1>2
    <3>2. Tidy(m, up, S, F, S1, F1, c) /\ Tidy(up, to, S1, F1, S2, F2, c)
      BY <1>2, <2>4
    <3> HIDE DEF e
    <3> QED BY <3>1, <3>2, TidyTrans
  <2>7. to.hdr[p].next - p >= e - c
    <3>1. to.hdr[p].next \in Int /\ p \in Int
      <4>1. Sound(to, S2, F2) /\ p \in Used(S2, F2)
        BY <2>4
      <4> QED BY <4>1, UsedBlock
    <3>2. /\ up.hdr[c].next \in Int /\ c \in Int /\ e \in Int
          /\ up.hdr[c].next - c >= e - c /\ to.hdr[p].next - p >= up.hdr[c].next - c
      BY <1>3, <1>4, <2>4
    <3> HIDE DEF e
    <3> QED BY <3>1, <3>2
  <2>8. Placed(m, to, S, F, S2, F2, c, d, n)
    BY <2>1, <2>4, <2>5, <2>6, <2>7 DEF Placed
  <2> QED BY <2>8
<1>7. CASE ~down
  <2>1. Placed(m, up, S, F, S1, F1, c, c, n)
    BY <1>2, <1>4, <1>5 DEF Placed
  <2> QED BY <1>7, <2>1
<1> QED BY <1>6, <1>7

(* The blocks that are too many are cut off and freed.                     *)
Moved(m, to, S, F, S2, F2, c, b, k, n) ==
  /\ Sound(to, S2, F2)
  /\ b # 0 /\ b \notin Used(S, F) \ {c} /\ Used(S2, F2) = (Used(S, F) \ {c}) \cup {b}
  /\ to.hdr[b].next = b + k
  /\ \A w \in Nat : w < n /\ w < 2 * k - 1 => Word(to, b, w) = Word(m, c, w)
  /\ Tidy(m, to, S, F, S2, F2, c)

LEMMA TrimSound ==
  ASSUME NEW m, NEW S, NEW F, Sound(m, S, F), NEW c \in Used(S, F), NEW k \in Nat \ {0},
         c + k < m.hdr[c].next, NEW v \in BOOLEAN, ~v, NEW n,
         NEW to, to = UmmFree(SplitBlock(m, c, k, v), c + k)
  PROVE  \E S2, F2 : Moved(m, to, S, F, S2, F2, c, c, k, n)
<1> DEFINE u == SplitBlock(m, c, k, v)  r == c + k  S1 == S \cup {r}  e == m.hdr[c].next
<1>1. /\ Chain(m.hdr, S) /\ c \in S \ {0, N - 1} /\ c \notin F /\ c \in Int
      /\ e \in S /\ e \in Int /\ e > c
  BY UsedBlock
<1>2. CutInTwo(m, u, S, F, c, r)
  <2>1. PICK one : one = SplitBlock(m, c, k, FALSE)
    OBVIOUS
  <2>2. CutInTwo(m, one, S, F, c, r)
    BY <2>1, CutUsed
  <2>3. v = FALSE
    OBVIOUS
  <2> QED BY <2>1, <2>2, <2>3, Zenon
<1>3. to = UmmFree(u, r) /\ r \in Region(m, c) /\ r > c /\ r \in Int
  BY <1>1 DEF Region
<1> HIDE DEF u, r
<1>4. /\ Sound(u, S1, F) /\ r \in Blocks \ S /\ u.hdr[c].next = r /\ u.hdr[r].next = e
      /\ \A x \in S \ {c} : u.hdr[x].next = m.hdr[x].next
      /\ Touched(m, u, {c, r, e}, {})
      /\ Clean(m.hdr, S) => Clean(u.hdr, S1)
  BY <1>2 DEF CutInTwo
<1>5. Used(S1, F) = Used(S, F) \cup {r} /\ r \in Used(S1, F) /\ r \notin Used(S, F)
  <2>1. r \notin F /\ r \notin {0, N - 1}
    <3>1. SoundTypes(m, S, F)
      BY SoundHasTypes
    <3> QED BY <1>1, <1>4, <3>1 DEF SoundTypes, Chain
  <2> QED BY <1>4, <2>1 DEF Used
<1>6. \E S2, F2 : Freed(u, to, S1, F, S2, F2, r)
  <2> HIDE DEF S1
  <2> QED BY <1>3, <1>4, <1>5, FreeSound
<1>7. PICK S2, F2 : Freed(u, to, S1, F, S2, F2, r)
  BY <1>6
<1>8. /\ Sound(to, S2, F2) /\ Used(S2, F2) = Used(S, F)
      /\ Tidy(u, to, S1, F, S2, F2, r)
  BY <1>5, <1>7 DEF Freed
<1>9. Tidy(m, u, S, F, S1, F, c)
  <2>1. ASSUME NEW b \in Used(S, F) \ {c} PROVE Kept(m, u, b)
    <3>1. b \in Used(S, F) \ {c} /\ u.hdr[b].next = m.hdr[b].next /\ c \in S \ {N - 1}
      BY <1>1, <1>4 DEF Used
    <3>2. {c, r, e} \subseteq S \cup Region(m, c) /\ {} \subseteq F \cup {0} \cup Region(m, c)
      BY <1>1, <1>3
    <3> QED BY <1>4, <3>1, <3>2, OthersKept
  <2>2. Packed(m, F) => Packed(u, F)
    <3>1. F \subseteq S
      BY SoundHasTypes DEF SoundTypes
    <3> QED BY <1>1, <1>4, <3>1 DEF Packed
  <2> QED BY <1>4, <2>1, <2>2 DEF Tidy
<1>10. Tidy(m, to, S, F, S2, F2, c)
  <2>1. Used(S, F) \ {c} \subseteq Used(S1, F) \ {r}
    BY <1>5
  <2> HIDE DEF S1
  <2> QED BY <1>8, <1>9, <2>1, TidyTrans
<1>11. Kept(u, to, c)
  BY <1>5, <1>8 DEF Tidy
<1>12. Same(m, u, c, r)
  <2>1. ASSUME NEW x \in c + 1 .. r - 1 PROVE u.hdr[x] = m.hdr[x]
    <3>1. x \in c + 1 .. e - 1 /\ x \notin {c, r, e}
      BY <1>1, <1>3, <2>1 DEF Region
    <3>2. x \in Blocks
      BY <1>1, <3>1, RegionsApart
    <3> QED BY <1>4, <3>1, <3>2 DEF Touched
  <2>2. ASSUME NEW x \in c .. r - 1 PROVE u.body[x] = m.body[x]
    <3>1. x \in c .. e - 1
      BY <1>1, <1>3, <2>2 DEF Region
    <3>2. x \in Blocks
      BY <1>1, <3>1, RegionsApart
    <3> QED BY <1>4, <3>2 DEF Touched
  <2> QED BY <2>1, <2>2 DEF Same
<1>13. ASSUME NEW w \in Nat, w < 2 * k - 1 PROVE Word(to, c, w) = Word(m, c, w)
  <2>1. w <= 2 * (r - c) - 2
    BY <1>1, <1>13 DEF r
  <2>2. Same(u, to, c, r)
    BY <1>4, <1>11 DEF Kept
  <2> QED BY <1>1, <1>3, <1>12, <2>1, <2>2, WordSame
<1>14. to.hdr[c].next = c + k
  BY <1>4, <1>11 DEF Kept, r
<1>15. c # 0 /\ Used(S, F) = (Used(S, F) \ {c}) \cup {c}
  BY <1>1
<1>16. Moved(m, to, S, F, S2, F2, c, c, k, n)
  BY <1>8, <1>10, <1>13, <1>14, <1>15 DEF Moved
<1> QED BY <1>16

(* What does not fit moves; with no room for it, it is freed.              *)
LEMMA RelocateSound ==
  ASSUME NEW m, NEW S, NEW F, Sound(m, S, F), NEW c \in Used(S, F), NEW k \in Nat \ {0},
         NEW n \in Nat, n <= 2 * (m.hdr[c].next - c) - 1, n <= 2 * k - 1,
         NEW b, b = Relocate(m, c, k, n).block, NEW to, to = Relocate(m, c, k, n).heap
  PROVE  \/ b = 0 /\ \E S2, F2 : Freed(m, to, S, F, S2, F2, c)
         \/ \E S2, F2 : Moved(m, to, S, F, S2, F2, c, b, k, n)
<1> DEFINE new == UmmMalloc(m, k)  e == m.hdr[c].next
<1>1. PICK u : u = new.heap
  OBVIOUS
<1>2. b = new.block /\ to = UmmFree(IF new.block = 0 THEN m ELSE Copy(u, c, b, n), c)
  BY <1>1 DEF Relocate
<1>3. \/ b = 0 /\ u = m
      \/ \E S2, F2 : Allotted(m, u, S, F, S2, F2, b, k)
  BY <1>1, <1>2, MallocSound
<1> HIDE DEF new
<1>4. CASE b = 0
  <2>1. to = UmmFree(m, c)
    BY <1>2, <1>4
  <2> QED BY <1>4, <2>1, FreeSound
<1>5. CASE b # 0
  <2>1. PICK S1, F1 : Allotted(m, u, S, F, S1, F1, b, k)
    BY <1>3, <1>5
  <2>2. /\ Sound(u, S1, F1) /\ b \notin Used(S, F) /\ Used(S1, F1) = Used(S, F) \cup {b}
        /\ u.hdr[b].next = b + k /\ Tidy(m, u, S, F, S1, F1, b)
    BY <2>1 DEF Allotted
  <2>3. PICK p : p = Copy(u, c, b, n)
    OBVIOUS
  <2>4. to = UmmFree(p, c) /\ b \in Used(S1, F1) /\ c \in Used(S1, F1) /\ c # b
    BY <1>2, <1>5, <2>2, <2>3
  <2>5. Kept(m, u, c)
    BY <2>2, <2>4 DEF Tidy
  <2>6. u.hdr[c].next = e /\ Same(m, u, c, e) /\ b \in Int /\ c \in Int /\ e \in Int /\ e > c
    BY <2>2, <2>4, <2>5, UsedBlock DEF Kept
  <2> DEFINE val == [w \in 0 .. n - 1 |-> Word(u, c, w)]
  <2>7. Filled(u, p, S1, F1, b, 0, n, val)
    <3>1. c .. e - 1 \subseteq Blocks
      <4>1. Chain(u.hdr, S1) /\ c \in S1 \ {N - 1}
        BY <2>2, <2>4, UsedBlock
      <4> QED BY <2>6, <4>1, RegionsApart
    <3>2. n <= 2 * (u.hdr[b].next - b) - 1 /\ n <= 2 * (e - c) - 1
      BY <2>2, <2>6
    <3>3. /\ Sound(u, S1, F1) /\ b \in Used(S1, F1) /\ b \in Int /\ c \in Int /\ e \in Int
          /\ p = Copy(u, c, b, n)
      BY <2>2, <2>3, <2>4, <2>6
    <3> HIDE DEF e
    <3> QED BY <3>1, <3>2, <3>3, CopySound
  <2> HIDE DEF val
  <2>8. Tidy(u, p, S1, F1, S1, F1, b) /\ Sound(p, S1, F1) /\ p.hdr[b].next = b + k
    BY <2>2, <2>4, <2>7, FilledTidy
  <2>9. PICK S2, F2 : Freed(p, to, S1, F1, S2, F2, c)
    BY <2>4, <2>8, FreeSound
  <2>10. /\ Sound(to, S2, F2) /\ Used(S2, F2) = (Used(S, F) \ {c}) \cup {b}
         /\ Tidy(p, to, S1, F1, S2, F2, c)
    BY <2>2, <2>4, <2>9 DEF Freed
  <2>11. Kept(p, to, b)
    BY <2>4, <2>10 DEF Tidy
  <2>12. ASSUME NEW w \in Nat, w < n PROVE Word(to, b, w) = Word(m, c, w)
    <3>1. /\ w <= 2 * (u.hdr[b].next - b) - 2 /\ w <= 2 * (p.hdr[b].next - b) - 2
          /\ w <= 2 * (e - c) - 2 /\ w \in 0 .. n - 1 /\ p.hdr[b].next \in Int
      BY <2>2, <2>6, <2>8, <2>12
    <3>2. Word(p, b, w) = val[w]
      BY <2>7, <3>1 DEF Filled
    <3>3. val[w] = Word(u, c, w)
      BY <3>1 DEF val
    <3>4. Word(u, c, w) = Word(m, c, w)
      BY <2>6, <3>1, WordSame
    <3>5. Same(p, to, b, p.hdr[b].next)
      BY <2>11 DEF Kept
    <3>6. Word(to, b, w) = Word(p, b, w)
      BY <2>6, <3>1, <3>5, WordSame
    <3> QED BY <3>2, <3>3, <3>4, <3>6
  <2>13. to.hdr[b].next = b + k
    BY <2>8, <2>11 DEF Kept
  <2>14. Tidy(m, to, S, F, S2, F2, c)
    <3>1. Tidy(m, p, S, F, S1, F1, b)
      <4>1. Used(S, F) \ {b} \subseteq Used(S1, F1) \ {b}
        BY <2>2
      <4> QED BY <2>2, <2>8, <4>1, TidyTrans
    <3>2. ASSUME NEW x \in Used(S, F) \ {c} PROVE Kept(m, to, x)
      <4>1. Kept(m, p, x) /\ Kept(p, to, x)
        BY <2>2, <2>10, <3>1 DEF Tidy
      <4> QED BY <4>1, KeptTrans
    <3> QED BY <2>10, <3>1, <3>2 DEF Tidy
  <2>15. b \notin Used(S, F) \ {c}
    BY <2>2
  <2>16. Moved(m, to, S, F, S2, F2, c, b, k, n)
    BY <1>5, <2>10, <2>12, <2>13, <2>14, <2>15 DEF Moved
  <2> QED BY <2>16
<1> QED BY <1>4, <1>5

LEMMA PlacedThenMoved ==
  ASSUME NEW m, NEW S, NEW F, NEW g, NEW S1, NEW F1, NEW c, NEW d, NEW n,
         Placed(m, g, S, F, S1, F1, c, d, n),
         NEW to, NEW S2, NEW F2, NEW b, NEW k
  PROVE  /\ Moved(g, to, S1, F1, S2, F2, d, b, k, n) => Moved(m, to, S, F, S2, F2, c, b, k, n)
         /\ Freed(g, to, S1, F1, S2, F2, d) => Freed(m, to, S, F, S2, F2, c)
<1>1. /\ d \notin Used(S, F) \ {c} /\ Used(S1, F1) = (Used(S, F) \ {c}) \cup {d}
      /\ Carried(m, g, c, d, n) /\ Tidy(m, g, S, F, S1, F1, c)
  BY DEF Placed
<1>2. Used(S1, F1) \ {d} = Used(S, F) \ {c}
  BY <1>1
<1>3. Tidy(g, to, S1, F1, S2, F2, d) => Tidy(m, to, S, F, S2, F2, c)
  BY <1>1, <1>2, TidyTrans
<1>4. ASSUME Moved(g, to, S1, F1, S2, F2, d, b, k, n) PROVE Moved(m, to, S, F, S2, F2, c, b, k, n)
  BY <1>1, <1>2, <1>3, <1>4 DEF Moved, Carried
<1>5. ASSUME Freed(g, to, S1, F1, S2, F2, d) PROVE Freed(m, to, S, F, S2, F2, c)
  BY <1>2, <1>3, <1>5 DEF Freed
<1> QED BY <1>4, <1>5

(* The branches of umm_realloc: what it tries and what it decides on.      *)
Branches(m, c, k, n, b, to, up, p, down, d, v, g) ==
  /\ up = AssimilateUp(m, c) /\ p = up.hdr[c].prev
  /\ down \in BOOLEAN /\ v \in BOOLEAN /\ ~v
  /\ down <=> (up.hdr[p].free /\ k <= up.hdr[c].next - p)
  /\ d = IF down THEN p ELSE c
  /\ g = IF down THEN Copy(AssimilateDown(Disconnect(up, p), c, v), c, p, n) ELSE up
  /\ BlockSize(m, c) = k => to = m /\ b = c
  /\ BlockSize(m, c) # k /\ BlockSize(g, d) = k => to = g /\ b = d
  /\ BlockSize(m, c) # k /\ BlockSize(g, d) # k /\ BlockSize(g, d) > k =>
       to = UmmFree(SplitBlock(g, d, k, v), d + k) /\ b = d
  /\ BlockSize(m, c) # k /\ BlockSize(g, d) # k /\ ~(BlockSize(g, d) > k) =>
       to = Relocate(g, d, k, n).heap /\ b = Relocate(g, d, k, n).block
LEMMA ReallocBranches ==
  ASSUME NEW m, NEW c, NEW k \in Nat \ {0}, NEW n, n = 2 * BlockSize(m, c) - 1,
         NEW b, b = UmmRealloc(m, c, k).block, NEW to, to = UmmRealloc(m, c, k).heap
  PROVE  \E up, p, down, d, v, g : Branches(m, c, k, n, b, to, up, p, down, d, v, g)
<1>1. PICK v \in BOOLEAN : v = FALSE
  OBVIOUS
<1>2. PICK up : up = AssimilateUp(m, c)
  OBVIOUS
<1>3. PICK p : p = up.hdr[c].prev
  OBVIOUS
<1>4. PICK down \in BOOLEAN : down <=> (up.hdr[p].free /\ k <= up.hdr[c].next - p)
  OBVIOUS
<1>5. PICK d : d = IF down THEN p ELSE c
  OBVIOUS
<1>6. PICK g : g = IF down THEN Copy(AssimilateDown(Disconnect(up, p), c, v), c, p, n) ELSE up
  OBVIOUS
<1>7. /\ BlockSize(m, c) = k => to = m /\ b = c
      /\ BlockSize(m, c) # k /\ BlockSize(g, d) = k => to = g /\ b = d
      /\ BlockSize(m, c) # k /\ BlockSize(g, d) # k /\ BlockSize(g, d) > k =>
           to = UmmFree(SplitBlock(g, d, k, v), d + k) /\ b = d
      /\ BlockSize(m, c) # k /\ BlockSize(g, d) # k /\ ~(BlockSize(g, d) > k) =>
           to = Relocate(g, d, k, n).heap /\ b = Relocate(g, d, k, n).block
  <2> DEFINE nL == 2 * BlockSize(m, c) - 1
             upL == AssimilateUp(m, c)
             pL == upL.hdr[c].prev
             downL == upL.hdr[pL].free /\ k <= upL.hdr[c].next - pL
             dL == IF downL THEN pL ELSE c
             gL == IF downL THEN Copy(AssimilateDown(Disconnect(upL, pL), c, FALSE), c, pL, nL)
                            ELSE upL
  <2>1. UmmRealloc(m, c, k) =
          CASE BlockSize(m, c) = k -> [heap |-> m, block |-> c]
            [] BlockSize(m, c) # k /\ BlockSize(gL, dL) = k -> [heap |-> gL, block |-> dL]
            [] BlockSize(m, c) # k /\ BlockSize(gL, dL) > k ->
                 [heap |-> UmmFree(SplitBlock(gL, dL, k, FALSE), dL + k), block |-> dL]
            [] OTHER -> Relocate(gL, dL, k, nL)
    BY Zenon DEF UmmRealloc
  <2>2. n = nL /\ up = upL /\ p = pL /\ (down <=> downL)
    BY <1>2, <1>3, <1>4
  <2>3. d = dL
    BY <1>5, <2>2
  <2>4. g = gL
    BY <1>1, <1>6, <2>2, Zenon
  <2> HIDE DEF nL, upL, pL, downL, dL, gL
  <2>5. PICK s : s = SplitBlock(gL, dL, k, FALSE)
    OBVIOUS
  <2>6. s = SplitBlock(g, d, k, v)
    BY <1>1, <2>3, <2>4, <2>5, Zenon
  <2>7. UmmRealloc(m, c, k) =
          CASE BlockSize(m, c) = k -> [heap |-> m, block |-> c]
            [] BlockSize(m, c) # k /\ BlockSize(g, d) = k -> [heap |-> g, block |-> d]
            [] BlockSize(m, c) # k /\ BlockSize(g, d) > k ->
                 [heap |-> UmmFree(s, d + k), block |-> d]
            [] OTHER -> Relocate(g, d, k, n)
    BY <2>1, <2>2, <2>3, <2>4, <2>5, Zenon
  <2>8. ~(k > k)
    OBVIOUS
  <2> HIDE <1>4
  <2> QED BY <2>6, <2>7, <2>8
<1> HIDE <1>4
<1>8. down <=> (up.hdr[p].free /\ k <= up.hdr[c].next - p)
  BY <1>4
<1>9. Branches(m, c, k, n, b, to, up, p, down, d, v, g)
  BY <1>1, <1>2, <1>3, <1>5, <1>6, <1>7, <1>8 DEF Branches
<1> QED BY <1>9

LEMMA ReallocSound ==
  ASSUME NEW m, NEW S, NEW F, Sound(m, S, F), NEW c \in Used(S, F), NEW k \in Nat \ {0},
         NEW n, n = 2 * (m.hdr[c].next - c) - 1,
         NEW b, b = UmmRealloc(m, c, k).block, NEW to, to = UmmRealloc(m, c, k).heap
  PROVE  \/ b = 0 /\ \E S2, F2 : Freed(m, to, S, F, S2, F2, c)
         \/ \E S2, F2 : Moved(m, to, S, F, S2, F2, c, b, k, n)
<1>1. /\ n = 2 * BlockSize(m, c) - 1
      /\ m.hdr[c].next \in Int /\ c \in Int /\ m.hdr[c].next > c /\ n \in Nat /\ c # 0
  <2>1. m.hdr[c].next \in Int /\ c \in Int /\ m.hdr[c].next > c /\ c # 0
    BY UsedBlock
  <2> QED BY <2>1 DEF BlockSize
<1>2. PICK up, p, down, d, v, g : Branches(m, c, k, n, b, to, up, p, down, d, v, g)
  BY <1>1, ReallocBranches
<1>3. /\ v \in BOOLEAN /\ ~v /\ down \in BOOLEAN /\ (down => up.hdr[p].free)
      /\ up = AssimilateUp(m, c) /\ p = up.hdr[c].prev /\ d = IF down THEN p ELSE c
      /\ g = IF down THEN Copy(AssimilateDown(Disconnect(up, p), c, v), c, p, n) ELSE up
  BY <1>2 DEF Branches
<1>4. /\ BlockSize(m, c) = k => to = m /\ b = c
      /\ BlockSize(m, c) # k /\ BlockSize(g, d) = k => to = g /\ b = d
      /\ BlockSize(m, c) # k /\ BlockSize(g, d) # k /\ BlockSize(g, d) > k =>
           to = UmmFree(SplitBlock(g, d, k, v), d + k) /\ b = d
      /\ BlockSize(m, c) # k /\ BlockSize(g, d) # k /\ ~(BlockSize(g, d) > k) =>
           to = Relocate(g, d, k, n).heap /\ b = Relocate(g, d, k, n).block
  BY <1>2 DEF Branches
<1>5. PICK S1, F1 : Placed(m, g, S, F, S1, F1, c, d, n)
  BY <1>3, PlaceSound
<1>6. /\ Sound(g, S1, F1) /\ d \in Used(S1, F1)
       /\ g.hdr[d].next - d >= m.hdr[c].next - c
       /\ d \notin Used(S, F) \ {c} /\ Used(S1, F1) = (Used(S, F) \ {c}) \cup {d}
       /\ Carried(m, g, c, d, n) /\ Tidy(m, g, S, F, S1, F1, c)
  BY <1>5 DEF Placed
<1>7. d \in Int /\ d # 0 /\ g.hdr[d].next \in Int /\ BlockSize(g, d) \in Int /\ g.hdr[d].next = d + BlockSize(g, d)
  <2>1. d \in Int /\ d # 0 /\ g.hdr[d].next \in Int
    BY <1>6, UsedBlock
  <2> QED BY <2>1 DEF BlockSize
<1>8. CASE BlockSize(m, c) = k
  <2>1. to = m /\ b = c /\ m.hdr[c].next = c + k
    BY <1>1, <1>4, <1>8 DEF BlockSize
  <2>2. Tidy(m, m, S, F, S, F, c)
    BY DEF Tidy, Kept, Same
  <2>3. Used(S, F) = (Used(S, F) \ {c}) \cup {c}
    OBVIOUS
  <2>4. Moved(m, m, S, F, S, F, c, c, k, n)
    BY <1>1, <2>1, <2>2, <2>3 DEF Moved
  <2> QED BY <2>1, <2>4
<1>9. CASE BlockSize(m, c) # k /\ BlockSize(g, d) = k
  <2>1. to = g /\ b = d /\ g.hdr[d].next = d + k
    BY <1>4, <1>7, <1>9
  <2>2. Moved(m, g, S, F, S1, F1, c, d, k, n)
    BY <1>6, <1>7, <2>1 DEF Moved, Carried
  <2> QED BY <2>1, <2>2
<1>10. CASE BlockSize(m, c) # k /\ BlockSize(g, d) # k /\ BlockSize(g, d) > k
  <2>1. to = UmmFree(SplitBlock(g, d, k, v), d + k) /\ b = d /\ d + k < g.hdr[d].next
    BY <1>4, <1>7, <1>10
  <2>2. PICK S2, F2 : Moved(g, to, S1, F1, S2, F2, d, d, k, n)
    <3>1. v \in BOOLEAN /\ ~v
      BY <1>3
    <3> QED BY <1>6, <2>1, <3>1, TrimSound
  <2>3. Moved(m, to, S, F, S2, F2, c, d, k, n)
    BY <1>5, <2>2, PlacedThenMoved
  <2> QED BY <2>1, <2>3
<1>11. CASE BlockSize(m, c) # k /\ BlockSize(g, d) # k /\ ~(BlockSize(g, d) > k)
  <2>1. to = Relocate(g, d, k, n).heap /\ b = Relocate(g, d, k, n).block
    BY <1>4, <1>11
  <2>2. n <= 2 * (g.hdr[d].next - d) - 1 /\ n <= 2 * k - 1
    BY <1>1, <1>6, <1>7, <1>11
  <2>3. \/ b = 0 /\ \E S2, F2 : Freed(g, to, S1, F1, S2, F2, d)
        \/ \E S2, F2 : Moved(g, to, S1, F1, S2, F2, d, b, k, n)
    BY <1>1, <1>6, <2>1, <2>2, RelocateSound
  <2>4. CASE b = 0 /\ \E S2, F2 : Freed(g, to, S1, F1, S2, F2, d)
    <3>1. PICK S2, F2 : Freed(g, to, S1, F1, S2, F2, d)
      BY <2>4
    <3>2. Freed(m, to, S, F, S2, F2, c)
      BY <1>5, <3>1, PlacedThenMoved
    <3> QED BY <2>4, <3>2
  <2>5. CASE \E S2, F2 : Moved(g, to, S1, F1, S2, F2, d, b, k, n)
    <3>1. PICK S2, F2 : Moved(g, to, S1, F1, S2, F2, d, b, k, n)
      BY <2>5
    <3>2. Moved(m, to, S, F, S2, F2, c, b, k, n)
      BY <1>5, <3>1, PlacedThenMoved
    <3> QED BY <3>2
  <2> QED BY <2>3, <2>4, <2>5
<1> QED BY <1>8, <1>9, <1>10, <1>11

-----------------------------------------------------------------------------
(* Going along the block list meets exactly the blocks of S.               *)
Listed(m, at, S) ==
  /\ at \in [0 .. N -> S] /\ at[0] = 0
  /\ \A k \in 0 .. N - 1 : at[k + 1] = IF at[k] = N - 1 THEN N - 1 ELSE m.hdr[at[k]].next
LEMMA ListAtScans ==
  ASSUME NEW m, NEW S, NEW F, Sound(m, S, F)
  PROVE  Listed(m, ListAt(m), S)
<1> DEFINE step == [b \in S |-> IF b = N - 1 THEN N - 1 ELSE m.hdr[b].next]
           Rec(g) == g = [k \in 0 .. N |->
                            IF k = 0 THEN 0
                            ELSE LET b == g[k - 1]
                                 IN  IF b \in 0 .. N - 2 /\ m.hdr[b] \in Header
                                     THEN m.hdr[b].next ELSE b]
<1>1. /\ S \subseteq 0 .. N - 1 /\ 0 \in S /\ N - 1 \in S /\ N \in Nat
      /\ \A b \in S : m.hdr[b] \in Header
      /\ \A b \in S \ {N - 1} : m.hdr[b].next \in S
  <2>1. Chain(m.hdr, S)
    BY DEF Sound
  <2> QED BY <2>1, HeapAssumption DEF Chain, Ahead, Blocks
<1>2. \A b \in S : b # N - 1 <=> b \in 0 .. N - 2 /\ m.hdr[b] \in Header
  BY <1>1
<1>3. PICK g : Iteration(g, S, 0, step, N)
  <2>1. step \in [S -> S]
    BY <1>1
  <2> HIDE DEF step
  <2> QED BY <1>1, <2>1, Iterates
<1>4. Rec(g)
  <2>1. ASSUME NEW k \in 0 .. N
        PROVE  g[k] = IF k = 0 THEN 0
                      ELSE LET b == g[k - 1]
                           IN  IF b \in 0 .. N - 2 /\ m.hdr[b] \in Header THEN m.hdr[b].next ELSE b
    <3>1. CASE k = 0
      BY <1>3, <3>1 DEF Iteration
    <3>2. CASE k # 0
      <4>1. k - 1 \in 0 .. N - 1 /\ k - 1 + 1 = k /\ k - 1 \in 0 .. N
        BY <1>1, <3>2
      <4>2. g[k] = step[g[k - 1]] /\ g[k - 1] \in S
        BY <1>3, <4>1 DEF Iteration
      <4> QED BY <1>2, <3>2, <4>2
    <3> QED BY <3>1, <3>2
  <2>2. g = [k \in 0 .. N |-> g[k]]
    BY <1>3 DEF Iteration
  <2> QED BY <2>1, <2>2
<1>5. ListAt(m) = CHOOSE f : Rec(f)
  BY DEF ListAt
<1>6. Rec(CHOOSE f : Rec(f))
  <2> HIDE DEF Rec
  <2> QED BY <1>4
<1>7. PICK at : at = CHOOSE f : Rec(f)
  OBVIOUS
<1>8. Rec(at)
  BY <1>6, <1>7
<1>9. /\ at = [k \in 0 .. N |-> at[k]] /\ at[0] = 0
      /\ \A k \in 0 .. N - 1 :
           at[k + 1] = IF at[k] \in 0 .. N - 2 /\ m.hdr[at[k]] \in Header
                       THEN m.hdr[at[k]].next ELSE at[k]
  <2>1. ASSUME NEW k \in 0 .. N - 1
        PROVE  at[k + 1] = IF at[k] \in 0 .. N - 2 /\ m.hdr[at[k]] \in Header
                           THEN m.hdr[at[k]].next ELSE at[k]
    <3>1. k + 1 \in 0 .. N /\ k + 1 # 0 /\ (k + 1) - 1 = k
      BY <1>1
    <3>2. at[k + 1] = LET b == at[(k + 1) - 1]
                      IN  IF b \in 0 .. N - 2 /\ m.hdr[b] \in Header THEN m.hdr[b].next ELSE b
      BY <1>8, <3>1
    <3> QED BY <3>1, <3>2
  <2>2. at = [k \in 0 .. N |-> at[k]]
    BY <1>8
  <2>3. at[0] = 0
    BY <1>1, <1>8
  <2> QED BY <2>1, <2>2, <2>3
<1> HIDE DEF Rec
<1>10. \A k \in 0 .. N : at[k] \in S
  <2> DEFINE In == {k \in Nat : k <= N => at[k] \in S}
  <2>1. 0 \in In
    BY <1>1, <1>9
  <2>2. ASSUME NEW k \in Nat, k \in In PROVE k + 1 \in In
    <3>1. CASE k + 1 <= N
      <4>1. k \in 0 .. N - 1 /\ at[k] \in S
        BY <1>1, <2>2, <3>1
      <4>2. at[k + 1] = IF at[k] \in 0 .. N - 2 /\ m.hdr[at[k]] \in Header
                        THEN m.hdr[at[k]].next ELSE at[k]
        BY <1>9, <4>1
      <4> QED BY <1>1, <1>2, <4>1, <4>2
    <3>2. CASE ~(k + 1 <= N)
      BY <3>2
    <3> QED BY <3>1, <3>2
  <2>3. Nat \subseteq In
    <3> HIDE DEF In
    <3> QED BY <2>1, <2>2, Upwards
  <2> QED BY <1>1, <2>3
<1>11. \A k \in 0 .. N - 1 : at[k + 1] = IF at[k] = N - 1 THEN N - 1 ELSE m.hdr[at[k]].next
  <2>1. \A k \in 0 .. N - 1 : k \in 0 .. N
    BY <1>1
  <2> QED BY <1>2, <1>9, <1>10, <2>1
<1>12. Listed(m, at, S)
  BY <1>9, <1>10, <1>11 DEF Listed
<1> QED BY <1>5, <1>7, <1>12

LEMMA ListMeetsAll ==
  ASSUME NEW m, NEW S, NEW F, Sound(m, S, F)
  PROVE  {ListAt(m)[k] : k \in 0 .. N} = S
<1> DEFINE L == {ListAt(m)[k] : k \in 0 .. N}
<1>1. PICK at : at = ListAt(m)
  OBVIOUS
<1>2. Listed(m, at, S)
  BY <1>1, ListAtScans
<1>3. L \subseteq S
  BY <1>1, <1>2 DEF Listed
<1>4. Chain(m.hdr, S) /\ N \in Nat
  BY HeapAssumption DEF Sound
<1>5. \A x \in S : x \in Int /\ x \in 0 .. N - 1
  BY <1>4 DEF Chain, Blocks
<1>6. ASSUME NEW s \in S, s \notin L PROVE FALSE
  <2> DEFINE Below == {k \in Nat : k <= N => at[k] < s /\ at[k] >= k}
  <2>1. 0 \in Below
    <3>1. at[0] = 0 /\ 0 \in L
      BY <1>1, <1>2, <1>4 DEF Listed
    <3> QED BY <1>5, <1>6, <3>1
  <2>2. ASSUME NEW k \in Nat, k \in Below PROVE k + 1 \in Below
    <3>1. CASE k + 1 <= N
      <4>1. k \in 0 .. N - 1 /\ k \in 0 .. N /\ k + 1 \in 0 .. N /\ at[k] < s /\ at[k] >= k
        BY <1>4, <2>2, <3>1
      <4>2. at[k] \in S /\ at[k] \in Int /\ at[k] # N - 1
        BY <1>2, <1>4, <1>5, <4>1 DEF Listed
      <4>3. at[k + 1] = m.hdr[at[k]].next
        BY <1>2, <4>1, <4>2 DEF Listed
      <4>4. Ahead(m.hdr, S, at[k])
        BY <1>4, <4>2 DEF Chain
      <4>5. at[k + 1] \in S /\ at[k + 1] > at[k] /\ (s <= at[k] \/ at[k + 1] <= s)
        BY <4>3, <4>4 DEF Ahead
      <4>6. at[k + 1] # s
        BY <1>1, <1>6, <4>1
      <4> QED BY <1>5, <4>1, <4>2, <4>5, <4>6
    <3>2. CASE ~(k + 1 <= N)
      BY <3>2
    <3> QED BY <3>1, <3>2
  <2>3. Nat \subseteq Below
    <3> HIDE DEF Below
    <3> QED BY <2>1, <2>2, Upwards
  <2>4. at[N] < s /\ at[N] >= N
    BY <1>4, <2>3
  <2>5. at[N] \in S
    BY <1>2, <1>4 DEF Listed
  <2> QED BY <1>4, <1>5, <2>4, <2>5
<1> QED BY <1>3, <1>6

(* Going along the free list ends, having met exactly the blocks of F.     *)
LEMMA FreeListEnds ==
  ASSUME NEW m, NEW S, NEW F, Sound(m, S, F)
  PROVE  FreeAt(m)[N] = 0
<1>1. PICK at : at = FreeAt(m)
  OBVIOUS
<1>2. Scanned(m, at, F \cup {0})
  BY <1>1, FreeAtScans
<1>3. N \in Nat /\ F \subseteq 1 .. N - 1
  <2>1. F \subseteq Blocks /\ 0 \notin F
    BY SoundHasTypes DEF SoundTypes
  <2> QED BY <2>1, HeapAssumption DEF Blocks
<1>4. \A b \in F \cup {0} : m.body[m.body[b].next].prev = b
  BY SoundHasTypes DEF SoundTypes, Linked
<1> SUFFICES ASSUME at[N] # 0 PROVE FALSE
  BY <1>1
<1>5. \A k \in 0 .. N : at[k] \in F
  <2> DEFINE On == {k \in Nat : k <= N => at[N - k] # 0}
  <2>1. 0 \in On
    BY <1>3
  <2>2. ASSUME NEW k \in Nat, k \in On PROVE k + 1 \in On
    <3>1. CASE k + 1 <= N
      <4>1. N - (k + 1) \in 0 .. N - 1 /\ (N - (k + 1)) + 1 = N - k /\ at[N - k] # 0
        BY <1>3, <2>2, <3>1
      <4> QED BY <1>2, <4>1 DEF Scanned
    <3>2. CASE ~(k + 1 <= N)
      BY <3>2
    <3> QED BY <3>1, <3>2
  <2>3. Nat \subseteq On
    <3> HIDE DEF On
    <3> QED BY <2>1, <2>2, Upwards
  <2>4. ASSUME NEW k \in 0 .. N PROVE at[k] \in F
    <3>1. N - k \in On /\ N - k <= N /\ N - (N - k) = k
      BY <1>3, <2>3
    <3> QED BY <1>2, <3>1 DEF Scanned
  <2> QED BY <2>4
<1>6. /\ m.body[at[0]].prev = 0
      /\ \A k \in 0 .. N - 1 : m.body[at[k + 1]].prev = at[k]
  <2>1. at[0] = m.body[0].next
    BY <1>2 DEF Scanned
  <2>2. ASSUME NEW k \in 0 .. N - 1 PROVE m.body[at[k + 1]].prev = at[k]
    <3>1. k \in 0 .. N /\ at[k] # 0 /\ at[k] \in F
      BY <1>3, <1>5
    <3>2. at[k + 1] = m.body[at[k]].next
      BY <1>2, <3>1 DEF Scanned
    <3> QED BY <1>4, <3>1, <3>2
  <2> QED BY <1>4, <2>1, <2>2
<1>7. ASSUME NEW i \in 0 .. N, NEW j \in 0 .. N, i < j, at[i] = at[j] PROVE FALSE
  <2> DEFINE Eq == {k \in Nat : k <= i => at[i - k] = at[j - k]}
  <2>1. 0 \in Eq
    BY <1>7
  <2>2. ASSUME NEW k \in Nat, k \in Eq PROVE k + 1 \in Eq
    <3>1. CASE k + 1 <= i
      <4>1. /\ i - (k + 1) \in 0 .. N - 1 /\ (i - (k + 1)) + 1 = i - k
            /\ j - (k + 1) \in 0 .. N - 1 /\ (j - (k + 1)) + 1 = j - k
            /\ at[i - k] = at[j - k]
        BY <1>3, <1>7, <2>2, <3>1
      <4>2. m.body[at[i - k]].prev = at[i - (k + 1)] /\ m.body[at[j - k]].prev = at[j - (k + 1)]
        BY <1>6, <4>1
      <4> QED BY <4>1, <4>2
    <3>2. CASE ~(k + 1 <= i)
      BY <3>2
    <3> QED BY <3>1, <3>2
  <2>3. Nat \subseteq Eq
    <3> HIDE DEF Eq
    <3> QED BY <2>1, <2>2, Upwards
  <2>4. i \in Eq /\ i - i = 0 /\ j - i - 1 \in 0 .. N - 1 /\ (j - i - 1) + 1 = j - i
    BY <1>3, <1>7, <2>3
  <2>5. at[0] = at[j - i]
    BY <2>4
  <2>6. at[j - i - 1] = 0
    BY <1>6, <2>4, <2>5
  <2>7. at[j - i - 1] \in F
    BY <1>3, <1>5, <2>4
  <2> QED BY <1>3, <2>6, <2>7
<1>8. at \in [0 .. N -> 1 .. N - 1]
  <2>1. at \in [0 .. N -> F \cup {0}]
    BY <1>2 DEF Scanned
  <2> QED BY <1>3, <1>5, <2>1
<1>9. /\ IsFiniteSet(1 .. N - 1) /\ Cardinality(1 .. N - 1) = N - 1
      /\ IsFiniteSet(0 .. N) /\ Cardinality(0 .. N) = N + 1
  <2>1. 1 \in Int /\ N - 1 \in Int /\ 0 \in Int /\ N \in Int /\ ~(1 > N - 1) /\ ~(0 > N)
    BY HeapAssumption
  <2> QED BY <2>1, FS_Interval
<1>10. PICK i \in 0 .. N, j \in 0 .. N : i # j /\ at[i] = at[j]
  <2>1. Cardinality(1 .. N - 1) < Cardinality(0 .. N)
    BY <1>3, <1>9
  <2>2. \E i, j \in 0 .. N : i # j /\ at[i] = at[j]
    BY <1>8, <1>9, <2>1, FS_PigeonHole
  <2> QED BY <2>2
<1>11. i < j \/ j < i
  BY <1>3, <1>10
<1> QED BY <1>7, <1>10, <1>11

LEMMA FreeListMeetsAll ==
  ASSUME NEW m, NEW S, NEW F, Sound(m, S, F)
  PROVE  {FreeAt(m)[k] : k \in 0 .. N} \ {0} = F
<1>1. PICK at : at = FreeAt(m)
  OBVIOUS
<1>2. Scanned(m, at, F \cup {0}) /\ at[N] = 0
  BY <1>1, FreeAtScans, FreeListEnds
<1>3. N \in Nat
  BY HeapAssumption
<1> DEFINE T == {at[k] : k \in 0 .. N} \cup {0}
<1>4. T \subseteq F \cup {0} /\ 0 \in T
  BY <1>2 DEF Scanned
<1>5. ASSUME NEW b \in T PROVE m.body[b].next \in T
  <2>1. CASE b = 0
    <3>1. at[0] = m.body[0].next /\ 0 \in 0 .. N
      BY <1>2, <1>3 DEF Scanned
    <3> QED BY <2>1, <3>1
  <2>2. CASE b # 0
    <3>1. PICK k \in 0 .. N : b = at[k]
      BY <2>2
    <3>2. k \in 0 .. N - 1 /\ k + 1 \in 0 .. N
      BY <1>2, <1>3, <2>2, <3>1
    <3>3. at[k + 1] = m.body[b].next
      BY <1>2, <2>2, <3>1, <3>2 DEF Scanned
    <3> QED BY <3>2, <3>3
  <2> QED BY <2>1, <2>2
<1>6. OneRing(m.body, F \cup {0}) /\ 0 \notin F
  BY SoundHasTypes DEF SoundTypes, Ring
<1>7. T = F \cup {0}
  <2> HIDE DEF T
  <2> QED BY <1>4, <1>5, <1>6 DEF OneRing
<1> QED BY <1>1, <1>6, <1>7

(* What the lists of a sound heap show.                                    *)
LEMMA SoundLists ==
  ASSUME NEW S, NEW F, Sound(heap, S, F)
  PROVE  /\ Starts = S /\ OnFreeList = F /\ FreeStarts = F
         /\ FreeListSound
         /\ Clean(heap.hdr, S) => BlockListSound
         /\ Packed(heap, F) => Coalesced
<1>1. SoundTypes(heap, S, F)
  BY SoundHasTypes
<1>2. Starts = S /\ OnFreeList = F
  BY ListMeetsAll, FreeListMeetsAll DEF Starts, OnFreeList
<1>3. FreeStarts = F
  BY <1>1, <1>2 DEF FreeStarts, SoundTypes
<1>4. \A b \in F \cup {0} : heap.body[heap.body[b].next].prev = b
  BY <1>1 DEF SoundTypes, Linked
<1>5. FreeListSound
  BY <1>2, <1>3, <1>4, FreeListEnds DEF FreeListSound
<1>6. Chain(heap.hdr, S)
  BY <1>1 DEF SoundTypes
<1>7. ASSUME Clean(heap.hdr, S) PROVE BlockListSound
  BY <1>2, <1>6, <1>7 DEF BlockListSound, Chain, Ahead, Clean
<1>8. ASSUME Packed(heap, F) PROVE Coalesced
  <2>1. ASSUME NEW b \in F PROVE ~heap.hdr[heap.hdr[b].next].free
    <3>1. heap.hdr[b].next \in S
      BY FreeBlock
    <3> QED BY <1>1, <1>8, <3>1 DEF SoundTypes, Packed
  <2> QED BY <1>3, <2>1 DEF Coalesced
<1> QED BY <1>2, <1>3, <1>5, <1>7, <1>8

-----------------------------------------------------------------------------
(* The used blocks are those of the program's pointers p, of the lengths   *)
(* that hold the w bytes it asked for.                                     *)
Accounts(m, p, w, S, F) ==
  /\ p \in [Ids -> Nat] /\ w \in [Ids -> Nat]
  /\ Used(S, F) = {p[i] : i \in Ids} \ {0}
  /\ \A i \in Ids : p[i] # 0 => w[i] # 0 /\ m.hdr[p[i]].next = p[i] + UmmBlocks(w[i])
  /\ \A i, j \in Ids : p[i] # 0 /\ p[i] = p[j] => i = j

(* A call for pointer id has changed its own block only.                   *)
Served(m, p, w, S, F, to, p2, w2, S2, F2, id) ==
  /\ Sound(to, S2, F2) /\ Accounts(to, p2, w2, S2, F2)
  /\ Tidy(m, to, S, F, S2, F2, p[id])
  /\ \A i \in Ids \ {id} : p[i] # 0 => Kept(m, to, p[i])

LEMMA BlocksHold ==
  ASSUME NEW size \in Nat \ {0}
  PROVE  /\ UmmBlocks(size) \in Nat \ {0} /\ WordsIn(size) \in Nat
         /\ WordsIn(size) <= 2 * UmmBlocks(size) - 1
         /\ size <= 16 * UmmBlocks(size) - 8
BY DEF UmmBlocks, WordsIn

LEMMA UsedIsNumber ==
  ASSUME NEW m, NEW S, NEW F, Sound(m, S, F), NEW b \in Used(S, F)
  PROVE  b \in 1 .. N - 2
<1>1. S \subseteq 0 .. N - 1 /\ b \in S \ {0, N - 1} /\ N \in Nat
  BY HeapAssumption, SoundHasTypes DEF SoundTypes, Used, Blocks
<1> QED BY <1>1

LEMMA AccountsChange ==
  ASSUME NEW m, NEW p, NEW w, NEW S, NEW F, Accounts(m, p, w, S, F), NEW id \in Ids,
         NEW to, NEW S2, NEW F2, Sound(to, S2, F2),
         \A x \in Used(S, F) \ {p[id]} : Kept(m, to, x),
         NEW b, NEW size \in Nat, b = 0 => size = 0,
         Used(S2, F2) = (Used(S, F) \ {p[id]}) \cup ({b} \ {0}),
         b # 0 => /\ b \notin Used(S, F) \ {p[id]}
                  /\ size # 0 /\ to.hdr[b].next = b + UmmBlocks(size)
  PROVE  Accounts(to, [p EXCEPT ![id] = b], [w EXCEPT ![id] = size], S2, F2)
<1> DEFINE p2 == [p EXCEPT ![id] = b]  w2 == [w EXCEPT ![id] = size]
<1>1. /\ p \in [Ids -> Nat] /\ w \in [Ids -> Nat] /\ Used(S, F) = {p[i] : i \in Ids} \ {0}
      /\ \A i \in Ids : p[i] # 0 => w[i] # 0 /\ m.hdr[p[i]].next = p[i] + UmmBlocks(w[i])
      /\ \A i, j \in Ids : p[i] # 0 /\ p[i] = p[j] => i = j
  BY DEF Accounts
<1>2. b \in Nat
  BY UsedIsNumber
<1>3. /\ p2 \in [Ids -> Nat] /\ w2 \in [Ids -> Nat] /\ p2[id] = b /\ w2[id] = size
      /\ \A i \in Ids \ {id} : p2[i] = p[i] /\ w2[i] = w[i]
  BY <1>1, <1>2
<1> HIDE DEF p2, w2
<1>4. \A i \in Ids \ {id} : p[i] # 0 => p[i] \in Used(S, F) \ {p[id]}
  BY <1>1
<1>5. Used(S2, F2) = {p2[i] : i \in Ids} \ {0}
  <2>1. ASSUME NEW x \in Used(S2, F2) PROVE x \in {p2[i] : i \in Ids} \ {0}
    <3>1. CASE x \in Used(S, F) \ {p[id]}
      <4>1. PICK i \in Ids : x = p[i] /\ x # 0
        BY <1>1, <3>1
      <4>2. i # id
        BY <3>1, <4>1
      <4> QED BY <1>3, <4>1, <4>2
    <3>2. CASE x \in {b} \ {0}
      BY <1>3, <3>2
    <3> QED BY <3>1, <3>2
  <2>2. ASSUME NEW i \in Ids, p2[i] # 0 PROVE p2[i] \in Used(S2, F2)
    <3>1. CASE i = id
      BY <1>3, <2>2, <3>1
    <3>2. CASE i # id
      BY <1>3, <1>4, <2>2, <3>2
    <3> QED BY <3>1, <3>2
  <2> QED BY <2>1, <2>2
<1>6. ASSUME NEW i \in Ids, p2[i] # 0
      PROVE  w2[i] # 0 /\ to.hdr[p2[i]].next = p2[i] + UmmBlocks(w2[i])
  <2>1. CASE i = id
    BY <1>3, <1>6, <2>1
  <2>2. CASE i # id
    <3>1. p2[i] = p[i] /\ w2[i] = w[i] /\ p[i] \in Used(S, F) \ {p[id]}
      BY <1>3, <1>4, <1>6, <2>2
    <3>2. to.hdr[p[i]].next = m.hdr[p[i]].next
      BY <3>1 DEF Kept
    <3> QED BY <1>1, <1>6, <3>1, <3>2
  <2> QED BY <2>1, <2>2
<1>7. ASSUME NEW i \in Ids, NEW j \in Ids, p2[i] # 0, p2[i] = p2[j] PROVE i = j
  <2>1. ASSUME NEW k \in Ids \ {id} PROVE p[k] # 0 => p[k] # b
    BY <1>4
  <2> QED BY <1>1, <1>3, <1>7, <2>1
<1>8. Accounts(to, p2, w2, S2, F2)
  BY <1>3, <1>5, <1>6, <1>7 DEF Accounts
<1> QED BY <1>8 DEF p2, w2

LEMMA OthersServed ==
  ASSUME NEW m, NEW p, NEW w, NEW S, NEW F, Accounts(m, p, w, S, F), NEW id \in Ids,
         NEW to, \A x \in Used(S, F) \ {p[id]} : Kept(m, to, x)
  PROVE  \A i \in Ids \ {id} : p[i] # 0 => Kept(m, to, p[i])
BY DEF Accounts

LEMMA MallocServed ==
  ASSUME NEW m, NEW S, NEW F, Sound(m, S, F), NEW p, NEW w, Accounts(m, p, w, S, F),
         NEW id \in Ids, p[id] = 0, NEW size \in Nat \ {0},
         NEW b, b = UmmMalloc(m, UmmBlocks(size)).block,
         NEW to, to = UmmMalloc(m, UmmBlocks(size)).heap
  PROVE  \E S2, F2 : Served(m, p, w, S, F, to, [p EXCEPT ![id] = b],
                            [w EXCEPT ![id] = IF b = 0 THEN 0 ELSE size], S2, F2, id)
<1> DEFINE k == UmmBlocks(size)  v == IF b = 0 THEN 0 ELSE size
<1>1. k \in Nat \ {0}
  BY BlocksHold
<1>2. \/ b = 0 /\ to = m
      \/ \E S2, F2 : Allotted(m, to, S, F, S2, F2, b, k)
  <2> HIDE DEF k
  <2>1. b = UmmMalloc(m, k).block /\ to = UmmMalloc(m, k).heap
    BY DEF k
  <2> QED BY <1>1, <2>1, MallocSound
<1>3. p[id] \notin Used(S, F) /\ v \in Nat /\ (b = 0 => v = 0) /\ (b # 0 => v = size)
  BY DEF Accounts
<1> HIDE DEF k, v
<1>4. CASE b = 0
  <2>1. to = m
    BY <1>2, <1>4 DEF Allotted
  <2>2. \A x \in Used(S, F) : Kept(m, m, x)
    BY DEF Kept, Same
  <2>3. Tidy(m, m, S, F, S, F, p[id])
    BY <2>2 DEF Tidy
  <2>4. Used(S, F) = (Used(S, F) \ {p[id]}) \cup ({b} \ {0})
    BY <1>3, <1>4
  <2>5. Accounts(m, [p EXCEPT ![id] = b], [w EXCEPT ![id] = v], S, F)
    BY <1>3, <1>4, <2>2, <2>4, AccountsChange
  <2>6. Served(m, p, w, S, F, m, [p EXCEPT ![id] = b], [w EXCEPT ![id] = v], S, F, id)
    BY <2>2, <2>3, <2>5, OthersServed DEF Served
  <2> QED BY <2>1, <2>6 DEF v
<1>5. CASE b # 0
  <2>1. PICK S2, F2 : Allotted(m, to, S, F, S2, F2, b, k)
    BY <1>2, <1>5
  <2>2. /\ Sound(to, S2, F2) /\ b \notin Used(S, F) /\ Used(S2, F2) = Used(S, F) \cup {b}
        /\ to.hdr[b].next = b + k /\ Tidy(m, to, S, F, S2, F2, b)
    BY <2>1 DEF Allotted
  <2>3. \A x \in Used(S, F) : Kept(m, to, x)
    BY <2>2 DEF Tidy
  <2>4. Tidy(m, to, S, F, S2, F2, p[id])
    BY <2>2, <2>3 DEF Tidy
  <2>5. Used(S2, F2) = (Used(S, F) \ {p[id]}) \cup ({b} \ {0})
    BY <1>3, <1>5, <2>2
  <2>6. Accounts(to, [p EXCEPT ![id] = b], [w EXCEPT ![id] = v], S2, F2)
    <3>1. v # 0 /\ to.hdr[b].next = b + UmmBlocks(v)
      BY <1>3, <1>5, <2>2 DEF k
    <3> QED BY <1>3, <1>5, <2>2, <2>3, <2>5, <3>1, AccountsChange
  <2>7. Served(m, p, w, S, F, to, [p EXCEPT ![id] = b], [w EXCEPT ![id] = v], S2, F2, id)
    BY <2>2, <2>3, <2>4, <2>6, OthersServed DEF Served
  <2> QED BY <2>7 DEF v
<1> QED BY <1>4, <1>5

LEMMA FreeServed ==
  ASSUME NEW m, NEW S, NEW F, Sound(m, S, F), NEW p, NEW w, Accounts(m, p, w, S, F),
         NEW id \in Ids, p[id] # 0, NEW to,
         to = UmmFree(m, p[id]) \/ \E S2, F2 : Freed(m, to, S, F, S2, F2, p[id])
  PROVE  \E S2, F2 : Served(m, p, w, S, F, to, [p EXCEPT ![id] = 0], [w EXCEPT ![id] = 0],
                            S2, F2, id)
<1>1. p[id] \in Used(S, F)
  BY DEF Accounts
<1>2. \E S2, F2 : Freed(m, to, S, F, S2, F2, p[id])
  <2>1. PICK c : c = p[id]
    OBVIOUS
  <2> QED BY <1>1, <2>1, FreeSound
<1>3. PICK S2, F2 : Freed(m, to, S, F, S2, F2, p[id])
  BY <1>2
<1>4. /\ Sound(to, S2, F2) /\ Used(S2, F2) = (Used(S, F) \ {p[id]}) \cup ({0} \ {0})
      /\ Tidy(m, to, S, F, S2, F2, p[id])
  BY <1>3 DEF Freed
<1>5. \A x \in Used(S, F) \ {p[id]} : Kept(m, to, x)
  BY <1>4 DEF Tidy
<1>6. Accounts(to, [p EXCEPT ![id] = 0], [w EXCEPT ![id] = 0], S2, F2)
  BY <1>4, <1>5, AccountsChange
<1>7. Served(m, p, w, S, F, to, [p EXCEPT ![id] = 0], [w EXCEPT ![id] = 0], S2, F2, id)
  BY <1>4, <1>5, <1>6, OthersServed DEF Served
<1> QED BY <1>7

(* What umm_realloc carries to block b *)
CarriedTo(m, to, c, b, old, size) ==
  \A w \in Nat : w < 2 * UmmBlocks(old) - 1 /\ w < 2 * UmmBlocks(size) - 1 =>
    Word(to, b, w) = Word(m, c, w)
LEMMA ReallocServed ==
  ASSUME NEW m, NEW S, NEW F, Sound(m, S, F), NEW p, NEW w, Accounts(m, p, w, S, F),
         NEW id \in Ids, p[id] # 0, NEW size \in Nat \ {0},
         NEW b, b = UmmRealloc(m, p[id], UmmBlocks(size)).block,
         NEW to, to = UmmRealloc(m, p[id], UmmBlocks(size)).heap
  PROVE  /\ \E S2, F2 : Served(m, p, w, S, F, to, [p EXCEPT ![id] = b],
                               [w EXCEPT ![id] = IF b = 0 THEN 0 ELSE size], S2, F2, id)
         /\ b # 0 => CarriedTo(m, to, p[id], b, w[id], size)
<1>1. PICK c : c = p[id]
  OBVIOUS
<1>2. PICK k : k = UmmBlocks(size)
  OBVIOUS
<1>3. PICK n : n = 2 * (m.hdr[c].next - c) - 1
  OBVIOUS
<1>4. PICK v : v = IF b = 0 THEN 0 ELSE size
  OBVIOUS
<1>5. /\ c \in Used(S, F) /\ c # 0 /\ c \in Nat /\ m.hdr[c].next = c + UmmBlocks(w[id])
      /\ w[id] \in Nat \ {0} /\ UmmBlocks(w[id]) \in Nat
  <2>1. /\ c \in Used(S, F) /\ c \in Nat /\ m.hdr[c].next = c + UmmBlocks(w[id])
        /\ w[id] \in Nat \ {0}
    BY <1>1 DEF Accounts
  <2>2. UmmBlocks(w[id]) \in Nat
    BY <2>1, BlocksHold
  <2> QED BY <1>1, <2>1, <2>2
<1>6. n = 2 * UmmBlocks(w[id]) - 1
  BY <1>3, <1>5
<1>7. k \in Nat \ {0}
  BY <1>2, BlocksHold
<1>8. \/ b = 0 /\ \E S2, F2 : Freed(m, to, S, F, S2, F2, c)
      \/ \E S2, F2 : Moved(m, to, S, F, S2, F2, c, b, k, n)
  <2>1. b = UmmRealloc(m, c, k).block /\ to = UmmRealloc(m, c, k).heap
    BY <1>1, <1>2
  <2> QED BY <1>3, <1>5, <1>7, <2>1, ReallocSound
<1>9. CASE b = 0 /\ \E S2, F2 : Freed(m, to, S, F, S2, F2, c)
  <2>1. v = 0
    BY <1>4, <1>9
  <2>2. \E S2, F2 : Freed(m, to, S, F, S2, F2, p[id])
    BY <1>1, <1>9
  <2>3. \E S2, F2 : Served(m, p, w, S, F, to, [p EXCEPT ![id] = 0], [w EXCEPT ![id] = 0],
                           S2, F2, id)
    BY <2>2, FreeServed
  <2> QED BY <1>4, <1>9, <2>1, <2>3
<1>10. CASE \E S2, F2 : Moved(m, to, S, F, S2, F2, c, b, k, n)
  <2>1. PICK S2, F2 : Moved(m, to, S, F, S2, F2, c, b, k, n)
    BY <1>10
  <2>2. /\ Sound(to, S2, F2)
        /\ b # 0 /\ b \notin Used(S, F) \ {c} /\ Used(S2, F2) = (Used(S, F) \ {c}) \cup {b}
        /\ to.hdr[b].next = b + k
        /\ \A x \in Nat : x < n /\ x < 2 * k - 1 => Word(to, b, x) = Word(m, c, x)
        /\ Tidy(m, to, S, F, S2, F2, c)
    BY <2>1 DEF Moved
  <2>3. v = size /\ v \in Nat /\ v # 0 /\ to.hdr[b].next = b + UmmBlocks(v)
    BY <1>2, <1>4, <2>2
  <2>4. \A x \in Used(S, F) \ {p[id]} : Kept(m, to, x)
    BY <1>1, <2>2 DEF Tidy
  <2>5. Used(S2, F2) = (Used(S, F) \ {p[id]}) \cup ({b} \ {0})
    BY <1>1, <2>2
  <2>6. b # 0 => /\ b \notin Used(S, F) \ {p[id]}
                 /\ v # 0 /\ to.hdr[b].next = b + UmmBlocks(v)
    BY <1>1, <2>2, <2>3
  <2>7. Accounts(to, [p EXCEPT ![id] = b], [w EXCEPT ![id] = v], S2, F2)
    BY <2>2, <2>3, <2>4, <2>5, <2>6, AccountsChange
  <2>8. Tidy(m, to, S, F, S2, F2, p[id])
    BY <1>1, <2>2
  <2>9. Served(m, p, w, S, F, to, [p EXCEPT ![id] = b], [w EXCEPT ![id] = v], S2, F2, id)
    BY <2>2, <2>4, <2>7, <2>8, OthersServed DEF Served
  <2>10. CarriedTo(m, to, p[id], b, w[id], size)
    BY <1>1, <1>2, <1>6, <2>2 DEF CarriedTo
  <2> QED BY <1>4, <2>9, <2>10
<1> QED BY <1>8, <1>9, <1>10

(* Then the program fills what it was given.                               *)
LEMMA FilledServed ==
  ASSUME NEW m, NEW p, NEW w, NEW S, NEW F, NEW u, NEW p2, NEW w2, NEW S2, NEW F2, NEW id \in Ids,
         Accounts(m, p, w, S, F), Served(m, p, w, S, F, u, p2, w2, S2, F2, id),
         \A i \in Ids \ {id} : p2[i] = p[i],
         NEW b, b = p2[id], b # 0,
         NEW lo, NEW hi, NEW val, NEW to, Filled(u, to, S2, F2, b, lo, hi, val)
  PROVE  Served(m, p, w, S, F, to, p2, w2, S2, F2, id)
<1>1. /\ Sound(u, S2, F2) /\ Accounts(u, p2, w2, S2, F2)
      /\ Tidy(m, u, S, F, S2, F2, p[id])
      /\ \A i \in Ids \ {id} : p[i] # 0 => Kept(m, u, p[i])
  BY DEF Served
<1>2. b \in Used(S2, F2)
  BY <1>1 DEF Accounts
<1>3. Tidy(u, to, S2, F2, S2, F2, b) /\ Sound(to, S2, F2) /\ to.hdr[b].next = u.hdr[b].next
  BY <1>1, <1>2, FilledTidy
<1>4. Accounts(to, p2, w2, S2, F2)
  <2>1. ASSUME NEW i \in Ids, p2[i] # 0
        PROVE  to.hdr[p2[i]].next = u.hdr[p2[i]].next
    <3>1. p2[i] \in Used(S2, F2)
      BY <1>1, <2>1 DEF Accounts
    <3>2. p2[i] # b => Kept(u, to, p2[i])
      BY <1>3, <3>1 DEF Tidy
    <3> QED BY <1>3, <3>2 DEF Kept
  <2> QED BY <1>1, <2>1 DEF Accounts
<1>5. ASSUME NEW x \in Used(S, F) \ {p[id]} PROVE Kept(m, to, x)
  <2>1. PICK i \in Ids \ {id} : x = p[i] /\ p[i] # 0
    BY <1>5 DEF Accounts
  <2>2. p2[i] = x /\ p2[i] # 0 /\ x \in Used(S2, F2) /\ x # b
    BY <1>1, <2>1 DEF Accounts
  <2>3. Kept(u, to, x) /\ Kept(m, u, x)
    BY <1>1, <1>3, <1>5, <2>2 DEF Tidy
  <2> QED BY <2>3, KeptTrans
<1>6. Tidy(m, to, S, F, S2, F2, p[id])
  BY <1>1, <1>3, <1>5 DEF Tidy
<1> QED BY <1>3, <1>4, <1>5, <1>6, OthersServed DEF Served

-----------------------------------------------------------------------------
(* The words lo to hi - 1 of block b are what pointer i has written.       *)
Written(m, b, i, lo, hi) ==
  \A w \in Nat : lo <= w /\ w < hi => Word(m, b, w) = [id |-> i, word |-> w]
LEMMA WrittenKept ==
  ASSUME NEW m, NEW p, NEW w, NEW S, NEW F, Sound(m, S, F), Accounts(m, p, w, S, F),
         NEW i \in Ids, p[i] # 0, NEW to, Kept(m, to, p[i]),
         NEW x \in Nat, x < 2 * UmmBlocks(w[i]) - 1
  PROVE  Word(to, p[i], x) = Word(m, p[i], x)
<1>1. /\ p[i] \in Int /\ m.hdr[p[i]].next = p[i] + UmmBlocks(w[i])
      /\ w[i] \in Nat \ {0} /\ UmmBlocks(w[i]) \in Nat
  <2>1. /\ p[i] \in Nat /\ m.hdr[p[i]].next = p[i] + UmmBlocks(w[i])
        /\ w[i] \in Nat \ {0}
    BY DEF Accounts
  <2> QED BY <2>1, BlocksHold
<1>2. PICK b \in Int : b = p[i]
  BY <1>1
<1>3. PICK e \in Int : e = m.hdr[p[i]].next
  BY <1>1
<1>4. Same(m, to, b, e) /\ x <= 2 * (e - b) - 2
  BY <1>1, <1>2, <1>3 DEF Kept
<1> QED BY <1>2, <1>4, WordSame

FilledTo(m, to, b, size, lo, hi, val) ==
  \A x \in Nat : x < 2 * UmmBlocks(size) - 1 =>
    Word(to, b, x) = IF x \in lo .. hi - 1 THEN val[x] ELSE Word(m, b, x)
LEMMA FilledWords ==
  ASSUME NEW m, NEW p, NEW w, NEW S, NEW F, Accounts(m, p, w, S, F), NEW id \in Ids,
         NEW b, b = p[id], b # 0, NEW lo, NEW hi, NEW val,
         NEW to, Filled(m, to, S, F, b, lo, hi, val)
  PROVE  FilledTo(m, to, b, w[id], lo, hi, val)
<1>1. /\ b \in Int /\ m.hdr[b].next = b + UmmBlocks(w[id])
      /\ w[id] \in Nat \ {0} /\ UmmBlocks(w[id]) \in Nat
  <2>1. b \in Nat /\ m.hdr[b].next = b + UmmBlocks(w[id]) /\ w[id] \in Nat \ {0}
    BY DEF Accounts
  <2> QED BY <2>1, BlocksHold
<1>2. ASSUME NEW x \in Nat, x < 2 * UmmBlocks(w[id]) - 1
      PROVE  Word(to, b, x) = IF x \in lo .. hi - 1 THEN val[x] ELSE Word(m, b, x)
  <2>1. x <= 2 * (m.hdr[b].next - b) - 2
    BY <1>1, <1>2
  <2> QED BY <2>1 DEF Filled
<1> QED BY <1>2 DEF FilledTo

LEMMA StoreFills ==
  ASSUME NEW m, NEW p, NEW w, NEW S, NEW F, Sound(m, S, F), Accounts(m, p, w, S, F),
         NEW id \in Ids, NEW b, b = p[id], b # 0,
         NEW lo \in Nat, NEW hi \in Nat, hi <= 2 * UmmBlocks(w[id]) - 1,
         NEW to, to = Store(m, b, id, lo, hi)
  PROVE  Filled(m, to, S, F, b, lo, hi, [x \in lo .. hi - 1 |-> [id |-> id, word |-> x]])
<1> DEFINE val == [x \in lo .. hi - 1 |-> [id |-> id, word |-> x]]
<1>1. /\ b \in Used(S, F) /\ b \in Int /\ m.hdr[b].next = b + UmmBlocks(w[id])
      /\ w[id] \in Nat \ {0} /\ UmmBlocks(w[id]) \in Nat
  <2>1. /\ b \in Used(S, F) /\ b \in Nat /\ m.hdr[b].next = b + UmmBlocks(w[id])
        /\ w[id] \in Nat \ {0}
    BY DEF Accounts
  <2> QED BY <2>1, BlocksHold
<1>2. hi <= 2 * (m.hdr[b].next - b) - 1
  BY <1>1
<1>3. \A x \in lo .. hi - 1 : val[x] \in Data
  BY DEF Data
<1>4. to = PutWords(m, b, lo, hi, val)
  BY DEF Store
<1> HIDE DEF val
<1>5. \A x \in lo .. hi - 1 : IF x % 2 = 0 THEN val[x] \in Links \cup Data
                                         ELSE val[x] \in Header \cup Data
  BY <1>3
<1>6. Filled(m, to, S, F, b, lo, hi, val)
  BY <1>1, <1>2, <1>4, <1>5, PutWordsSound
<1> QED BY <1>6 DEF val

-----------------------------------------------------------------------------
(* What the lists and the accounts say in the terms of the specification.  *)
LEMMA HeapTypes ==
  ASSUME NEW S, NEW F, Sound(heap, S, F), Accounts(heap, ptr, want, S, F)
  PROVE  TypeOK
<1>1. /\ heap.hdr \in Headers /\ heap.body \in Bodies /\ 0 \in S /\ N - 1 \in S
      /\ \A b \in S : heap.hdr[b] \in Header
      /\ heap.body[0] \in Links
  BY SoundHasTypes DEF SoundTypes, Chain, Linked
<1>2. /\ ptr \in [Ids -> Nat] /\ want \in [Ids -> Nat]
      /\ Used(S, F) = {ptr[i] : i \in Ids} \ {0}
      /\ \A i \in Ids : ptr[i] # 0 =>
           want[i] # 0 /\ heap.hdr[ptr[i]].next = ptr[i] + UmmBlocks(want[i])
  BY DEF Accounts
<1>3. ASSUME NEW i \in Ids PROVE ptr[i] \in 0 .. N - 2
  <2>1. CASE ptr[i] # 0
    BY <1>2, <2>1, UsedIsNumber
  <2> QED BY <2>1, HeapAssumption
<1>4. ASSUME NEW i \in Ids, ptr[i] # 0 PROVE want[i] \in 1 .. 16 * BlockSize(heap, ptr[i]) - 8
  <2>1. want[i] \in Nat \ {0} /\ ptr[i] \in Nat
    BY <1>2, <1>4
  <2>2. UmmBlocks(want[i]) \in Nat /\ want[i] <= 16 * UmmBlocks(want[i]) - 8
    BY <2>1, BlocksHold
  <2>3. BlockSize(heap, ptr[i]) = UmmBlocks(want[i])
    BY <1>2, <1>4, <2>1, <2>2 DEF BlockSize
  <2> QED BY <2>1, <2>2, <2>3
<1>5. DOMAIN heap.hdr = Blocks /\ DOMAIN heap.body = Blocks
  BY <1>1 DEF Headers, Bodies
<1>6. /\ \A b \in Blocks : heap.hdr[b] \in Header \/ heap.hdr[b] \in Data
      /\ \A b \in Blocks : heap.body[b] \in Links \/ heap.body[b] \in Data
  BY <1>1 DEF Headers, Bodies
<1>7. ptr \in [Ids -> 0 .. N - 2]
  BY <1>2, <1>3
<1> QED BY <1>1, <1>2, <1>4, <1>5, <1>6, <1>7 DEF TypeOK

LEMMA AccountsTell ==
  ASSUME NEW S, NEW F, Sound(heap, S, F), Accounts(heap, ptr, want, S, F)
  PROVE  NothingLost
<1>1. Starts = S /\ FreeStarts = F
  BY SoundLists
<1>2. Starts \ (FreeStarts \cup {0, N - 1}) = {ptr[i] : i \in Ids} \ {0}
  BY <1>1 DEF Accounts, Used
<1>3. ASSUME NEW i \in Ids, ptr[i] # 0
      PROVE  /\ BlockSize(heap, ptr[i]) = UmmBlocks(want[i])
             /\ \A j \in Ids \ {i} : ptr[j] # ptr[i]
  <2>1. /\ ptr[i] \in Nat /\ want[i] \in Nat \ {0}
        /\ heap.hdr[ptr[i]].next = ptr[i] + UmmBlocks(want[i])
        /\ \A j \in Ids : ptr[i] = ptr[j] => i = j
    BY <1>3 DEF Accounts
  <2>2. UmmBlocks(want[i]) \in Nat
    BY <2>1, BlocksHold
  <2> QED BY <2>1, <2>2 DEF BlockSize
<1> QED BY <1>2, <1>3 DEF NothingLost

(* The heap before the first call                                          *)
LEMMA SoundAtFirst ==
  ASSUME Init
  PROVE  /\ Sound(heap, {0, 1, N - 1}, {1}) /\ Packed(heap, {1}) /\ Clean(heap.hdr, {0, 1, N - 1})
         /\ Accounts(heap, ptr, want, {0, 1, N - 1}, {1})
<1> DEFINE S == {0, 1, N - 1}
           hdr == [b \in Blocks |-> [next |-> IF b = 0 THEN 1 ELSE IF b = 1 THEN N - 1 ELSE 0,
                                     free |-> b = 1,
                                     prev |-> IF b = N - 1 THEN 1 ELSE 0,
                                     mark |-> FALSE]]
           body == [b \in Blocks |-> [next |-> IF b = 0 THEN 1 ELSE 0,
                                      prev |-> IF b = 0 THEN 1 ELSE 0]]
<1>1. heap = [hdr |-> hdr, body |-> body] /\ ptr = [i \in Ids |-> 0] /\ want = [i \in Ids |-> 0]
  BY DEF Init
<1>2. N \in Nat /\ N > 2 /\ S \subseteq Blocks /\ N - 1 # 1 /\ N - 1 # 0
  BY HeapAssumption DEF Blocks
<1>3. ASSUME NEW b \in Blocks
      PROVE  /\ hdr[b] \in Header /\ body[b] \in Links
             /\ hdr[b].next = IF b = 0 THEN 1 ELSE IF b = 1 THEN N - 1 ELSE 0
             /\ hdr[b].prev = IF b = N - 1 THEN 1 ELSE 0
             /\ (hdr[b].free <=> b = 1) /\ ~hdr[b].mark
             /\ body[b].next = (IF b = 0 THEN 1 ELSE 0) /\ body[b].prev = (IF b = 0 THEN 1 ELSE 0)
  <2>1. 0 \in Blocks /\ 1 \in Blocks /\ N - 1 \in Blocks
    BY <1>2
  <2>2. PICK f \in BOOLEAN, k \in BOOLEAN : f = (b = 1) /\ k = FALSE
    OBVIOUS
  <2>3. PICK n \in Blocks, p \in Blocks : /\ n = IF b = 0 THEN 1 ELSE IF b = 1 THEN N - 1 ELSE 0
                                          /\ p = IF b = N - 1 THEN 1 ELSE 0
    BY <2>1
  <2>4. PICK q \in Blocks : q = IF b = 0 THEN 1 ELSE 0
    BY <2>1
  <2>5. hdr[b] = [next |-> n, free |-> f, prev |-> p, mark |-> k]
    BY <2>2, <2>3, Zenon
  <2>6. body[b] = [next |-> q, prev |-> q]
    BY <2>4
  <2> HIDE DEF hdr, body
  <2>7. (f <=> b = 1) /\ ~k
    BY <2>2, Zenon
  <2>8. /\ hdr[b].free = f /\ hdr[b].mark = k /\ hdr[b] \in Header
        /\ hdr[b].next = n /\ hdr[b].prev = p
    <3> HIDE <2>2
    <3> QED BY <2>5 DEF Header
  <2>9. body[b].next = q /\ body[b].prev = q /\ body[b] \in Links
    BY <2>6 DEF Links
  <2>10. (hdr[b].free <=> b = 1) /\ ~hdr[b].mark
    BY <2>7, <2>8, Zenon
  <2> HIDE <2>2
  <2> QED BY <2>3, <2>4, <2>8, <2>9, <2>10
<1>4. hdr \in Headers /\ body \in Bodies
  <2>1. hdr = [b \in Blocks |-> hdr[b]] /\ body = [b \in Blocks |-> body[b]]
    OBVIOUS
  <2> HIDE DEF hdr, body
  <2> QED BY <1>3, <2>1 DEF Headers, Bodies
<1> HIDE DEF hdr, body
<1>5. heap \in Memory /\ heap.hdr = hdr /\ heap.body = body
  BY <1>1, <1>4 DEF Memory
<1>6. Chain(hdr, S)
  BY <1>2, <1>3 DEF Chain, Ahead, Behind
<1>7. Bits(hdr, S, {1})
  BY <1>2, <1>3 DEF Bits
<1>8. Ring(body, {1})
  <2>1. \A b \in {1} \cup {0} : Linked(body, b, {1} \cup {0})
    BY <1>2, <1>3 DEF Linked
  <2>2. OneRing(body, {1} \cup {0})
    <3>1. body[0].next = 1
      BY <1>2, <1>3
    <3> QED BY <3>1 DEF OneRing
  <2> QED BY <1>2, <2>1, <2>2 DEF Ring
<1>9. Packed(heap, {1}) /\ Clean(heap.hdr, S)
  BY <1>2, <1>3, <1>5 DEF Packed, Clean
<1>10. Accounts(heap, ptr, want, S, {1})
  <2>1. Used(S, {1}) = {}
    BY DEF Used
  <2> QED BY <1>1, <2>1 DEF Accounts
<1> QED BY <1>5, <1>6, <1>7, <1>8, <1>9, <1>10 DEF Sound

-----------------------------------------------------------------------------
(* x_malloc and its fellows: where pointer i's memory is within block b,   *)
(* and that it holds what i has written, the shift word included.          *)
Hold(m, b, size, a, l, i) ==
  LET s == ShiftOf(PayloadAt(b))
  IN  \/ /\ l = 0 /\ a = PayloadAt(b)
         /\ Written(m, b, i, 0, WordsIn(size))
      \/ /\ l # 0 /\ size = 32 * l + 32 /\ a = PayloadAt(b) + s
         /\ Word(m, b, s \div 8 - 1).word = s
         /\ Written(m, b, i, s \div 8, s \div 8 + 4 * l)

XState(m, p, w, a, l, S, F) ==
  /\ Sound(m, S, F) /\ Packed(m, F) /\ Clean(m.hdr, S)
  /\ Accounts(m, p, w, S, F)
  /\ a \in [Ids -> Nat] /\ l \in [Ids -> Nat]
  /\ \A i \in Ids : IF p[i] = 0 THEN a[i] = 0 /\ l[i] = 0
                                ELSE Hold(m, p[i], w[i], a[i], l[i], i)

(* The inductive invariant.                                                *)
XInv == \E S, F : XState(heap, ptr, want, address, lines, S, F)
(* A call for pointer id has kept it and changed its own block only.       *)
XServed(S, F, id) ==
  \E S2, F2 : /\ Served(heap, ptr, want, S, F, heap', ptr', want', S2, F2, id)
              /\ XState(heap', ptr', want', address', lines', S2, F2)

LEMMA Shift ==
  ASSUME NEW b \in Nat \ {0}, NEW a, a = PayloadAt(b), NEW s, s = ShiftOf(a)
  PROVE  /\ a = 16 * b + 8 /\ a % 32 # 0 /\ a \div 16 = b
         /\ \/ s = 8 /\ s \div 8 = 1 /\ (a + s) \div 16 - 1 = b
            \/ s = 24 /\ s \div 8 = 3 /\ (a + s) \div 16 - 1 = b + 1
         /\ (a + s) % 32 = 0
BY DEF PayloadAt, ShiftOf, Line

LEMMA ShiftWord ==
  ASSUME NEW b \in Nat \ {0}, NEW a, a = PayloadAt(b), NEW s, s = ShiftOf(a), NEW m
  PROVE  Word(m, b, s \div 8 - 1) = m.body[(a + s) \div 16 - 1]
<1>1. CASE s = 8 /\ s \div 8 = 1 /\ (a + s) \div 16 - 1 = b
  BY <1>1 DEF Word
<1>2. CASE s = 24 /\ s \div 8 = 3 /\ (a + s) \div 16 - 1 = b + 1
  BY <1>2 DEF Word
<1> QED BY <1>1, <1>2, Shift

LEMMA LinesHold ==
  ASSUME NEW l \in Nat \ {0}
  PROVE  UmmBlocks(32 * l + 32) = 2 * l + 3
BY DEF UmmBlocks

LEMMA HoldKept ==
  ASSUME NEW m, NEW p, NEW w, NEW S, NEW F, Sound(m, S, F), Accounts(m, p, w, S, F),
         NEW i \in Ids, p[i] # 0, NEW a, NEW l \in Nat, Hold(m, p[i], w[i], a, l, i),
         NEW to, Kept(m, to, p[i])
  PROVE  Hold(to, p[i], w[i], a, l, i)
<1>1. PICK s : s = ShiftOf(PayloadAt(p[i]))
  OBVIOUS
<1>2. PICK b : b = p[i]
  OBVIOUS
<1>3. b \in Nat \ {0} /\ w[i] \in Nat \ {0}
  BY <1>2 DEF Accounts
<1>4. (s = 8 /\ s \div 8 = 1) \/ (s = 24 /\ s \div 8 = 3)
  <2>1. PICK q : q = PayloadAt(b)
    OBVIOUS
  <2> QED BY <1>1, <1>2, <1>3, <2>1, Shift
<1>5. \A x \in Nat : x < 2 * UmmBlocks(w[i]) - 1 => Word(to, b, x) = Word(m, b, x)
  BY <1>2, WrittenKept
<1>6. UmmBlocks(w[i]) \in Nat /\ WordsIn(w[i]) \in Nat /\ WordsIn(w[i]) <= 2 * UmmBlocks(w[i]) - 1
  BY <1>3, BlocksHold
<1>7. CASE /\ l = 0 /\ a = PayloadAt(b)
           /\ Written(m, b, i, 0, WordsIn(w[i]))
  <2>1. Written(to, b, i, 0, WordsIn(w[i]))
    <3> SUFFICES ASSUME NEW x \in Nat, x < WordsIn(w[i])
                 PROVE  Word(to, b, x) = [id |-> i, word |-> x]
      BY DEF Written
    <3>1. x < 2 * UmmBlocks(w[i]) - 1
      BY <1>6
    <3> QED BY <1>5, <1>7, <3>1 DEF Written
  <2> QED BY <1>2, <1>7, <2>1 DEF Hold
<1>8. CASE /\ l # 0 /\ w[i] = 32 * l + 32 /\ a = PayloadAt(b) + s
           /\ Word(m, b, s \div 8 - 1).word = s
           /\ Written(m, b, i, s \div 8, s \div 8 + 4 * l)
  <2>1. UmmBlocks(w[i]) = 2 * l + 3
    BY <1>8, LinesHold
  <2>2. PICK d : d = s \div 8
    OBVIOUS
  <2>3. (d = 1 \/ d = 3) /\ d - 1 \in Nat /\ d - 1 < 2 * UmmBlocks(w[i]) - 1
    BY <1>4, <2>1, <2>2
  <2>4. Word(to, b, d - 1) = Word(m, b, d - 1)
    BY <1>5, <2>3
  <2>5. Written(m, b, i, d, d + 4 * l)
    BY <1>8, <2>2
  <2>6. Written(to, b, i, d, d + 4 * l)
    <3> SUFFICES ASSUME NEW x \in Nat, d <= x, x < d + 4 * l
                 PROVE  Word(to, b, x) = [id |-> i, word |-> x]
      BY DEF Written
    <3>1. x < 2 * UmmBlocks(w[i]) - 1
      BY <2>1, <2>3
    <3> QED BY <1>5, <2>5, <3>1 DEF Written
  <2> QED BY <1>1, <1>2, <1>8, <2>2, <2>4, <2>6 DEF Hold
<1> QED BY <1>1, <1>2, <1>7, <1>8 DEF Hold

(* A call for pointer id leaves the invariant true if it leaves id's part. *)
Apart(p, w, a, l, p2, w2, a2, l2, id) ==
  \A i \in Ids \ {id} : p2[i] = p[i] /\ w2[i] = w[i] /\ a2[i] = a[i] /\ l2[i] = l[i]
Part(m, p, w, a, l, i) ==
  IF p[i] = 0 THEN a[i] = 0 /\ l[i] = 0 ELSE Hold(m, p[i], w[i], a[i], l[i], i)
LEMMA XStep ==
  ASSUME NEW m, NEW p, NEW w, NEW a, NEW l, NEW S, NEW F, XState(m, p, w, a, l, S, F),
         NEW id \in Ids, NEW to, NEW p2, NEW w2, NEW S2, NEW F2,
         Served(m, p, w, S, F, to, p2, w2, S2, F2, id),
         NEW a2 \in [Ids -> Nat], NEW l2 \in [Ids -> Nat],
         Apart(p, w, a, l, p2, w2, a2, l2, id), Part(to, p2, w2, a2, l2, id)
  PROVE  XState(to, p2, w2, a2, l2, S2, F2)
<1>1. /\ Sound(to, S2, F2) /\ Accounts(to, p2, w2, S2, F2)
      /\ Tidy(m, to, S, F, S2, F2, p[id])
      /\ \A i \in Ids \ {id} : p[i] # 0 => Kept(m, to, p[i])
  BY DEF Served
<1>2. /\ Sound(m, S, F) /\ Packed(m, F) /\ Clean(m.hdr, S)
      /\ Accounts(m, p, w, S, F) /\ l \in [Ids -> Nat]
      /\ \A i \in Ids : IF p[i] = 0 THEN a[i] = 0 /\ l[i] = 0
                                    ELSE Hold(m, p[i], w[i], a[i], l[i], i)
  BY DEF XState
<1>3. Packed(to, F2) /\ Clean(to.hdr, S2)
  BY <1>1, <1>2 DEF Tidy
<1>4. ASSUME NEW i \in Ids
      PROVE  IF p2[i] = 0 THEN a2[i] = 0 /\ l2[i] = 0
                          ELSE Hold(to, p2[i], w2[i], a2[i], l2[i], i)
  <2>1. CASE i = id
    BY <2>1 DEF Part
  <2>2. CASE i # id
    <3>1. p2[i] = p[i] /\ w2[i] = w[i] /\ a2[i] = a[i] /\ l2[i] = l[i] /\ l[i] \in Nat
      BY <1>2, <2>2 DEF Apart
    <3>2. CASE p[i] = 0
      BY <1>2, <3>1, <3>2
    <3>3. CASE p[i] # 0
      <4>1. Kept(m, to, p[i]) /\ Hold(m, p[i], w[i], a[i], l[i], i)
        BY <1>1, <1>2, <2>2, <3>3
      <4>2. Hold(to, p[i], w[i], a[i], l[i], i)
        BY <1>2, <3>1, <3>3, <4>1, HoldKept
      <4> QED BY <3>1, <3>3, <4>2
    <3> QED BY <3>2, <3>3
  <2> QED BY <2>1, <2>2
<1> QED BY <1>1, <1>3, <1>4 DEF XState

(* umm_malloc, with what the program then writes in the block              *)
LEMMA MallocKeeps ==
  ASSUME NEW S, NEW F, Sound(heap, S, F), Accounts(heap, ptr, want, S, F),
         NEW id \in Ids, NEW size \in Nat, Malloc(id, size)
  PROVE  /\ \E S2, F2 : Served(heap, ptr, want, S, F, heap', ptr', want', S2, F2, id)
         /\ \A i \in Ids \ {id} : ptr'[i] = ptr[i] /\ want'[i] = want[i]
         /\ ptr[id] = 0 /\ ptr' \in [Ids -> Nat]
         /\ ptr'[id] # 0 => Written(heap', ptr'[id], id, 0, WordsIn(want'[id]))
<1>1. PICK b, u : /\ b = UmmMalloc(heap, UmmBlocks(size)).block
                  /\ u = UmmMalloc(heap, UmmBlocks(size)).heap
  OBVIOUS
<1>2. PICK v : v = IF b = 0 THEN 0 ELSE size
  OBVIOUS
<1>3. /\ ptr[id] = 0 /\ size \in Nat \ {0}
      /\ heap' = IF b = 0 THEN u ELSE Store(u, b, id, 0, WordsIn(size))
      /\ ptr' = [ptr EXCEPT ![id] = b] /\ want' = [want EXCEPT ![id] = v]
  BY <1>1, <1>2 DEF Malloc
<1>4. PICK S2, F2 : Served(heap, ptr, want, S, F, u, ptr', want', S2, F2, id)
  BY <1>1, <1>2, <1>3, MallocServed
<1>5. Sound(u, S2, F2) /\ Accounts(u, ptr', want', S2, F2)
  BY <1>4 DEF Served
<1>6. /\ ptr'[id] = b /\ want'[id] = v /\ ptr' \in [Ids -> Nat]
      /\ \A i \in Ids \ {id} : ptr'[i] = ptr[i] /\ want'[i] = want[i]
  <2>1. ptr \in [Ids -> Nat] /\ want \in [Ids -> Nat] /\ ptr' \in [Ids -> Nat]
    BY <1>5 DEF Accounts
  <2> QED BY <1>3, <2>1
<1>7. CASE b = 0
  BY <1>3, <1>4, <1>6, <1>7
<1>8. CASE b # 0
  <2> DEFINE hi == WordsIn(size)  val == [x \in 0 .. hi - 1 |-> [id |-> id, word |-> x]]
  <2>1. /\ want'[id] = size /\ hi \in Nat /\ UmmBlocks(size) \in Nat
        /\ hi <= 2 * UmmBlocks(size) - 1
    BY <1>2, <1>3, <1>6, <1>8, BlocksHold
  <2> HIDE DEF hi
  <2>2. heap' = Store(u, b, id, 0, hi)
    BY <1>3, <1>8 DEF hi
  <2>3. Filled(u, heap', S2, F2, b, 0, hi, val)
    <3>1. b = ptr'[id] /\ hi \in Nat /\ 0 \in Nat /\ hi <= 2 * UmmBlocks(want'[id]) - 1
      BY <1>6, <2>1
    <3> QED BY <1>5, <1>8, <2>2, <3>1, StoreFills
  <2>4. Served(heap, ptr, want, S, F, heap', ptr', want', S2, F2, id)
    <3> HIDE DEF val
    <3> QED BY <1>4, <1>6, <1>8, <2>3, FilledServed
  <2>5. Written(heap', b, id, 0, hi)
    <3> SUFFICES ASSUME NEW x \in Nat, 0 <= x, x < hi
                 PROVE  Word(heap', b, x) = [id |-> id, word |-> x]
      BY DEF Written
    <3>1. x < 2 * UmmBlocks(want'[id]) - 1 /\ x \in 0 .. hi - 1
      BY <2>1
    <3>2. val[x] = [id |-> id, word |-> x]
      BY <3>1
    <3> HIDE DEF val
    <3>3. FilledTo(u, heap', b, want'[id], 0, hi, val)
      BY <1>5, <1>6, <1>8, <2>3, FilledWords
    <3> QED BY <3>1, <3>2, <3>3 DEF FilledTo
  <2>6. Written(heap', ptr'[id], id, 0, WordsIn(want'[id]))
    BY <1>6, <2>1, <2>5 DEF hi
  <2> QED BY <1>3, <1>6, <2>4, <2>6
<1> QED BY <1>7, <1>8

(* x_malloc *)
LEMMA XMallocStep ==
  ASSUME NEW S, NEW F, XState(heap, ptr, want, address, lines, S, F),
         NEW id \in Ids, NEW size \in Nat, XMalloc(id, size)
  PROVE  XServed(S, F, id)
<1>1. /\ Malloc(id, size) /\ lines' = lines
      /\ address' = [address EXCEPT ![id] = PayloadAt(ptr'[id])]
  BY DEF XMalloc
<1>2. /\ Sound(heap, S, F) /\ Accounts(heap, ptr, want, S, F)
      /\ address \in [Ids -> Nat] /\ lines \in [Ids -> Nat]
      /\ (ptr[id] = 0 => lines[id] = 0)
  BY DEF XState
<1>3. /\ \A i \in Ids \ {id} : ptr'[i] = ptr[i] /\ want'[i] = want[i]
      /\ ptr[id] = 0 /\ ptr' \in [Ids -> Nat]
      /\ ptr'[id] # 0 => Written(heap', ptr'[id], id, 0, WordsIn(want'[id]))
  BY <1>1, <1>2, MallocKeeps
<1>4. PICK S2, F2 : Served(heap, ptr, want, S, F, heap', ptr', want', S2, F2, id)
  BY <1>1, <1>2, MallocKeeps
<1>5. /\ address' \in [Ids -> Nat] /\ lines' \in [Ids -> Nat] /\ lines'[id] = 0
      /\ address'[id] = PayloadAt(ptr'[id]) /\ (ptr'[id] = 0 => address'[id] = 0)
      /\ \A i \in Ids \ {id} : address'[i] = address[i]
  <2>1. PayloadAt(ptr'[id]) \in Nat /\ (ptr'[id] = 0 => PayloadAt(ptr'[id]) = 0)
    BY <1>3 DEF PayloadAt
  <2> QED BY <1>1, <1>2, <1>3, <2>1
<1>6. Apart(ptr, want, address, lines, ptr', want', address', lines', id)
  BY <1>1, <1>3, <1>5 DEF Apart
<1>7. Part(heap', ptr', want', address', lines', id)
  BY <1>3, <1>5 DEF Part, Hold
<1>8. XState(heap', ptr', want', address', lines', S2, F2)
  <2>1. address' \in [Ids -> Nat] /\ lines' \in [Ids -> Nat]
    BY <1>5
  <2> QED BY <1>4, <1>6, <1>7, <2>1, XStep
<1> QED BY <1>4, <1>8 DEF XServed

LEMMA XReallocStep ==
  ASSUME NEW S, NEW F, XState(heap, ptr, want, address, lines, S, F),
         NEW id \in Ids, NEW size \in Nat, XRealloc(id, size)
  PROVE  XServed(S, F, id)
<1>1. PICK b, u : /\ b = UmmRealloc(heap, ptr[id], UmmBlocks(size)).block
                  /\ u = UmmRealloc(heap, ptr[id], UmmBlocks(size)).heap
  OBVIOUS
<1>2. PICK v : v = IF b = 0 THEN 0 ELSE size
  OBVIOUS
<1>3. /\ ptr[id] # 0 /\ size \in Nat \ {0} /\ address[id] % 32 # 0
      /\ heap' = IF b = 0 THEN u ELSE Store(u, b, id, WordsIn(want[id]), WordsIn(size))
      /\ ptr' = [ptr EXCEPT ![id] = b] /\ want' = [want EXCEPT ![id] = v]
      /\ address' = [address EXCEPT ![id] = PayloadAt(ptr'[id])] /\ lines' = lines
  BY <1>1, <1>2 DEF XRealloc, Realloc, Line
<1>4. /\ Sound(heap, S, F) /\ Accounts(heap, ptr, want, S, F)
      /\ address \in [Ids -> Nat] /\ lines \in [Ids -> Nat]
      /\ Hold(heap, ptr[id], want[id], address[id], lines[id], id)
      /\ ptr[id] \in Nat \ {0} /\ want[id] \in Nat \ {0}
  BY <1>3 DEF XState, Accounts
<1>5. /\ \E S2, F2 : Served(heap, ptr, want, S, F, u, ptr', want', S2, F2, id)
      /\ b # 0 => CarriedTo(heap, u, ptr[id], b, want[id], size)
  BY <1>1, <1>2, <1>3, <1>4, ReallocServed
<1>6. PICK S2, F2 : Served(heap, ptr, want, S, F, u, ptr', want', S2, F2, id)
  BY <1>5
<1>7. Sound(u, S2, F2) /\ Accounts(u, ptr', want', S2, F2)
  BY <1>6 DEF Served
<1>8. /\ ptr'[id] = b /\ want'[id] = v /\ b \in Nat /\ address' \in [Ids -> Nat]
      /\ address'[id] = PayloadAt(b)
      /\ \A i \in Ids \ {id} : ptr'[i] = ptr[i] /\ want'[i] = want[i] /\ address'[i] = address[i]
  <2>1. ptr \in [Ids -> Nat] /\ want \in [Ids -> Nat] /\ ptr' \in [Ids -> Nat]
    BY <1>4, <1>7 DEF Accounts
  <2>2. ptr'[id] = b /\ b \in Nat
    BY <1>3, <2>1
  <2>3. PayloadAt(b) \in Nat
    BY <2>2 DEF PayloadAt
  <2> QED BY <1>3, <1>4, <2>1, <2>2, <2>3
<1>9. lines[id] = 0 /\ Written(heap, ptr[id], id, 0, WordsIn(want[id]))
  <2>1. PICK q, s : q = PayloadAt(ptr[id]) /\ s = ShiftOf(q)
    OBVIOUS
  <2>2. (q + s) % 32 = 0
    BY <1>4, <2>1, Shift
  <2> QED BY <1>3, <1>4, <2>1, <2>2 DEF Hold
<1>10. CASE b = 0
  <2>1. heap' = u /\ address'[id] = 0
    BY <1>3, <1>8, <1>10 DEF PayloadAt
  <2>2. Apart(ptr, want, address, lines, ptr', want', address', lines', id)
    BY <1>3, <1>8 DEF Apart
  <2>3. Part(heap', ptr', want', address', lines', id)
    BY <1>3, <1>8, <1>9, <1>10, <2>1 DEF Part
  <2>4. Served(heap, ptr, want, S, F, heap', ptr', want', S2, F2, id)
    BY <1>6, <2>1
  <2>5. XState(heap', ptr', want', address', lines', S2, F2)
    <3>1. address' \in [Ids -> Nat] /\ lines' \in [Ids -> Nat]
      BY <1>3, <1>4, <1>8
    <3> QED BY <2>2, <2>3, <2>4, <3>1, XStep
  <2> QED BY <2>4, <2>5 DEF XServed
<1>11. CASE b # 0
  <2> DEFINE lo == WordsIn(want[id])  hi == WordsIn(size)
             val == [x \in lo .. hi - 1 |-> [id |-> id, word |-> x]]
  <2>1. /\ want'[id] = size /\ hi \in Nat /\ UmmBlocks(size) \in Nat
        /\ hi <= 2 * UmmBlocks(size) - 1
        /\ lo \in Nat /\ UmmBlocks(want[id]) \in Nat /\ lo <= 2 * UmmBlocks(want[id]) - 1
    BY <1>2, <1>3, <1>4, <1>8, <1>11, BlocksHold
  <2> HIDE DEF lo, hi
  <2>2. heap' = Store(u, b, id, lo, hi)
    BY <1>3, <1>11 DEF lo, hi
  <2>3. Filled(u, heap', S2, F2, b, lo, hi, val)
    <3>1. /\ b = ptr'[id] /\ b # 0 /\ lo \in Nat /\ hi \in Nat
          /\ hi <= 2 * UmmBlocks(want'[id]) - 1
      BY <1>8, <1>11, <2>1
    <3> QED BY <1>7, <2>2, <3>1, StoreFills
  <2>4. Served(heap, ptr, want, S, F, heap', ptr', want', S2, F2, id)
    <3> HIDE DEF val
    <3> QED BY <1>4, <1>6, <1>8, <1>11, <2>3, FilledServed
  <2>5. Written(heap', b, id, 0, hi)
    <3> SUFFICES ASSUME NEW x \in Nat, 0 <= x, x < hi
                 PROVE  Word(heap', b, x) = [id |-> id, word |-> x]
      BY DEF Written
    <3>1. x < 2 * UmmBlocks(want'[id]) - 1
      BY <2>1
    <3>2. Word(heap', b, x) = IF x \in lo .. hi - 1 THEN val[x] ELSE Word(u, b, x)
      <4> HIDE DEF val
      <4>1. FilledTo(u, heap', b, want'[id], lo, hi, val)
        BY <1>7, <1>8, <1>11, <2>3, FilledWords
      <4> QED BY <3>1, <4>1 DEF FilledTo
    <3>3. CASE x >= lo
      <4>1. x \in lo .. hi - 1
        BY <2>1, <3>3
      <4> QED BY <3>2, <4>1
    <3>4. CASE ~(x >= lo)
      <4>1. x < 2 * UmmBlocks(want[id]) - 1 /\ x < 2 * UmmBlocks(size) - 1 /\ x < lo /\ x \notin lo .. hi - 1
        BY <2>1, <3>4
      <4>2. Word(u, b, x) = Word(heap, ptr[id], x)
        BY <1>5, <1>11, <4>1 DEF CarriedTo
      <4>3. Word(heap, ptr[id], x) = [id |-> id, word |-> x]
        BY <1>9, <4>1 DEF Written, lo
      <4> HIDE DEF val
      <4> QED BY <3>2, <4>1, <4>2, <4>3
    <3> QED BY <3>3, <3>4
  <2>6. Hold(heap', ptr'[id], want'[id], address'[id], lines'[id], id)
    BY <1>3, <1>8, <1>9, <2>1, <2>5 DEF Hold, hi
  <2>7. Part(heap', ptr', want', address', lines', id)
    BY <1>8, <1>11, <2>6 DEF Part
  <2>8. Apart(ptr, want, address, lines, ptr', want', address', lines', id)
    BY <1>3, <1>8 DEF Apart
  <2>9. XState(heap', ptr', want', address', lines', S2, F2)
    <3>1. address' \in [Ids -> Nat] /\ lines' \in [Ids -> Nat]
      BY <1>3, <1>4, <1>8
    <3> QED BY <2>4, <2>7, <2>8, <3>1, XStep
  <2> QED BY <2>4, <2>9 DEF XServed
<1> QED BY <1>10, <1>11

ShiftIn(m, to, S, F, b, d, s, id) ==
  /\ Filled(m, to, S, F, b, d - 1, d, [x \in {d - 1} |-> [id |-> id, word |-> s]])
  /\ (d = 1 \/ d = 3) /\ s \in Nat /\ b \in Nat \ {0}
LEMMA ShiftFills ==
  ASSUME NEW m, NEW p, NEW w, NEW S, NEW F, Sound(m, S, F), Accounts(m, p, w, S, F),
         NEW id \in Ids, NEW b, b = p[id], b # 0, NEW l \in Nat \ {0}, w[id] = 32 * l + 32,
         NEW s, s = ShiftOf(PayloadAt(b)), NEW d, d = s \div 8, NEW to, to = PutShift(m, b, id)
  PROVE  ShiftIn(m, to, S, F, b, d, s, id) /\ UmmBlocks(w[id]) = 2 * l + 3
<1> DEFINE val == [x \in {d - 1} |-> [id |-> id, word |-> s]]
<1>1. b \in Used(S, F) /\ b \in Nat \ {0} /\ m.hdr[b].next = b + UmmBlocks(w[id])
  BY DEF Accounts
<1>2. UmmBlocks(w[id]) = 2 * l + 3
  BY LinesHold
<1>3. (s = 8 /\ d = 1) \/ (s = 24 /\ d = 3)
  <2>1. PICK q : q = PayloadAt(b)
    OBVIOUS
  <2> QED BY <1>1, <2>1, Shift
<1>4. d - 1 \in Nat /\ d \in Nat /\ d <= 2 * (m.hdr[b].next - b) - 1 /\ s \in Nat
  BY <1>1, <1>2, <1>3
<1>5. to = PutWords(m, b, d - 1, d, val)
  <2>1. to = PutWords(m, b, d - 1, (d - 1) + 1, val)
    BY DEF PutShift
  <2>2. (d - 1) + 1 = d
    BY <1>4
  <2> QED BY <2>1, <2>2
<1>6. \A x \in d - 1 .. d - 1 : val[x] \in Data
  BY <1>4 DEF Data
<1> HIDE DEF val
<1>7. \A x \in d - 1 .. d - 1 : IF x % 2 = 0 THEN val[x] \in Links \cup Data
                                           ELSE val[x] \in Header \cup Data
  BY <1>6
<1>8. Filled(m, to, S, F, b, d - 1, d, val)
  BY <1>1, <1>4, <1>5, <1>7, PutWordsSound
<1> QED BY <1>1, <1>2, <1>3, <1>4, <1>8 DEF val, ShiftIn

LEMMA XMallocAlign32Step ==
  ASSUME NEW S, NEW F, XState(heap, ptr, want, address, lines, S, F),
         NEW id \in Ids, NEW size \in Nat \ {0}, XMallocAlign32(id, size)
  PROVE  XServed(S, F, id)
<1>1. PICK l : l = Lines(size)
  OBVIOUS
<1>2. l \in Nat \ {0} /\ calcAlign32(size) = 32 * l + 32
  BY <1>1 DEF Lines, calcAlign32
<1>3. PICK asked : asked = 32 * l + 32
  OBVIOUS
<1>4. asked \in Nat \ {0} /\ calcAlign32(size) = asked
  BY <1>2, <1>3
<1>5. PICK b, u : /\ b = UmmMalloc(heap, UmmBlocks(asked)).block
                  /\ u = UmmMalloc(heap, UmmBlocks(asked)).heap
  OBVIOUS
<1>6. PICK v : v = IF b = 0 THEN 0 ELSE asked
  OBVIOUS
<1>7. PICK s : s = ShiftOf(PayloadAt(b))
  OBVIOUS
<1>8. PICK d : d = s \div 8
  OBVIOUS
<1>9. /\ ptr[id] = 0
      /\ heap' = IF b = 0 THEN u ELSE Store(PutShift(u, b, id), b, id, d, d + 4 * l)
      /\ ptr' = [ptr EXCEPT ![id] = b] /\ want' = [want EXCEPT ![id] = v]
      /\ address' = [address EXCEPT ![id] = IF b = 0 THEN 0 ELSE PayloadAt(b) + s]
      /\ lines' = [lines EXCEPT ![id] = IF b = 0 THEN 0 ELSE l]
  BY <1>1, <1>4, <1>5, <1>6, <1>7, <1>8 DEF XMallocAlign32
<1>10. /\ Sound(heap, S, F) /\ Accounts(heap, ptr, want, S, F)
       /\ address \in [Ids -> Nat] /\ lines \in [Ids -> Nat]
  BY DEF XState
<1>11. PICK S2, F2 : Served(heap, ptr, want, S, F, u, ptr', want', S2, F2, id)
  BY <1>4, <1>5, <1>6, <1>9, <1>10, MallocServed
<1>12. Sound(u, S2, F2) /\ Accounts(u, ptr', want', S2, F2)
  BY <1>11 DEF Served
<1>13. /\ ptr'[id] = b /\ want'[id] = v /\ b \in Nat
       /\ \A i \in Ids \ {id} : ptr'[i] = ptr[i] /\ want'[i] = want[i]
  <2>1. ptr \in [Ids -> Nat] /\ want \in [Ids -> Nat] /\ ptr' \in [Ids -> Nat]
    BY <1>10, <1>12 DEF Accounts
  <2> QED BY <1>9, <2>1
<1>14. Apart(ptr, want, address, lines, ptr', want', address', lines', id)
  BY <1>9, <1>10, <1>13 DEF Apart
<1>15. CASE b = 0
  <2>1. heap' = u /\ address'[id] = 0 /\ lines'[id] = 0 /\ address' \in [Ids -> Nat] /\ lines' \in [Ids -> Nat]
    BY <1>9, <1>10, <1>15
  <2>2. Part(heap', ptr', want', address', lines', id)
    BY <1>13, <1>15, <2>1 DEF Part
  <2>3. XState(heap', ptr', want', address', lines', S2, F2)
    BY <1>11, <1>14, <2>1, <2>2, XStep
  <2> QED BY <1>11, <2>1, <2>3 DEF XServed
<1>16. CASE b # 0
  <2> DEFINE hi == d + 4 * l
             one == [x \in {d - 1} |-> [id |-> id, word |-> s]]
             val == [x \in d .. hi - 1 |-> [id |-> id, word |-> x]]
  <2>1. PICK f : f = PutShift(u, b, id)
    OBVIOUS
  <2>2. want'[id] = 32 * l + 32
    BY <1>3, <1>6, <1>13, <1>16
  <2>3. /\ Filled(u, f, S2, F2, b, d - 1, d, one)
        /\ (d = 1 \/ d = 3) /\ s \in Nat /\ b \in Nat \ {0} /\ UmmBlocks(want'[id]) = 2 * l + 3
    <3>1. ShiftIn(u, f, S2, F2, b, d, s, id) /\ UmmBlocks(want'[id]) = 2 * l + 3
      BY <1>2, <1>7, <1>8, <1>12, <1>13, <1>16, <2>1, <2>2, ShiftFills
    <3> QED BY <3>1 DEF ShiftIn
  <2>4. \A i \in Ids \ {id} : ptr'[i] = ptr[i]
    BY <1>13
  <2>5. Served(heap, ptr, want, S, F, f, ptr', want', S2, F2, id)
    <3> HIDE DEF one
    <3> QED BY <1>10, <1>11, <1>13, <1>16, <2>3, <2>4, FilledServed
  <2>6. Sound(f, S2, F2) /\ Accounts(f, ptr', want', S2, F2)
    BY <2>5 DEF Served
  <2>7. d \in Nat /\ hi \in Nat /\ hi <= 2 * UmmBlocks(want'[id]) - 1 /\ d - 1 \in Nat
    BY <1>2, <2>3
  <2>8. heap' = Store(f, b, id, d, hi)
    BY <1>9, <1>16, <2>1
  <2> HIDE DEF hi
  <2>9. Filled(f, heap', S2, F2, b, d, hi, val)
    BY <1>13, <1>16, <2>6, <2>7, <2>8, StoreFills
  <2>10. Served(heap, ptr, want, S, F, heap', ptr', want', S2, F2, id)
    <3> HIDE DEF val
    <3> QED BY <1>10, <1>13, <1>16, <2>4, <2>5, <2>9, FilledServed
  <2>11. FilledTo(u, f, b, want'[id], d - 1, d, one) /\ FilledTo(f, heap', b, want'[id], d, hi, val)
    <3> HIDE DEF one, val
    <3>1. FilledTo(u, f, b, want'[id], d - 1, d, one)
      BY <1>12, <1>13, <1>16, <2>3, FilledWords
    <3>2. FilledTo(f, heap', b, want'[id], d, hi, val)
      BY <1>13, <1>16, <2>6, <2>9, FilledWords
    <3> QED BY <3>1, <3>2
  <2>12. Word(heap', b, d - 1).word = s
    <3>1. /\ d - 1 < 2 * UmmBlocks(want'[id]) - 1 /\ d - 1 \in Nat
          /\ d - 1 \notin d .. hi - 1 /\ d - 1 \in d - 1 .. d - 1
      BY <1>2, <2>3, <2>7
    <3>2. one[d - 1].word = s
      OBVIOUS
    <3> HIDE DEF one, val
    <3>3. Word(heap', b, d - 1) = Word(f, b, d - 1)
      BY <2>11, <3>1 DEF FilledTo
    <3>4. Word(f, b, d - 1) = one[d - 1]
      BY <2>11, <3>1 DEF FilledTo
    <3> QED BY <3>2, <3>3, <3>4
  <2>13. Written(heap', b, id, d, hi)
    <3> SUFFICES ASSUME NEW x \in Nat, d <= x, x < hi
                 PROVE  Word(heap', b, x) = [id |-> id, word |-> x]
      BY DEF Written
    <3>1. x < 2 * UmmBlocks(want'[id]) - 1 /\ x \in d .. hi - 1
      BY <1>2, <2>3, <2>7
    <3>2. val[x] = [id |-> id, word |-> x]
      BY <3>1
    <3> HIDE DEF val
    <3> QED BY <2>11, <3>1, <3>2 DEF FilledTo
  <2>14. /\ address'[id] = PayloadAt(b) + s /\ lines'[id] = l
         /\ address' \in [Ids -> Nat] /\ lines' \in [Ids -> Nat]
    <3>1. PayloadAt(b) + s \in Nat
      BY <2>3 DEF PayloadAt
    <3> QED BY <1>2, <1>9, <1>10, <1>16, <3>1
  <2>15. Hold(heap', b, want'[id], address'[id], lines'[id], id)
    <3>1. /\ lines'[id] # 0 /\ want'[id] = 32 * lines'[id] + 32
          /\ address'[id] = PayloadAt(b) + ShiftOf(PayloadAt(b))
      BY <1>2, <1>7, <2>2, <2>14
    <3>2. Word(heap', b, ShiftOf(PayloadAt(b)) \div 8 - 1).word = ShiftOf(PayloadAt(b))
      BY <1>7, <1>8, <2>12
    <3>3. Written(heap', b, id, ShiftOf(PayloadAt(b)) \div 8, ShiftOf(PayloadAt(b)) \div 8 + 4 * lines'[id])
      BY <1>7, <1>8, <2>13, <2>14 DEF hi
    <3> QED BY <3>1, <3>2, <3>3 DEF Hold
  <2>16. Part(heap', ptr', want', address', lines', id)
    BY <1>13, <1>16, <2>15 DEF Part
  <2>17. XState(heap', ptr', want', address', lines', S2, F2)
    BY <1>14, <2>10, <2>14, <2>16, XStep
  <2> QED BY <2>10, <2>17 DEF XServed
<1> QED BY <1>15, <1>16

(* x_free finds the way back from the address it is given.                 *)
LEMMA WayBack ==
  ASSUME NEW S, NEW F, XState(heap, ptr, want, address, lines, S, F), NEW id \in Ids, ptr[id] # 0
  PROVE  /\ Origin(address[id]) = PayloadAt(ptr[id]) /\ PayloadAt(ptr[id]) \div 16 = ptr[id]
         /\ (address[id] % 32 = 0 <=> lines[id] # 0)
<1>1. PICK b : b = ptr[id]
  OBVIOUS
<1>2. PICK q : q = PayloadAt(b)
  OBVIOUS
<1>3. PICK s : s = ShiftOf(q)
  OBVIOUS
<1>4. /\ Hold(heap, b, want[id], address[id], lines[id], id) /\ b \in Nat \ {0}
      /\ lines[id] \in Nat
  BY <1>1 DEF XState, Accounts
<1>5. /\ q = 16 * b + 8 /\ q % 32 # 0 /\ q \div 16 = b /\ (q + s) % 32 = 0
      /\ (s = 8 \/ s = 24)
  BY <1>2, <1>3, <1>4, Shift
<1>6. CASE lines[id] = 0 /\ address[id] = q
  BY <1>1, <1>2, <1>5, <1>6 DEF Origin, Line
<1>7. CASE lines[id] # 0 /\ address[id] = q + s /\ Word(heap, b, s \div 8 - 1).word = s
  <2>1. heap.body[(q + s) \div 16 - 1].word = s
    BY <1>2, <1>3, <1>4, <1>7, ShiftWord
  <2>2. Origin(address[id]) = (q + s) - s
    BY <1>5, <1>7, <2>1 DEF Origin, Line
  <2> QED BY <1>1, <1>2, <1>5, <1>7, <2>2
<1> QED BY <1>2, <1>3, <1>4, <1>6, <1>7 DEF Hold

LEMMA XFreeStep ==
  ASSUME NEW S, NEW F, XState(heap, ptr, want, address, lines, S, F),
         NEW id \in Ids, XFree(id)
  PROVE  XServed(S, F, id)
<1>1. /\ Sound(heap, S, F) /\ Accounts(heap, ptr, want, S, F)
      /\ address \in [Ids -> Nat] /\ lines \in [Ids -> Nat]
      /\ ptr \in [Ids -> Nat] /\ want \in [Ids -> Nat]
      /\ (ptr[id] = 0 => address[id] = 0)
  BY DEF XState, Accounts
<1>2. ptr[id] # 0
  BY <1>1 DEF XFree
<1>3. Origin(address[id]) \div 16 = ptr[id]
  BY <1>2, WayBack
<1>4. /\ heap' = UmmFree(heap, ptr[id])
      /\ ptr' = [ptr EXCEPT ![id] = 0] /\ want' = [want EXCEPT ![id] = 0]
      /\ address' = [address EXCEPT ![id] = 0] /\ lines' = [lines EXCEPT ![id] = 0]
  BY <1>3 DEF XFree
<1>5. PICK S2, F2 : Served(heap, ptr, want, S, F, heap', ptr', want', S2, F2, id)
  BY <1>1, <1>2, <1>4, FreeServed
<1>6. /\ address' \in [Ids -> Nat] /\ lines' \in [Ids -> Nat]
      /\ Apart(ptr, want, address, lines, ptr', want', address', lines', id)
      /\ Part(heap', ptr', want', address', lines', id)
  BY <1>1, <1>4 DEF Apart, Part
<1>7. XState(heap', ptr', want', address', lines', S2, F2)
  BY <1>5, <1>6, XStep
<1> QED BY <1>5, <1>7 DEF XServed

(* XInv holds at first, and every call keeps it.                           *)
LEMMA XInvHolds == SpecX => []XInv
<1>1. InitX => XInv
  <2> SUFFICES ASSUME InitX PROVE XInv
    OBVIOUS
  <2> DEFINE S == {0, 1, N - 1}  F == {1}
  <2>1. /\ Sound(heap, S, F) /\ Packed(heap, F) /\ Clean(heap.hdr, S)
        /\ Accounts(heap, ptr, want, S, F)
    BY SoundAtFirst DEF InitX
  <2> HIDE DEF S, F
  <2>2. ptr = [i \in Ids |-> 0] /\ address = [i \in Ids |-> 0] /\ lines = [i \in Ids |-> 0]
    BY DEF InitX, Init
  <2>3. XState(heap, ptr, want, address, lines, S, F)
    BY <2>1, <2>2 DEF XState
  <2> QED BY <2>3 DEF XInv
<1>2. XInv /\ [NextX]_xvars => XInv'
  <2> SUFFICES ASSUME XInv, [NextX]_xvars PROVE XInv'
    OBVIOUS
  <2>1. PICK S, F : XState(heap, ptr, want, address, lines, S, F)
    BY DEF XInv
  <2>2. ASSUME NEW id \in Ids, XFree(id) PROVE XInv'
    BY <2>1, <2>2, XFreeStep DEF XServed, XInv
  <2>3. ASSUME NEW id \in Ids, NEW size \in Sizes, XMalloc(id, size) PROVE XInv'
    <3>1. size \in Nat
      BY HeapAssumption
    <3> QED BY <2>1, <2>3, <3>1, XMallocStep DEF XServed, XInv
  <2>4. ASSUME NEW id \in Ids, NEW size \in Sizes, XRealloc(id, size) PROVE XInv'
    <3>1. size \in Nat
      BY HeapAssumption
    <3> QED BY <2>1, <2>4, <3>1, XReallocStep DEF XServed, XInv
  <2>5. ASSUME NEW id \in Ids, NEW size \in AlignSizes, XMallocAlign32(id, size) PROVE XInv'
    <3>1. size \in Nat \ {0}
      BY AlignAssumption
    <3> QED BY <2>1, <2>5, <3>1, XMallocAlign32Step DEF XServed, XInv
  <2>6. CASE UNCHANGED xvars
    <3>1. heap' = heap /\ ptr' = ptr /\ want' = want /\ address' = address /\ lines' = lines
      BY <2>6 DEF xvars, vars
    <3>2. XState(heap', ptr', want', address', lines', S, F)
      BY <2>1, <3>1
    <3> QED BY <3>2 DEF XInv
  <2> QED BY <2>2, <2>3, <2>4, <2>5, <2>6 DEF NextX
<1> QED BY <1>1, <1>2, PTL DEF SpecX

(* The heap's lists are sound after any sequence of x_malloc, x_realloc,   *)
(* x_free and their aligned forms: both passes of umm_integrity_check      *)
(* would succeed, and no two free blocks are neighbours.                   *)
THEOREM ListsSoundAlways == SpecX => []ListsSound
<1>1. XInv => ListsSound
  <2> SUFFICES ASSUME NEW S, NEW F, XState(heap, ptr, want, address, lines, S, F)
               PROVE  ListsSound
    BY DEF XInv
  <2>1. Sound(heap, S, F) /\ Packed(heap, F) /\ Clean(heap.hdr, S)
    BY DEF XState
  <2> QED BY <2>1, SoundLists DEF ListsSound
<1> QED BY <1>1, XInvHolds, PTL

(* No block is lost or handed out twice: the used blocks of the list are   *)
(* the allocations of the program's pointers, of the sizes asked for.      *)
THEOREM NothingLostAlways == SpecX => []NothingLost
<1>1. XInv => NothingLost
  <2> SUFFICES ASSUME NEW S, NEW F, XState(heap, ptr, want, address, lines, S, F)
               PROVE  NothingLost
    BY DEF XInv
  <2>1. Sound(heap, S, F) /\ Accounts(heap, ptr, want, S, F)
    BY DEF XState
  <2> QED BY <2>1, AccountsTell
<1> QED BY <1>1, XInvHolds, PTL

LEMMA HoldUses ==
  ASSUME NEW S, NEW F, XState(heap, ptr, want, address, lines, S, F), NEW i \in Ids, ptr[i] # 0
  PROVE  /\ Usable(i) \subseteq 0 .. 2 * BlockSize(heap, ptr[i]) - 2
         /\ \A w \in Usable(i) : Word(heap, ptr[i], w) = [id |-> i, word |-> w]
         /\ address[i] \in 0 .. 16 * N /\ lines[i] \in 0 .. N
<1>1. PICK b : b = ptr[i]
  OBVIOUS
<1>2. PICK q : q = PayloadAt(b)
  OBVIOUS
<1>3. PICK s : s = ShiftOf(q)
  OBVIOUS
<1>4. /\ Hold(heap, b, want[i], address[i], lines[i], i) /\ b \in Nat \ {0} /\ b \in Used(S, F)
      /\ lines[i] \in Nat /\ want[i] \in Nat \ {0}
      /\ heap.hdr[b].next = b + UmmBlocks(want[i]) /\ Sound(heap, S, F)
  BY <1>1 DEF XState, Accounts
<1>5. q = 16 * b + 8 /\ ((s = 8 /\ s \div 8 = 1) \/ (s = 24 /\ s \div 8 = 3))
  BY <1>2, <1>3, <1>4, Shift
<1>6. /\ UmmBlocks(want[i]) \in Nat /\ WordsIn(want[i]) \in Nat
      /\ WordsIn(want[i]) <= 2 * UmmBlocks(want[i]) - 1
  BY <1>4, BlocksHold
<1>7. BlockSize(heap, b) = UmmBlocks(want[i])
  BY <1>4, <1>6 DEF BlockSize
<1>8. /\ N \in Nat /\ b <= N - 2 /\ b + UmmBlocks(want[i]) <= N - 1
  <2>1. heap.hdr[b].next \in Blocks
    BY <1>4, UsedBlock
  <2> QED BY <1>4, <2>1, UsedIsNumber, HeapAssumption DEF Blocks
<1>9. CASE /\ lines[i] = 0 /\ address[i] = q
           /\ Written(heap, b, i, 0, WordsIn(want[i]))
  <2>1. Usable(i) = 0 .. WordsIn(want[i]) - 1
    BY <1>1, <1>2, <1>4, <1>5, <1>6, <1>9 DEF Usable, Aligned
  <2>2. \A w \in Usable(i) : w \in Nat /\ 0 <= w /\ w < WordsIn(want[i])
    BY <1>6, <2>1
  <2>3. \A w \in Usable(i) : Word(heap, b, w) = [id |-> i, word |-> w]
    BY <1>9, <2>2 DEF Written
  <2>4. Usable(i) \subseteq 0 .. 2 * BlockSize(heap, b) - 2
    BY <1>6, <1>7, <2>1
  <2>5. address[i] \in 0 .. 16 * N /\ lines[i] \in 0 .. N
    BY <1>4, <1>5, <1>8, <1>9
  <2> QED BY <1>1, <2>3, <2>4, <2>5
<1>10. CASE /\ lines[i] # 0 /\ want[i] = 32 * lines[i] + 32 /\ address[i] = q + s
            /\ Written(heap, b, i, s \div 8, s \div 8 + 4 * lines[i])
  <2>1. PICK d : d = s \div 8
    OBVIOUS
  <2>2. d \in Nat /\ d <= 3 /\ (address[i] - q) \div 8 = d
    BY <1>5, <1>10, <2>1
  <2>3. Usable(i) = d .. d + 4 * lines[i] - 1
    BY <1>1, <1>2, <1>4, <1>10, <2>2 DEF Usable, Aligned
  <2>4. \A w \in Usable(i) : w \in Nat /\ d <= w /\ w < d + 4 * lines[i]
    BY <1>4, <2>2, <2>3
  <2>5. \A w \in Usable(i) : Word(heap, b, w) = [id |-> i, word |-> w]
    BY <1>10, <2>1, <2>4 DEF Written
  <2>6. UmmBlocks(want[i]) = 2 * lines[i] + 3
    BY <1>4, <1>10, LinesHold
  <2>7. Usable(i) \subseteq 0 .. 2 * BlockSize(heap, b) - 2
    BY <1>4, <1>7, <2>2, <2>3, <2>6
  <2> QED BY <1>1, <1>4, <1>5, <1>8, <1>10, <2>5, <2>6, <2>7
<1> QED BY <1>2, <1>3, <1>4, <1>9, <1>10 DEF Hold

(* The types of the heap, of the pointers and of their addresses.          *)
THEOREM XTypes == SpecX => []XTypeOK
<1>1. XInv => XTypeOK
  <2> SUFFICES ASSUME NEW S, NEW F, XState(heap, ptr, want, address, lines, S, F)
               PROVE  XTypeOK
    BY DEF XInv
  <2>1. /\ Sound(heap, S, F) /\ Accounts(heap, ptr, want, S, F)
        /\ address \in [Ids -> Nat] /\ lines \in [Ids -> Nat]
        /\ \A i \in Ids : ptr[i] = 0 => address[i] = 0 /\ lines[i] = 0
    BY DEF XState
  <2>2. TypeOK
    BY <2>1, HeapTypes
  <2>3. \A i \in Ids : address[i] \in 0 .. 16 * N /\ lines[i] \in 0 .. N
    BY <2>1, HoldUses, HeapAssumption
  <2> QED BY <2>1, <2>2, <2>3 DEF XTypeOK
<1> QED BY <1>1, XInvHolds, PTL

(* The memory a pointer was given lies in its own blocks and holds what    *)
(* its owner has written, whatever the heap and the other pointers do.     *)
THEOREM PointersHoldAlways == SpecX => []PointersHold
<1>1. XInv => PointersHold
  <2> SUFFICES ASSUME NEW S, NEW F, XState(heap, ptr, want, address, lines, S, F)
               PROVE  PointersHold
    BY DEF XInv
  <2> QED BY HoldUses DEF PointersHold
<1> QED BY <1>1, XInvHolds, PTL

(* x_free tells an aligned pointer by its address alone and gives umm_free *)
(* the address umm_malloc returned, for the shift word below survives.     *)
THEOREM FreesItsOwnAlways == SpecX => []FreesItsOwn
<1>1. XInv => FreesItsOwn
  <2> SUFFICES ASSUME NEW S, NEW F, XState(heap, ptr, want, address, lines, S, F)
               PROVE  FreesItsOwn
    BY DEF XInv
  <2> QED BY WayBack DEF FreesItsOwn, Aligned, Line
<1> QED BY <1>1, XInvHolds, PTL
-----------------------------------------------------------------------------
(* umm_integrity_check.  A mark is the check's only trace.                 *)
Marks(m, S) == {b \in S : m.hdr[b].mark}

LEMMA KindsApart == Header \cap Data = {} /\ Links \cap Data = {}
BY DEF Header, Data, Links

(* UMM_PBLOCK(b) with the number loaded from it and a top bit written.     *)
LEMMA MarkedTypes ==
  ASSUME heap.hdr \in Headers, loaded \in Blocks, NEW b \in Blocks, NEW bit \in BOOLEAN,
         NEW to, to \in Marked(b, bit)
  PROVE  /\ to.hdr \in Headers /\ to.body = heap.body
         /\ \A x \in Blocks \ {b} : to.hdr[x] = heap.hdr[x]
         /\ heap.hdr[b] \in Data => to.hdr[b] \in Data
         /\ heap.hdr[b] \in Header =>
              /\ to.hdr[b] \in Header /\ to.hdr[b].prev = loaded /\ to.hdr[b].mark = bit
              /\ to.hdr[b].next = heap.hdr[b].next /\ to.hdr[b].free = heap.hdr[b].free
<1>1. PICK hdr : hdr = heap.hdr
  OBVIOUS
<1>2. hdr \in Headers
  BY <1>1
<1>3. CASE to = heap /\ hdr[b] \in Data
  BY <1>1, <1>2, <1>3, KindsApart
<1>4. CASE hdr[b] \in Data /\ to = [hdr |-> [hdr EXCEPT ![b].word = Smashed], body |-> heap.body]
  <2>1. [hdr[b] EXCEPT !.word = Smashed] \in Data
    BY <1>4, HeapAssumption DEF Data, Smashed
  <2>2. /\ to.hdr \in Headers /\ to.body = heap.body
        /\ \A x \in Blocks \ {b} : to.hdr[x] = hdr[x]
    BY <1>2, <1>4, <2>1 DEF Headers
  <2>3. to.hdr[b] \in Data
    BY <1>2, <1>4, <2>1 DEF Headers
  <2> QED BY <1>1, <1>4, <2>2, <2>3, KindsApart
<1>5. CASE /\ hdr[b] \notin Data
           /\ to = [hdr |-> [hdr EXCEPT ![b].prev = loaded, ![b].mark = bit], body |-> heap.body]
  <2>1. PICK h, g : h = hdr[b] /\ g = [hdr EXCEPT ![b].prev = loaded]
    OBVIOUS
  <2>2. h \in Header
    BY <1>2, <1>5, <2>1 DEF Headers
  <2>3. Wrote(hdr, g, b, [next |-> h.next, free |-> h.free, prev |-> loaded, mark |-> h.mark])
    BY <1>2, <2>1, <2>2, PutHeader
  <2>4. /\ g \in Headers /\ g[b] \in Header /\ \A x \in Blocks \ {b} : g[x] = hdr[x]
        /\ g[b].next = h.next /\ g[b].free = h.free /\ g[b].prev = loaded
    BY <2>3 DEF Wrote
  <2>5. PICK k : k = g[b]
    OBVIOUS
  <2>6. Wrote(g, [g EXCEPT ![b].mark = bit], b,
              [next |-> k.next, free |-> k.free, prev |-> k.prev, mark |-> bit])
    BY <2>4, <2>5, PutHeader
  <2>7. to.hdr = [g EXCEPT ![b].mark = bit] /\ to.body = heap.body
    BY <1>5, <2>1
  <2>8. /\ to.hdr \in Headers /\ \A x \in Blocks \ {b} : to.hdr[x] = g[x]
        /\ to.hdr[b] \in Header /\ to.hdr[b].next = k.next /\ to.hdr[b].prev = k.prev
        /\ to.hdr[b].free = k.free /\ to.hdr[b].mark = bit
    BY <2>6, <2>7 DEF Wrote
  <2> QED BY <1>1, <1>5, <2>1, <2>4, <2>5, <2>7, <2>8
<1> QED BY <1>1, <1>3, <1>4, <1>5 DEF Marked

(* A store that puts the number back that is there, or one outside the     *)
(* list, leaves the lists as they are.                                     *)
LEMMA MarkedSound ==
  ASSUME NEW S, NEW F, Sound(heap, S, F), loaded \in Blocks,
         NEW b \in Blocks, NEW bit \in BOOLEAN,
         NEW to, to \in Marked(b, bit), b \in S => to.hdr[b].prev = heap.hdr[b].prev
  PROVE  /\ Sound(to, S, F) /\ to.body = heap.body
         /\ \A x \in S : to.hdr[x].next = heap.hdr[x].next
         /\ b \in S => /\ \A x \in Blocks \ {b} : to.hdr[x] = heap.hdr[x]
                       /\ to.hdr[b].mark = bit
<1>1. PICK hdr : hdr = heap.hdr
  OBVIOUS
<1>2. SoundTypes(heap, S, F)
  BY SoundHasTypes
<1>3. /\ hdr \in Headers /\ heap.body \in Bodies /\ S \subseteq Blocks
      /\ \A x \in S : hdr[x] \in Header
      /\ Chain(hdr, S) /\ Bits(hdr, S, F) /\ Ring(heap.body, F)
  BY <1>1, <1>2 DEF SoundTypes
<1>4. /\ to.hdr \in Headers /\ to.body = heap.body
      /\ \A x \in Blocks \ {b} : to.hdr[x] = hdr[x]
      /\ hdr[b] \in Header =>
           /\ to.hdr[b] \in Header /\ to.hdr[b].mark = bit
           /\ to.hdr[b].next = hdr[b].next /\ to.hdr[b].free = hdr[b].free
  BY <1>1, <1>3, MarkedTypes
<1>5. \A x \in S : /\ to.hdr[x] \in Header /\ to.hdr[x].next = hdr[x].next
                   /\ to.hdr[x].prev = hdr[x].prev /\ to.hdr[x].free = hdr[x].free
  BY <1>1, <1>3, <1>4
<1>6. Chain(to.hdr, S)
  BY <1>3, <1>5, ChainKept
<1>7. Bits(to.hdr, S, F)
  BY <1>3, <1>5 DEF Bits
<1>8. to \in Memory
  <2>1. to = [hdr |-> to.hdr, body |-> to.body]
    <3>1. heap \in Memory
      BY DEF Sound
    <3>2. heap = [hdr |-> heap.hdr, body |-> heap.body]
      BY <3>1 DEF Memory
    <3> QED BY <3>2 DEF Marked
  <2> QED BY <1>3, <1>4, <2>1 DEF Memory
<1> QED BY <1>1, <1>3, <1>4, <1>5, <1>6, <1>7, <1>8 DEF Sound

LEMMA MarkedAccounts ==
  ASSUME NEW S, NEW F, Sound(heap, S, F), NEW p, NEW w, Accounts(heap, p, w, S, F),
         NEW to, \A x \in S : to.hdr[x].next = heap.hdr[x].next
  PROVE  Accounts(to, p, w, S, F)
<1>1. \A i \in Ids : p[i] # 0 => p[i] \in S
  BY DEF Accounts, Used
<1> QED BY <1>1 DEF Accounts

LEMMA MarkedKept ==
  ASSUME NEW S, NEW F, Sound(heap, S, F), NEW b \in S, NEW to, to.body = heap.body,
         \A x \in Blocks \ {b} : to.hdr[x] = heap.hdr[x],
         \A x \in S : to.hdr[x].next = heap.hdr[x].next,
         NEW c \in Used(S, F)
  PROVE  Kept(heap, to, c)
<1>1. Touched(heap, to, {b}, {})
  BY DEF Touched
<1>2. Same(heap, to, c, heap.hdr[c].next)
  <2>1. {b} \in SUBSET S /\ {} \in SUBSET (F \cup {0})
    OBVIOUS
  <2> QED BY <1>1, <2>1, ListsOnly
<1> QED BY <1>2 DEF Kept, Used

(* Everything the program has written is there.                            *)
AllWritten(m, p, w) == \A i \in Ids : p[i] # 0 => Written(m, p[i], i, 0, WordsIn(w[i]))

LEMMA AllWrittenKept ==
  ASSUME NEW m, NEW p, NEW w, NEW S, NEW F, Sound(m, S, F), Accounts(m, p, w, S, F),
         NEW i \in Ids, p[i] # 0, Written(m, p[i], i, 0, WordsIn(w[i])),
         NEW to, Kept(m, to, p[i])
  PROVE  Written(to, p[i], i, 0, WordsIn(w[i]))
<1>1. UmmBlocks(w[i]) \in Nat /\ WordsIn(w[i]) \in Nat /\ WordsIn(w[i]) <= 2 * UmmBlocks(w[i]) - 1
  <2>1. w[i] \in Nat \ {0}
    BY DEF Accounts
  <2> QED BY <2>1, BlocksHold
<1> SUFFICES ASSUME NEW x \in Nat, x < WordsIn(w[i])
             PROVE  Word(to, p[i], x) = [id |-> i, word |-> x]
  BY DEF Written
<1>2. x < 2 * UmmBlocks(w[i]) - 1
  BY <1>1
<1>3. Word(to, p[i], x) = Word(m, p[i], x)
  BY <1>2, WrittenKept
<1> QED BY <1>3 DEF Written

(* Where the walk is: what it has marked and what it has yet to unmark.    *)
FirstPass(S, F) ==
  LET M == Marks(heap, S) \cup {0}
  IN  /\ Marks(heap, S) \subseteq F /\ prev \in M
      /\ \A b \in M \ {prev} : heap.body[b].next \in M
Place(S, F) ==
  /\ pc = "idle" => Clean(heap.hdr, S)
  /\ pc \in {"free", "back", "mark", "marked"} => FirstPass(S, F)
  /\ pc \in {"back", "mark", "marked"} => cur = heap.body[prev].next /\ cur # 0
  /\ pc \in {"all", "flags", "unmark", "unmarked"} =>
       prev \in S /\ Marks(heap, S) = {b \in F : b > prev}
  /\ pc = "link" => prev \in S /\ Marks(heap, S) = {b \in F : b > cur}
  /\ pc \in {"flags", "unmark", "unmarked", "link"} =>
       prev # N - 1 /\ cur = heap.hdr[prev].next
  /\ pc \in {"marked", "unmarked"} => loaded = heap.hdr[cur].prev

WalkTypes ==
  /\ pc \in {"idle", "free", "back", "mark", "marked", "all", "flags", "unmark",
             "unmarked", "link"}
  /\ prev \in Blocks /\ cur \in Blocks /\ loaded \in Blocks
  /\ verdict \in BOOLEAN /\ met \in BOOLEAN /\ torn \in BOOLEAN
Alone(S, F) == verdict /\ AllWritten(heap, ptr, want) /\ Place(S, F)
WalkState(S, F) ==
  /\ Sound(heap, S, F) /\ Accounts(heap, ptr, want, S, F)
  /\ ~met => Alone(S, F)

(* What a torn list leaves standing: every pointer still has a header.     *)
Typed ==
  /\ TypeOK /\ heap.hdr \in Headers
  /\ \A i \in Ids : ptr[i] # 0 => heap.hdr[ptr[i]] \in Header

(* The inductive invariant of the heap under the check.                    *)
WalkInv ==
  /\ WalkTypes /\ Typed
  /\ ~met => ~torn
  /\ ~torn => \E S, F : WalkState(S, F)

StatesTyped == \A S, F : Sound(heap, S, F) /\ Accounts(heap, ptr, want, S, F) => Typed
LEMMA AllStatesTyped == StatesTyped
<1> SUFFICES ASSUME NEW S, NEW F, Sound(heap, S, F), Accounts(heap, ptr, want, S, F)
             PROVE  Typed
  BY DEF StatesTyped
<1>1. heap.hdr \in Headers /\ \A b \in S : heap.hdr[b] \in Header
  BY SoundHasTypes DEF SoundTypes
<1>2. \A i \in Ids : ptr[i] # 0 => ptr[i] \in S
  BY DEF Accounts, Used
<1> QED BY <1>1, <1>2, HeapTypes DEF Typed

(* A store of the check, even a late one, writes no half a program's       *)
(* pointer could not stand.                                                *)
LEMMA StoreTyped ==
  ASSUME Typed, WalkTypes, NEW bit \in BOOLEAN, heap' \in Marked(cur, bit),
         ptr' = ptr, want' = want
  PROVE  Typed'
<1>1. heap.hdr \in Headers /\ loaded \in Blocks /\ cur \in Blocks
  BY DEF Typed, WalkTypes
<1>2. PICK hdr, to : hdr = heap.hdr /\ to = heap'.hdr
  OBVIOUS
<1>3. /\ to \in Headers /\ heap'.body = heap.body
      /\ \A x \in Blocks \ {cur} : to[x] = hdr[x]
      /\ hdr[cur] \in Header => to[cur] \in Header /\ to[cur].next = hdr[cur].next
  BY <1>1, <1>2, MarkedTypes
<1>4. /\ DOMAIN heap.body = Blocks /\ \A b \in Blocks : heap.body[b] \in Links \/ heap.body[b] \in Data
      /\ \A b \in {0, N - 1} : hdr[b] \in Header
      /\ heap.body[0] \in Links
      /\ ptr \in [Ids -> 0 .. N - 2] /\ want \in [Ids -> Nat]
      /\ \A i \in Ids : ptr[i] # 0 => want[i] \in 1 .. 16 * BlockSize(heap, ptr[i]) - 8
      /\ \A i \in Ids : ptr[i] # 0 => hdr[ptr[i]] \in Header
  BY <1>2 DEF Typed, TypeOK
<1>5. 0 \in Blocks /\ N - 1 \in Blocks /\ \A i \in Ids : ptr[i] \in Blocks
  BY <1>4, HeapAssumption DEF Blocks
<1>6. \A b \in Blocks : hdr[b] \in Header => to[b] \in Header /\ to[b].next = hdr[b].next
  BY <1>3
<1>7. \A i \in Ids : ptr[i] # 0 => BlockSize(heap', ptr[i]) = BlockSize(heap, ptr[i])
  BY <1>2, <1>4, <1>5, <1>6 DEF BlockSize
<1>8. DOMAIN to = Blocks /\ \A b \in Blocks : to[b] \in Header \/ to[b] \in Data
  BY <1>3 DEF Headers
<1>9. TypeOK'
  BY <1>2, <1>3, <1>4, <1>5, <1>6, <1>7, <1>8 DEF TypeOK
<1> QED BY <1>2, <1>3, <1>4, <1>5, <1>6, <1>9 DEF Typed

(* Every step of the check keeps the types, torn or not.                   *)
LEMMA CheckTypes ==
  ASSUME Typed, WalkTypes, Check
  PROVE  WalkTypes' /\ Typed'
<1>1. /\ ptr' = ptr /\ want' = want /\ met' = met
      /\ 0 \in Blocks /\ met \in BOOLEAN /\ torn \in BOOLEAN
  BY HeapAssumption DEF Check, Blocks, WalkTypes
<1>2. ASSUME Start \/ NextFree \/ BackLink \/ NextBlock \/ Flags \/ BlockLink
      PROVE  WalkTypes' /\ Typed'
  <2>1. heap' = heap /\ loaded' = loaded /\ torn' = torn
    BY <1>2 DEF Start, NextFree, BackLink, NextBlock, Flags, BlockLink, StoresNothing
  <2>2. Typed'
    BY <1>1, <2>1 DEF Typed, TypeOK, BlockSize
  <2>3. /\ pc' \in {"idle", "free", "back", "mark", "all", "flags", "unmark", "link"}
        /\ prev' \in Blocks /\ cur' \in Blocks /\ verdict' \in BOOLEAN
    <3> USE DEF WalkTypes, Return, Advance
    <3>1. CASE Start
      BY <1>1, <3>1 DEF Start
    <3>2. CASE NextFree
      BY <1>1, <3>2 DEF NextFree
    <3>3. CASE BackLink
      BY <1>1, <3>3 DEF BackLink
    <3>4. CASE NextBlock
      BY <1>1, <3>4 DEF NextBlock
    <3>5. CASE Flags
      BY <1>1, <3>5 DEF Flags
    <3>6. CASE BlockLink
      BY <1>1, <3>6 DEF BlockLink
    <3> QED BY <1>2, <3>1, <3>2, <3>3, <3>4, <3>5, <3>6
  <2> QED BY <1>1, <2>1, <2>2, <2>3 DEF WalkTypes
<1>3. ASSUME LoadMark \/ LoadUnmark PROVE WalkTypes' /\ Typed'
  <2>1. /\ LoadBack /\ prev' = prev /\ cur' = cur /\ verdict' = verdict
        /\ pc' \in {"marked", "unmarked"}
    BY <1>3 DEF LoadMark, LoadUnmark
  <2>2. heap' = heap /\ torn' = torn
    BY <2>1 DEF LoadBack
  <2>3. loaded' \in Blocks
    <3>1. PICK h : h = heap.hdr[cur]
      OBVIOUS
    <3>2. h \in Header \/ h \in Data
      BY <3>1 DEF Typed, WalkTypes, Headers
    <3>3. h \in Header => h.prev \in Blocks
      BY DEF Header
    <3> QED BY <2>1, <3>1, <3>2, <3>3 DEF LoadBack
  <2>4. Typed'
    BY <1>1, <2>2 DEF Typed, TypeOK, BlockSize
  <2> QED BY <1>1, <2>1, <2>2, <2>3, <2>4 DEF WalkTypes
<1>4. ASSUME Mark \/ Unmark PROVE WalkTypes' /\ Typed'
  <2>1. PICK bit \in BOOLEAN : StoreBack(Marked(cur, bit))
    BY <1>4 DEF Mark, Unmark, TakeMark
  <2>2. /\ prev' \in {prev, cur} /\ cur' = cur /\ verdict' = verdict
        /\ pc' \in {"free", "link"}
    BY <1>4 DEF Mark, Unmark, Advance
  <2>3. heap' \in Marked(cur, bit) /\ loaded' = 0 /\ torn' \in BOOLEAN
    BY <1>1, <2>1 DEF StoreBack
  <2>4. Typed'
    BY <1>1, <2>3, StoreTyped
  <2> QED BY <1>1, <2>2, <2>3, <2>4 DEF WalkTypes
<1> QED BY <1>2, <1>3, <1>4 DEF Check

(* A step of the other tasks *)
LEMMA OthersStep ==
  ASSUME NEW S, NEW F, WalkState(S, F), WalkTypes, Others
  PROVE  WalkInv'
<1>1. /\ Sound(heap, S, F) /\ Accounts(heap, ptr, want, S, F)
      /\ pc' = pc /\ prev' = prev /\ cur' = cur /\ verdict' = verdict
      /\ loaded' = loaded /\ torn' = torn /\ ~torn
      /\ met' = (met \/ pc # "idle")
  BY DEF WalkState, Others, walk
<1>2. WalkTypes'
  BY <1>1 DEF WalkTypes
<1>3. PICK id \in Ids : Free(id) \/ \E size \in Sizes : Malloc(id, size)
  BY DEF Others
<1>4. /\ \E S2, F2 : Served(heap, ptr, want, S, F, heap', ptr', want', S2, F2, id)
      /\ \A i \in Ids \ {id} : ptr'[i] = ptr[i] /\ want'[i] = want[i]
      /\ ptr'[id] # 0 => Written(heap', ptr'[id], id, 0, WordsIn(want'[id]))
  <2>1. CASE Free(id)
    <3>1. /\ ptr[id] # 0 /\ heap' = UmmFree(heap, ptr[id])
          /\ ptr' = [ptr EXCEPT ![id] = 0] /\ want' = [want EXCEPT ![id] = 0]
      BY <2>1 DEF Free
    <3>2. ptr \in [Ids -> Nat] /\ want \in [Ids -> Nat]
      BY <1>1 DEF Accounts
    <3>3. \E S2, F2 : Served(heap, ptr, want, S, F, heap', ptr', want', S2, F2, id)
      BY <1>1, <3>1, FreeServed
    <3> QED BY <3>1, <3>2, <3>3
  <2>2. CASE \E size \in Sizes : Malloc(id, size)
    <3>1. PICK size \in Sizes : Malloc(id, size)
      BY <2>2
    <3>2. size \in Nat
      BY HeapAssumption
    <3> QED BY <1>1, <3>1, <3>2, MallocKeeps
  <2> QED BY <1>3, <2>1, <2>2
<1>5. PICK S2, F2 : Served(heap, ptr, want, S, F, heap', ptr', want', S2, F2, id)
  BY <1>4
<1>6. /\ Sound(heap', S2, F2) /\ Accounts(heap', ptr', want', S2, F2)
      /\ Tidy(heap, heap', S, F, S2, F2, ptr[id])
      /\ \A i \in Ids \ {id} : ptr[i] # 0 => Kept(heap, heap', ptr[i])
  BY <1>5 DEF Served
<1>7. ASSUME ~met' PROVE Alone(S2, F2)'
  <2>1. pc = "idle" /\ ~met
    BY <1>1, <1>7
  <2>2. verdict /\ AllWritten(heap, ptr, want) /\ Clean(heap.hdr, S)
    BY <2>1 DEF WalkState, Alone, Place
  <2>3. Clean(heap'.hdr, S2)
    BY <1>6, <2>2 DEF Tidy
  <2>4. Place(S2, F2)'
    BY <1>1, <2>1, <2>3 DEF Place
  <2>5. ASSUME NEW i \in Ids, ptr'[i] # 0 PROVE Written(heap', ptr'[i], i, 0, WordsIn(want'[i]))
    <3>1. CASE i = id
      BY <1>4, <2>5, <3>1
    <3>2. CASE i # id
      <4>1. ptr'[i] = ptr[i] /\ want'[i] = want[i] /\ Kept(heap, heap', ptr[i]) /\ ptr[i] # 0
        BY <1>4, <1>6, <2>5, <3>2
      <4>2. Written(heap, ptr[i], i, 0, WordsIn(want[i]))
        BY <2>2, <4>1 DEF AllWritten
      <4> QED BY <1>1, <4>1, <4>2, AllWrittenKept
    <3> QED BY <3>1, <3>2
  <2>6. AllWritten(heap', ptr', want')
    BY <2>5 DEF AllWritten
  <2> QED BY <1>1, <2>2, <2>4, <2>6 DEF Alone
<1>8. WalkState(S2, F2)'
  BY <1>6, <1>7 DEF WalkState
<1>9. Typed'
  <2>1. StatesTyped'
    BY AllStatesTyped, PTL
  <2> QED BY <1>6, <2>1 DEF StatesTyped
<1> QED BY <1>1, <1>2, <1>8, <1>9 DEF WalkInv

(* A step of the check that writes no mark                                 *)
LEMMA QuietStep ==
  ASSUME NEW S, NEW F, WalkState(S, F), ~torn, WalkTypes', Typed',
         UNCHANGED <<heap, ptr, want, met, torn>>, ~met => verdict' /\ Place(S, F)'
  PROVE  WalkInv'
<1>1. Sound(heap', S, F) /\ Accounts(heap', ptr', want', S, F)
  BY DEF WalkState
<1>2. ASSUME ~met' PROVE Alone(S, F)'
  <2>1. AllWritten(heap, ptr, want)
    BY <1>2 DEF WalkState, Alone
  <2>2. AllWritten(heap', ptr', want')
    BY <2>1
  <2> QED BY <1>2, <2>2 DEF Alone
<1>3. WalkState(S, F)'
  BY <1>1, <1>2 DEF WalkState
<1> QED BY <1>3 DEF WalkInv

(* The first pass reads links only, and ends when all that is free is      *)
(* marked.                                                                 *)
LEMMA FirstPassReads ==
  ASSUME NEW S, NEW F, Sound(heap, S, F), FirstPass(S, F), WalkTypes
  PROVE  LET n == heap.body[prev].next
         IN  /\ Link(heap.body[prev], "next") = {n} /\ n \in F \cup {0}
             /\ Link(heap.body[n], "prev") = {prev}
             /\ n = 0 => Marks(heap, S) = F
<1>1. SoundTypes(heap, S, F)
  BY SoundHasTypes
<1> DEFINE R == F \cup {0}  M == Marks(heap, S) \cup {0}  n == heap.body[prev].next
<1>2. /\ M \subseteq R /\ prev \in R /\ prev \in M /\ 0 \notin F /\ 0 \in M /\ Marks(heap, S) \subseteq F
      /\ \A b \in M \ {prev} : heap.body[b].next \in M
  BY <1>1 DEF FirstPass, SoundTypes
<1>3. /\ \A b \in R : heap.body[b] \in Links /\ heap.body[b] \notin Data
      /\ n \in R /\ heap.body[n].prev = prev
  BY <1>1, <1>2, KindsApart DEF SoundTypes, Linked
<1>4. Link(heap.body[prev], "next") = {n}
  BY <1>2, <1>3 DEF Link
<1>5. Link(heap.body[n], "prev") = {prev}
  <2>1. heap.body[n] \notin Data
    BY <1>3
  <2> QED BY <1>3, <2>1 DEF Link
<1>6. ASSUME n = 0 PROVE Marks(heap, S) = F
  <2>1. OneRing(heap.body, R)
    BY <1>1 DEF SoundTypes, Ring
  <2>2. \A b \in M : heap.body[b].next \in M
    BY <1>2, <1>6
  <2>3. M = R
    BY <1>2, <2>1, <2>2 DEF OneRing
  <2>4. 0 \notin Marks(heap, S)
    BY <1>2
  <2> QED BY <1>2, <2>3, <2>4
<1> QED BY <1>3, <1>4, <1>5, <1>6

(* The second pass reads headers only, and goes through the list in order. *)
LEMMA SecondPassReads ==
  ASSUME NEW S, NEW F, Sound(heap, S, F), prev \in S
  PROVE  LET n == heap.hdr[prev].next
         IN  /\ Link(heap.hdr[prev], "next") = {n}
             /\ prev = N - 1 => n = 0
             /\ prev # N - 1 =>
                  /\ n \in S /\ n # 0 /\ n > prev /\ n \notin {b \in S : b < n}
                  /\ \A b \in S : b > prev <=> b = n \/ b > n
                  /\ FreeBit(heap.hdr[n]) = {heap.hdr[n].free}
                  /\ MarkBit(heap.hdr[n]) = {heap.hdr[n].mark}
                  /\ Link(heap.hdr[n], "prev") = {prev}
<1>1. SoundTypes(heap, S, F)
  BY SoundHasTypes
<1> DEFINE n == heap.hdr[prev].next
<1>2. /\ \A b \in S : heap.hdr[b] \in Header /\ heap.hdr[b] \notin Data
      /\ S \subseteq Blocks /\ Chain(heap.hdr, S)
  BY <1>1, KindsApart DEF SoundTypes
<1>3. Link(heap.hdr[prev], "next") = {n}
  BY <1>2 DEF Link
<1>4. prev = N - 1 => n = 0
  BY <1>2 DEF Chain
<1>5. ASSUME prev # N - 1
      PROVE  /\ n \in S /\ n # 0 /\ n > prev /\ n \notin {b \in S : b < n}
             /\ \A b \in S : b > prev <=> b = n \/ b > n
             /\ FreeBit(heap.hdr[n]) = {heap.hdr[n].free}
             /\ MarkBit(heap.hdr[n]) = {heap.hdr[n].mark}
             /\ Link(heap.hdr[n], "prev") = {prev}
  <2>1. n \in S /\ n > prev /\ heap.hdr[n].prev = prev /\ \A b \in S : b <= prev \/ n <= b
    BY <1>2, <1>5 DEF Chain, Ahead
  <2>2. \A b \in S : b \in Nat
    BY <1>2, HeapAssumption DEF Blocks
  <2>3. \A b \in S : b > prev <=> b = n \/ b > n
    BY <2>1, <2>2
  <2>4. heap.hdr[n] \notin Data
    BY <1>2, <2>1
  <2>5. Link(heap.hdr[n], "prev") = {prev}
    BY <2>1, <2>4 DEF Link
  <2> QED BY <2>1, <2>2, <2>3, <2>4, <2>5 DEF FreeBit, MarkBit
<1> QED BY <1>3, <1>4, <1>5

(* Taking a mark and leaving one                                           *)
LEMMA MarkStep ==
  ASSUME NEW S, NEW F, WalkState(S, F), ~torn, WalkTypes, WalkTypes', Typed',
         NEW bit \in BOOLEAN, StoreBack(Marked(cur, bit)), UNCHANGED <<ptr, want, met>>,
         ~met => cur \in S /\ loaded = heap.hdr[cur].prev /\ verdict' /\ Place(S, F)'
  PROVE  WalkInv'
<1>1. /\ Sound(heap, S, F) /\ Accounts(heap, ptr, want, S, F)
      /\ cur \in Blocks /\ loaded \in Blocks
  BY DEF WalkState, WalkTypes
<1>2. /\ heap' \in Marked(cur, bit) /\ Starts = S
      /\ torn' = (torn \/ (cur \in Starts /\ heap'.hdr[cur].prev # heap.hdr[cur].prev))
  BY <1>1, SoundLists DEF StoreBack
<1>3. ~met' => ~torn'
  <2>1. heap.hdr \in Headers /\ \A b \in S : heap.hdr[b] \in Header
    BY <1>1, SoundHasTypes DEF SoundTypes
  <2>2. heap.hdr[cur] \in Header => heap'.hdr[cur].prev = loaded
    BY <1>1, <1>2, <2>1, MarkedTypes
  <2> QED BY <1>2, <2>1, <2>2
<1>4. ASSUME ~torn' PROVE WalkState(S, F)'
  <2>1. cur \in S => heap'.hdr[cur].prev = heap.hdr[cur].prev
    BY <1>2, <1>4
  <2>2. /\ Sound(heap', S, F) /\ heap'.body = heap.body
        /\ \A x \in S : heap'.hdr[x].next = heap.hdr[x].next
        /\ cur \in S => \A x \in Blocks \ {cur} : heap'.hdr[x] = heap.hdr[x]
    BY <1>1, <1>2, <2>1, MarkedSound
  <2>3. Accounts(heap', ptr', want', S, F)
    BY <1>1, <2>2, MarkedAccounts
  <2>4. ASSUME ~met' PROVE Alone(S, F)'
    <3>1. AllWritten(heap, ptr, want) /\ cur \in S
      BY <2>4 DEF WalkState, Alone
    <3>2. ASSUME NEW i \in Ids, ptr[i] # 0 PROVE Written(heap', ptr[i], i, 0, WordsIn(want[i]))
      <4>1. ptr[i] \in Used(S, F)
        BY <1>1, <3>2 DEF Accounts
      <4>2. Kept(heap, heap', ptr[i])
        BY <1>1, <2>2, <3>1, <4>1, MarkedKept
      <4>3. Written(heap, ptr[i], i, 0, WordsIn(want[i]))
        BY <3>1, <3>2 DEF AllWritten
      <4> QED BY <1>1, <3>2, <4>2, <4>3, AllWrittenKept
    <3>3. AllWritten(heap', ptr', want')
      BY <3>2 DEF AllWritten
    <3> QED BY <2>4, <3>3 DEF Alone
  <2> QED BY <2>2, <2>3, <2>4 DEF WalkState
<1> QED BY <1>3, <1>4 DEF WalkInv

LEMMA LoadsLink ==
  ASSUME NEW S, NEW F, Sound(heap, S, F), cur \in S, LoadBack
  PROVE  loaded' = heap.hdr[cur].prev
<1>1. heap.hdr[cur] \notin Data
  <2>1. SoundTypes(heap, S, F)
    BY SoundHasTypes
  <2> QED BY <2>1, KindsApart DEF SoundTypes
<1> QED BY <1>1 DEF LoadBack

LEMMA FirstPassStep ==
  ASSUME NEW S, NEW F, WalkState(S, F), ~torn, WalkTypes, WalkTypes', Typed',
         Start \/ NextFree \/ BackLink \/ LoadMark \/ Mark, UNCHANGED <<ptr, want, met>>
  PROVE  WalkInv'
<1>1. /\ Sound(heap, S, F) /\ 0 \in Blocks
      /\ ~met => verdict /\ Place(S, F)
  BY HeapAssumption DEF WalkState, Alone, Blocks
<1>2. F \subseteq S /\ S \subseteq Blocks /\ 0 \in S /\ 0 \notin F /\ \A b \in F : b > 0
  <2>1. F \subseteq S /\ S \subseteq Blocks /\ 0 \in S /\ 0 \notin F
    BY <1>1, SoundHasTypes DEF SoundTypes, Chain
  <2> QED BY <2>1, HeapAssumption DEF Blocks
<1>3. CASE Start
  <2>1. heap' = heap /\ torn' = torn /\ pc = "idle" /\ pc' = "free" /\ prev' = 0 /\ verdict' = verdict /\ cur' = cur
    BY <1>3 DEF Start, StoresNothing
  <2>3. ASSUME ~met PROVE verdict' /\ Place(S, F)'
    <3>1. Marks(heap, S) = {}
      BY <1>1, <2>1, <2>3 DEF Place, Clean, Marks
    <3>2. FirstPass(S, F)'
      BY <2>1, <3>1 DEF FirstPass
    <3> QED BY <1>1, <2>1, <2>3, <3>2 DEF Place
  <2> QED BY <2>1, <2>3, QuietStep
<1>4. CASE NextFree
  <2>1. heap' = heap /\ torn' = torn /\ pc = "free"
    BY <1>4 DEF NextFree, Return, StoresNothing
  <2>3. ASSUME ~met PROVE verdict' /\ Place(S, F)'
    <3>1. FirstPass(S, F)
      BY <1>1, <2>1, <2>3 DEF Place
    <3>2. PICK n : n = heap.body[prev].next
      OBVIOUS
    <3>3. /\ Link(heap.body[prev], "next") = {n} /\ n \in F \cup {0}
          /\ n = 0 => Marks(heap, S) = F
      BY <1>1, <3>1, <3>2, FirstPassReads
    <3>4. n # TooLarge
      BY <1>2, <3>3, HeapAssumption DEF Blocks, TooLarge
    <3>5. CASE n = 0
      <4>1. pc' = "all" /\ prev' = 0 /\ cur' = cur /\ verdict' = verdict
        BY <1>4, <3>3, <3>4, <3>5 DEF NextFree
      <4>2. Marks(heap, S) = {b \in F : b > 0}
        BY <1>2, <3>3, <3>5
      <4> QED BY <1>1, <1>2, <2>1, <2>3, <4>1, <4>2 DEF Place
    <3>6. CASE n # 0
      <4>1. pc' = "back" /\ cur' = n /\ prev' = prev /\ verdict' = verdict
        BY <1>4, <3>3, <3>4, <3>6 DEF NextFree
      <4>2. FirstPass(S, F)'
        BY <2>1, <3>1, <4>1 DEF FirstPass
      <4> QED BY <1>1, <2>1, <2>3, <3>2, <3>6, <4>1, <4>2 DEF Place
    <3> QED BY <3>5, <3>6
  <2> QED BY <2>1, <2>3, QuietStep
<1>5. CASE BackLink
  <2>1. heap' = heap /\ torn' = torn /\ pc = "back"
    BY <1>5 DEF BackLink, StoresNothing
  <2>3. ASSUME ~met PROVE verdict' /\ Place(S, F)'
    <3>1. FirstPass(S, F) /\ cur = heap.body[prev].next /\ cur # 0
      BY <1>1, <2>1, <2>3 DEF Place
    <3>2. Link(heap.body[cur], "prev") = {prev}
      BY <1>1, <3>1, FirstPassReads
    <3>3. pc' = "mark" /\ UNCHANGED <<prev, cur, verdict>>
      BY <1>5, <3>2 DEF BackLink
    <3>4. FirstPass(S, F)'
      BY <2>1, <3>1, <3>3 DEF FirstPass
    <3> QED BY <1>1, <2>1, <2>3, <3>1, <3>3, <3>4 DEF Place
  <2> QED BY <2>1, <2>3, QuietStep
<1>7. CASE LoadMark
  <2>1. /\ heap' = heap /\ torn' = torn /\ pc = "mark" /\ pc' = "marked"
        /\ prev' = prev /\ cur' = cur /\ verdict' = verdict
    BY <1>7 DEF LoadMark, LoadBack
  <2>3. ASSUME ~met PROVE verdict' /\ Place(S, F)'
    <3>1. FirstPass(S, F) /\ cur = heap.body[prev].next /\ cur # 0
      BY <1>1, <2>1, <2>3 DEF Place
    <3>2. cur \in S
      BY <1>1, <1>2, <3>1, FirstPassReads
    <3>3. loaded' = heap.hdr[cur].prev
      BY <1>1, <1>7, <3>2, LoadsLink DEF LoadMark
    <3>4. FirstPass(S, F)'
      BY <2>1, <3>1 DEF FirstPass
    <3> QED BY <1>1, <2>1, <2>3, <3>1, <3>3, <3>4 DEF Place
  <2> QED BY <2>1, <2>3, QuietStep
<1>6. CASE Mark
  <2>1. /\ StoreBack(Marked(cur, TRUE)) /\ pc = "marked"
        /\ pc' = "free" /\ prev' = cur /\ cur' = cur /\ verdict' = verdict
    BY <1>6 DEF Mark, Advance
  <2>2. PICK bit \in BOOLEAN : bit = TRUE
    OBVIOUS
  <2>3. bit /\ StoreBack(Marked(cur, bit)) /\ heap' \in Marked(cur, bit)
    BY <2>1, <2>2 DEF StoreBack
  <2>5. ASSUME ~met
        PROVE  cur \in S /\ loaded = heap.hdr[cur].prev /\ verdict' /\ Place(S, F)'
    <3>1. /\ FirstPass(S, F) /\ cur = heap.body[prev].next /\ cur # 0
          /\ loaded = heap.hdr[cur].prev
      BY <1>1, <2>1, <2>5 DEF Place
    <3>2. cur \in F /\ cur \in S /\ cur \in Blocks
      BY <1>1, <1>2, <3>1, FirstPassReads
    <3>3. /\ heap'.body = heap.body /\ \A x \in Blocks \ {cur} : heap'.hdr[x] = heap.hdr[x]
          /\ heap'.hdr[cur].mark = bit
      <4>1. /\ Sound(heap, S, F) /\ cur \in S /\ cur \in Blocks /\ heap' \in Marked(cur, bit)
            /\ loaded \in Blocks /\ heap.hdr \in Headers /\ heap.hdr[cur] \in Header
        BY <1>1, <2>3, <3>2, SoundHasTypes DEF SoundTypes, WalkTypes
      <4>2. heap'.hdr[cur].prev = heap.hdr[cur].prev
        BY <3>1, <4>1, MarkedTypes
      <4> QED BY <4>1, <4>2, MarkedSound
    <3>4. Marks(heap', S) = Marks(heap, S) \cup {cur}
      BY <1>2, <2>3, <3>2, <3>3 DEF Marks
    <3>5. FirstPass(S, F)'
      <4> DEFINE M == Marks(heap, S) \cup {0}  M2 == Marks(heap', S) \cup {0}
      <4>1. /\ Marks(heap, S) \subseteq F /\ prev \in M
            /\ \A b \in M \ {prev} : heap.body[b].next \in M
        BY <3>1 DEF FirstPass
      <4>2. M2 = M \cup {cur}
        BY <3>4
      <4>3. Marks(heap', S) \subseteq F /\ cur \in M2
        BY <3>2, <3>4, <4>1
      <4>4. \A b \in M2 \ {cur} : heap'.body[b].next \in M2
        BY <3>1, <3>3, <4>1, <4>2
      <4> QED BY <2>1, <4>3, <4>4 DEF FirstPass
    <3> QED BY <1>1, <2>1, <2>5, <3>2, <3>5 DEF Place
  <2> QED BY <2>3, <2>5, MarkStep
<1> QED BY <1>3, <1>4, <1>5, <1>6, <1>7

LEMMA SecondPassStep ==
  ASSUME NEW S, NEW F, WalkState(S, F), ~torn, WalkTypes, WalkTypes', Typed',
         NextBlock \/ Flags \/ LoadUnmark \/ Unmark \/ BlockLink,
         UNCHANGED <<ptr, want, met>>
  PROVE  WalkInv'
<1>1. /\ Sound(heap, S, F) /\ 0 \in Blocks
      /\ ~met => verdict /\ Place(S, F)
  BY HeapAssumption DEF WalkState, Alone, Blocks
<1>2. /\ F \subseteq S /\ S \subseteq Blocks
      /\ \A b \in S : heap.hdr[b].free <=> b \in F
      /\ \A b \in S : heap.hdr[b] \in Header
  BY <1>1, SoundHasTypes DEF SoundTypes
<1>3. CASE NextBlock
  <2>1. heap' = heap /\ torn' = torn /\ pc = "all"
    BY <1>3 DEF NextBlock, Return, StoresNothing
  <2>3. ASSUME ~met PROVE verdict' /\ Place(S, F)'
    <3>1. prev \in S /\ Marks(heap, S) = {b \in F : b > prev}
      BY <1>1, <2>1, <2>3 DEF Place
    <3>2. PICK n : n = heap.hdr[prev].next
      OBVIOUS
    <3>3. /\ Link(heap.hdr[prev], "next") = {n}
          /\ prev = N - 1 => n = 0
          /\ prev # N - 1 => n \in S /\ n # 0
      BY <1>1, <3>1, <3>2, SecondPassReads
    <3>4. n # TooLarge
      BY <1>2, <3>3, HeapAssumption DEF Blocks, TooLarge
    <3>5. CASE n = 0
      <4>1. pc' = "idle" /\ verdict'
        BY <1>3, <3>3, <3>4, <3>5 DEF NextBlock, Return
      <4>2. \A b \in S : b \notin Marks(heap, S)
        <5>1. \A b \in S : ~(b > N - 1)
          BY <1>2, HeapAssumption DEF Blocks
        <5>2. prev = N - 1
          BY <3>3, <3>5
        <5> QED BY <3>1, <5>1, <5>2
      <4>3. Clean(heap'.hdr, S)
        BY <2>1, <4>2 DEF Clean, Marks
      <4> QED BY <4>1, <4>3 DEF Place
    <3>6. CASE n # 0
      <4>1. pc' = "flags" /\ cur' = n /\ prev' = prev /\ verdict' = verdict /\ prev # N - 1
        BY <1>3, <3>3, <3>4, <3>6 DEF NextBlock, Return
      <4> QED BY <1>1, <2>1, <2>3, <3>1, <3>2, <4>1 DEF Place
    <3> QED BY <3>5, <3>6
  <2> QED BY <2>1, <2>3, QuietStep
<1>4. CASE Flags
  <2>1. heap' = heap /\ torn' = torn /\ pc = "flags"
    BY <1>4 DEF Flags, StoresNothing
  <2>3. ASSUME ~met PROVE verdict' /\ Place(S, F)'
    <3>1. /\ prev \in S /\ Marks(heap, S) = {b \in F : b > prev}
          /\ prev # N - 1 /\ cur = heap.hdr[prev].next
      BY <1>1, <2>1, <2>3 DEF Place
    <3>2. /\ cur \in S /\ cur > prev
          /\ FreeBit(heap.hdr[cur]) = {heap.hdr[cur].free}
          /\ MarkBit(heap.hdr[cur]) = {heap.hdr[cur].mark}
      BY <1>1, <3>1, SecondPassReads
    <3>3. heap.hdr[cur].free <=> heap.hdr[cur].mark
      BY <1>2, <3>1, <3>2 DEF Marks
    <3>4. heap.hdr[cur].free = heap.hdr[cur].mark
      BY <1>2, <3>2, <3>3 DEF Header
    <3>5. ~(cur <= prev)
      BY <1>2, <3>1, <3>2, HeapAssumption DEF Blocks
    <3>6. pc' = "unmark" /\ UNCHANGED <<prev, cur, verdict>>
      BY <1>4, <3>2, <3>4, <3>5 DEF Flags
    <3> QED BY <1>1, <2>1, <2>3, <3>1, <3>6 DEF Place
  <2> QED BY <2>1, <2>3, QuietStep
<1>7. CASE LoadUnmark
  <2>1. /\ heap' = heap /\ torn' = torn /\ pc = "unmark" /\ pc' = "unmarked"
        /\ prev' = prev /\ cur' = cur /\ verdict' = verdict
    BY <1>7 DEF LoadUnmark, LoadBack
  <2>3. ASSUME ~met PROVE verdict' /\ Place(S, F)'
    <3>1. /\ prev \in S /\ Marks(heap, S) = {b \in F : b > prev}
          /\ prev # N - 1 /\ cur = heap.hdr[prev].next
      BY <1>1, <2>1, <2>3 DEF Place
    <3>2. cur \in S
      BY <1>1, <3>1, SecondPassReads
    <3>3. loaded' = heap.hdr[cur].prev
      BY <1>1, <1>7, <3>2, LoadsLink DEF LoadUnmark
    <3> QED BY <1>1, <2>1, <2>3, <3>1, <3>3 DEF Place
  <2> QED BY <2>1, <2>3, QuietStep
<1>5. CASE Unmark
  <2>1. /\ StoreBack(Marked(cur, FALSE)) /\ pc = "unmarked"
        /\ pc' = "link" /\ prev' = prev /\ cur' = cur /\ verdict' = verdict
    BY <1>5 DEF Unmark, TakeMark
  <2>2. PICK bit \in BOOLEAN : bit = FALSE
    OBVIOUS
  <2>3. ~bit /\ StoreBack(Marked(cur, bit)) /\ heap' \in Marked(cur, bit)
    BY <2>1, <2>2 DEF StoreBack
  <2>5. ASSUME ~met
        PROVE  cur \in S /\ loaded = heap.hdr[cur].prev /\ verdict' /\ Place(S, F)'
    <3>1. /\ prev \in S /\ Marks(heap, S) = {b \in F : b > prev}
          /\ prev # N - 1 /\ cur = heap.hdr[prev].next /\ loaded = heap.hdr[cur].prev
      BY <1>1, <2>1, <2>5 DEF Place
    <3>2. /\ cur \in S /\ cur \in Blocks /\ \A b \in S : b > prev <=> b = cur \/ b > cur
      BY <1>1, <1>2, <3>1, SecondPassReads
    <3>3. /\ \A x \in Blocks \ {cur} : heap'.hdr[x] = heap.hdr[x]
          /\ heap'.hdr[cur].mark = bit
          /\ \A x \in S : heap'.hdr[x].next = heap.hdr[x].next
      <4>1. /\ Sound(heap, S, F) /\ cur \in S /\ cur \in Blocks /\ heap' \in Marked(cur, bit)
            /\ loaded \in Blocks /\ heap.hdr \in Headers /\ heap.hdr[cur] \in Header
        BY <1>1, <2>3, <3>2, SoundHasTypes DEF SoundTypes, WalkTypes
      <4>2. heap'.hdr[cur].prev = heap.hdr[cur].prev
        BY <3>1, <4>1, MarkedTypes
      <4> QED BY <4>1, <4>2, MarkedSound
    <3>4. Marks(heap', S) = Marks(heap, S) \ {cur}
      BY <1>2, <2>3, <3>2, <3>3 DEF Marks
    <3>5. Marks(heap', S) = {b \in F : b > cur}
      <4>1. ~(cur > cur)
        BY <1>2, <3>2, HeapAssumption DEF Blocks
      <4> QED BY <1>2, <3>1, <3>2, <3>4, <4>1
    <3> QED BY <1>1, <2>1, <2>5, <3>1, <3>2, <3>3, <3>5 DEF Place
  <2> QED BY <2>3, <2>5, MarkStep
<1>6. CASE BlockLink
  <2>1. heap' = heap /\ torn' = torn /\ pc = "link"
    BY <1>6 DEF BlockLink, Return, StoresNothing
  <2>3. ASSUME ~met PROVE verdict' /\ Place(S, F)'
    <3>1. /\ prev \in S /\ Marks(heap, S) = {b \in F : b > cur}
          /\ prev # N - 1 /\ cur = heap.hdr[prev].next
      BY <1>1, <2>1, <2>3 DEF Place
    <3>2. /\ cur \in S
          /\ Link(heap.hdr[cur], "prev") = {prev}
          /\ MarkBit(heap.hdr[cur]) = {heap.hdr[cur].mark}
      BY <1>1, <3>1, SecondPassReads
    <3>3. ~heap.hdr[cur].mark
      <4>1. ~(cur > cur)
        BY <1>2, <3>2, HeapAssumption DEF Blocks
      <4> QED BY <3>1, <3>2, <4>1 DEF Marks
    <3>4. pc' = "all" /\ prev' = cur /\ cur' = cur /\ verdict' = verdict
      BY <1>6, <3>2, <3>3 DEF BlockLink, Advance
    <3> QED BY <1>1, <2>1, <2>3, <3>1, <3>2, <3>4 DEF Place
  <2> QED BY <2>1, <2>3, QuietStep
<1> QED BY <1>3, <1>4, <1>5, <1>6, <1>7

LEMMA WalkInvHolds == SpecWalk => []WalkInv
<1>1. InitWalk => WalkInv
  <2> SUFFICES ASSUME InitWalk PROVE WalkInv
    OBVIOUS
  <2> DEFINE S == {0, 1, N - 1}  F == {1}
  <2>1. Sound(heap, S, F) /\ Clean(heap.hdr, S) /\ Accounts(heap, ptr, want, S, F)
    BY SoundAtFirst DEF InitWalk
  <2> HIDE DEF S, F
  <2>2. /\ ptr = [i \in Ids |-> 0] /\ pc = "idle" /\ prev = 0 /\ cur = 0 /\ loaded = 0
        /\ verdict = TRUE /\ met = FALSE /\ torn = FALSE
    BY DEF InitWalk, Init
  <2>3. WalkTypes
    <3>1. 0 \in Blocks
      BY HeapAssumption DEF Blocks
    <3>2. verdict \in BOOLEAN /\ met \in BOOLEAN /\ torn \in BOOLEAN
      BY <2>2, Zenon
    <3>3. pc \in {"idle", "free", "back", "mark", "marked", "all", "flags", "unmark",
                  "unmarked", "link"}
      BY <2>2
    <3> QED BY <2>2, <3>1, <3>2, <3>3, Zenon DEF WalkTypes
  <2>4. AllWritten(heap, ptr, want) /\ Place(S, F)
    BY <2>1, <2>2 DEF AllWritten, Place
  <2>5. WalkState(S, F)
    BY <2>1, <2>2, <2>4 DEF WalkState, Alone
  <2>6. Typed
    BY <2>1, AllStatesTyped DEF StatesTyped
  <2> QED BY <2>2, <2>3, <2>5, <2>6 DEF WalkInv
<1>2. WalkInv /\ [NextWalk]_wvars => WalkInv'
  <2> SUFFICES ASSUME WalkInv, [NextWalk]_wvars PROVE WalkInv'
    OBVIOUS
  <2>1. WalkTypes /\ Typed /\ (~met => ~torn) /\ (~torn => \E S, F : WalkState(S, F))
    BY DEF WalkInv
  <2>2. CASE Check
    <3>1. UNCHANGED <<ptr, want, met>>
      BY <2>2 DEF Check
    <3>2. WalkTypes' /\ Typed'
      BY <2>1, <2>2, CheckTypes
    <3>3. CASE torn
      <4>1. torn' /\ met
        BY <2>1, <2>2, <3>3
        DEF Check, Start, NextFree, BackLink, LoadMark, Mark, NextBlock, Flags, LoadUnmark,
            Unmark, BlockLink, StoresNothing, LoadBack, StoreBack
      <4> QED BY <3>1, <3>2, <4>1 DEF WalkInv
    <3>4. CASE ~torn
      <4>1. PICK S, F : WalkState(S, F)
        BY <2>1, <3>4
      <4>2. CASE Start \/ NextFree \/ BackLink \/ LoadMark \/ Mark
        BY <2>1, <3>1, <3>2, <3>4, <4>1, <4>2, FirstPassStep
      <4>3. CASE NextBlock \/ Flags \/ LoadUnmark \/ Unmark \/ BlockLink
        BY <2>1, <3>1, <3>2, <3>4, <4>1, <4>3, SecondPassStep
      <4> QED BY <2>2, <4>2, <4>3 DEF Check
    <3> QED BY <3>3, <3>4
  <2>3. CASE Others
    <3>1. PICK S, F : WalkState(S, F)
      BY <2>1, <2>3 DEF Others
    <3> QED BY <2>1, <2>3, <3>1, OthersStep
  <2>4. CASE UNCHANGED wvars
    <3>1. /\ heap' = heap /\ ptr' = ptr /\ want' = want /\ met' = met
          /\ pc' = pc /\ prev' = prev /\ cur' = cur /\ verdict' = verdict
          /\ loaded' = loaded /\ torn' = torn
      BY <2>4 DEF wvars, walk
    <3>2. WalkTypes' /\ Typed'
      BY <2>1, <3>1 DEF WalkTypes, Typed, TypeOK, BlockSize
    <3>3. \A S, F : WalkState(S, F) => WalkState(S, F)'
      BY <3>1 DEF WalkState, Alone, Place, FirstPass
    <3> QED BY <2>1, <3>1, <3>2, <3>3 DEF WalkInv
  <2> QED BY <2>2, <2>3, <2>4 DEF NextWalk
<1> QED BY <1>1, <1>2, PTL DEF SpecWalk

(* The types of the heap and of the check's local variables, torn lists    *)
(* included: the check never follows a link out of the heap, and what its  *)
(* late stores write into a half block leaves it a header or data.         *)
THEOREM WalkTypesAlways == SpecWalk => []WalkTypeOK
<1>1. WalkInv => WalkTypeOK
  BY DEF WalkInv, Typed, WalkTypes, WalkTypeOK
<1> QED BY <1>1, WalkInvHolds, PTL

(* A check leaves both lists and the accounts as they should be, though    *)
(* other tasks use the heap between its steps and between the load and the *)
(* store of a mark, whatever it makes of what it reads then, until a store *)
(* puts a number back that is no longer the block's.                       *)
THEOREM HeapSurvivesAlways == SpecWalk => []HeapSurvives
<1>1. WalkInv => HeapSurvives
  <2> SUFFICES ASSUME WalkInv, ~torn
               PROVE  /\ FreeListSound /\ NothingLost
                      /\ \A b \in Starts \ {N - 1} : heap.hdr[heap.hdr[b].next].prev = b
    BY DEF HeapSurvives
  <2>1. PICK S, F : WalkState(S, F)
    BY DEF WalkInv
  <2>2. Sound(heap, S, F) /\ Accounts(heap, ptr, want, S, F)
    BY <2>1 DEF WalkState
  <2>3. Starts = S /\ FreeListSound /\ NothingLost
    BY <2>2, SoundLists, AccountsTell
  <2>4. \A b \in S \ {N - 1} : heap.hdr[heap.hdr[b].next].prev = b
    BY <2>2, SoundHasTypes DEF SoundTypes, Chain, Ahead
  <2> QED BY <2>3, <2>4
<1> QED BY <1>1, WalkInvHolds, PTL

(* A check no other task has met reports a sound heap as sound and leaves  *)
(* no mark, no link and no word of the program changed.                    *)
THEOREM LoneCheckSoundAlways == SpecWalk => []LoneCheckSound
<1>1. WalkInv => LoneCheckSound
  <2> SUFFICES ASSUME WalkInv, ~met PROVE LoneCheckSound
    BY DEF LoneCheckSound, NoFalseAlarm, LeavesNoTrace
  <2>4. PICK S, F : WalkState(S, F)
    BY DEF WalkInv
  <2>1. Sound(heap, S, F) /\ Accounts(heap, ptr, want, S, F) /\ Alone(S, F)
    BY <2>4 DEF WalkState
  <2>2. NoFalseAlarm
    BY <2>1 DEF NoFalseAlarm, Alone
  <2>3. ASSUME pc = "idle", ~met PROVE BlockListSound /\ FreeListSound /\ DataIntact
    <3>1. Clean(heap.hdr, S) /\ AllWritten(heap, ptr, want)
      BY <2>1, <2>3 DEF Alone, Place
    <3>2. BlockListSound /\ FreeListSound
      BY <2>1, <3>1, SoundLists
    <3>3. ASSUME NEW i \in Ids, ptr[i] # 0, NEW x \in 0 .. WordsIn(want[i]) - 1
          PROVE  Word(heap, ptr[i], x) = [id |-> i, word |-> x]
      <4>1. want[i] \in Nat \ {0}
        BY <2>1, <3>3 DEF Accounts
      <4>2. WordsIn(want[i]) \in Nat
        BY <4>1, BlocksHold
      <4>3. x \in Nat /\ 0 <= x /\ x < WordsIn(want[i])
        BY <4>2
      <4>4. Written(heap, ptr[i], i, 0, WordsIn(want[i]))
        BY <3>1, <3>3 DEF AllWritten
      <4> QED BY <4>3, <4>4 DEF Written
    <3> QED BY <3>2, <3>3 DEF DataIntact
  <2> QED BY <2>2, <2>3 DEF LoneCheckSound, LeavesNoTrace
<1> QED BY <1>1, WalkInvHolds, PTL

-----------------------------------------------------------------------------
(* The heap implements the abstract allocator.  First, what is not the     *)
(* program's is the free blocks'.                                          *)
Room(m, R) == UNION {Region(m, f) : f \in R}

(* Every block but the last is in the memory of one that starts at S.      *)
LEMMA Covered ==
  ASSUME NEW hdr, NEW S, Chain(hdr, S), NEW x \in 0 .. N - 2
  PROVE  \E b \in S \ {N - 1} : x \in b .. hdr[b].next - 1
<1> DEFINE In == {k \in Nat : k <= N - 2 => \E b \in S \ {N - 1} : k \in b .. hdr[b].next - 1}
<1>1. N \in Int /\ N > 2 /\ 0 \in S /\ N - 1 \in S
  BY HeapAssumption DEF Chain
<1>2. \A b \in S : b \in 0 .. N - 1 /\ b \in Int
  BY <1>1 DEF Chain, Blocks
<1>3. ASSUME NEW b \in S \ {N - 1}
      PROVE  hdr[b].next \in S /\ hdr[b].next \in Int /\ hdr[b].next > b /\ b \in Int
  BY <1>2 DEF Chain, Ahead
<1>4. 0 \in In
  BY <1>1, <1>3
<1>5. ASSUME NEW k \in Nat, k \in In PROVE k + 1 \in In
  <2> SUFFICES ASSUME k + 1 <= N - 2
               PROVE  \E b \in S \ {N - 1} : k + 1 \in b .. hdr[b].next - 1
    OBVIOUS
  <2>1. PICK b \in S \ {N - 1} : k \in b .. hdr[b].next - 1
    BY <1>1, <1>5
  <2>2. PICK e : e = hdr[b].next
    OBVIOUS
  <2>3. e \in S /\ e \in Int /\ b \in Int /\ b <= k /\ k < e
    BY <1>3, <2>1, <2>2
  <2>4. CASE k + 1 < e
    <3>1. k + 1 \in b .. hdr[b].next - 1
      BY <2>2, <2>3, <2>4
    <3> QED BY <3>1
  <2>5. CASE ~(k + 1 < e)
    <3>1. k + 1 = e /\ e \in S \ {N - 1}
      BY <1>1, <2>3, <2>5
    <3>2. k + 1 \in e .. hdr[e].next - 1
      BY <1>3, <3>1
    <3> QED BY <3>1, <3>2
  <2> QED BY <2>4, <2>5
<1>6. Nat \subseteq In
  <2> HIDE DEF In
  <2> QED BY <1>4, <1>5, Upwards
<1> QED BY <1>1, <1>6

(* What is not the program's, but for C's.                                 *)
Rest(m, S, F, C) == (1 .. N - 2) \ Room(m, Used(S, F) \ C)
LEMMA Unused ==
  ASSUME NEW m, NEW S, NEW F, Sound(m, S, F), NEW C \in SUBSET Used(S, F)
  PROVE  Rest(m, S, F, C) = Room(m, F \cup C)
<1>1. SoundTypes(m, S, F)
  BY SoundHasTypes
<1>2. /\ Chain(m.hdr, S) /\ F \subseteq S \ {0, N - 1} /\ 1 \in S /\ 0 \in S
      /\ \A b \in S : b \in 0 .. N - 1 /\ b \in Int
      /\ N \in Int /\ N > 2
  BY <1>1, HeapAssumption DEF SoundTypes, Chain, Blocks
<1>3. F \cup C \subseteq S \ {0, N - 1} /\ Used(S, F) \subseteq S \ {0, N - 1}
  BY <1>2 DEF Used
<1>4. ASSUME NEW b \in S \ {N - 1}
      PROVE  m.hdr[b].next \in Int /\ m.hdr[b].next <= N - 1 /\ b \in Int
  BY <1>2 DEF Chain, Ahead
<1>5. ASSUME NEW x \in 1 .. N - 2, x \notin Room(m, Used(S, F) \ C)
      PROVE  x \in Room(m, F \cup C)
  <2>1. x \in 0 .. N - 2
    BY <1>2
  <2>2. PICK b \in S \ {N - 1} : x \in b .. m.hdr[b].next - 1
    BY <1>2, <2>1, Covered
  <2>3. b # 0
    <3>1. m.hdr[0].next <= 1
      BY <1>2 DEF Chain, Ahead
    <3>2. m.hdr[0].next \in Int
      BY <1>2, <1>4
    <3> QED BY <2>2, <3>1, <3>2
  <2>4. b \in F \cup C
    BY <1>5, <2>2, <2>3 DEF Room, Region, Used
  <2> QED BY <2>2, <2>4 DEF Room, Region
<1>6. ASSUME NEW x \in Room(m, F \cup C)
      PROVE  x \in 1 .. N - 2 /\ x \notin Room(m, Used(S, F) \ C)
  <2>1. PICK f \in F \cup C : x \in f .. m.hdr[f].next - 1
    BY DEF Room, Region
  <2>2. f \in S \ {0, N - 1}
    BY <1>3
  <2>3. x \in 1 .. N - 2
    BY <1>2, <1>4, <2>1, <2>2
  <2>4. ASSUME NEW u \in Used(S, F) \ C PROVE x \notin u .. m.hdr[u].next - 1
    <3>1. u \in S \ {0, N - 1} /\ u # f
      BY <1>3 DEF Used
    <3> QED BY <1>2, <2>1, <2>2, <3>1, RegionsApart
  <2> QED BY <2>3, <2>4 DEF Room, Region
<1> QED BY <1>5, <1>6 DEF Rest

(* Where free blocks are merged, the memory of R's is walled in.           *)
Walled(m, R) ==
  \A f \in R : /\ f \in Int /\ m.hdr[f].next \in Int /\ m.hdr[f].next > f
               /\ m.hdr[f].next \notin Room(m, R) /\ f - 1 \notin Room(m, R)

(* A block of the list is in the memory of no block but its own.           *)
LEMMA StartsApart ==
  ASSUME NEW m, NEW S, NEW F, Sound(m, S, F), NEW b \in S, NEW f \in S \ {N - 1},
         b \in Region(m, f)
  PROVE  b = f
<1>1. Chain(m.hdr, S)
  BY SoundHasTypes DEF SoundTypes
<1>2. f + 1 .. m.hdr[f].next - 1 \subseteq Blocks \ S
  BY <1>1, RegionsApart
<1>3. f \in Int /\ m.hdr[f].next \in Int
  <2>1. \A s \in S : s \in Int
    BY <1>1, HeapAssumption DEF Chain, Blocks
  <2> QED BY <1>1, <2>1 DEF Chain, Ahead
<1> QED BY <1>2, <1>3 DEF Region

LEMMA FreeIsWalled ==
  ASSUME NEW m, NEW S, NEW F, Sound(m, S, F), Packed(m, F)
  PROVE  Walled(m, F)
<1> SUFFICES ASSUME NEW f \in F
             PROVE  /\ f \in Int /\ m.hdr[f].next \in Int /\ m.hdr[f].next > f
                    /\ m.hdr[f].next \notin Room(m, F) /\ f - 1 \notin Room(m, F)
  BY DEF Walled
<1>1. /\ f \in Int /\ m.hdr[f].next \in Int /\ m.hdr[f].next > f
      /\ f \in S /\ m.hdr[f].next \in S /\ F \subseteq S \ {0, N - 1}
  BY FreeBlock
<1>2. ASSUME NEW g \in F, m.hdr[f].next \in Region(m, g) PROVE FALSE
  <2>1. m.hdr[f].next = g
    BY <1>1, <1>2, StartsApart
  <2> QED BY <2>1 DEF Packed
<1>3. ASSUME NEW g \in F, f - 1 \in Region(m, g) PROVE FALSE
  <2>1. g \in Int /\ m.hdr[g].next \in Int /\ g \in S \ {N - 1}
    BY FreeBlock
  <2>2. CASE f = m.hdr[g].next
    BY <2>2 DEF Packed
  <2>3. CASE f # m.hdr[g].next
    <3>1. f \in Region(m, g)
      BY <1>1, <1>3, <2>1, <2>3 DEF Region
    <3>2. f = g
      BY <1>1, <2>1, <3>1, StartsApart
    <3> QED BY <1>3, <2>1, <3>2 DEF Region
  <2> QED BY <2>2, <2>3
<1> QED BY <1>1, <1>2, <1>3 DEF Room

LEMMA InWall ==
  ASSUME NEW m, NEW R, Walled(m, R), NEW f \in R, NEW x \in Region(m, f),
         NEW k \in Nat, x .. x + k - 1 \subseteq Room(m, R)
  PROVE  x + k <= m.hdr[f].next
<1>1. PICK e : e = m.hdr[f].next
  OBVIOUS
<1>2. f \in Int /\ e \in Int /\ e \notin Room(m, R) /\ x \in f .. e - 1
  BY <1>1 DEF Walled, Region
<1>3. CASE e < x + k
  <2>1. e \in x .. x + k - 1
    BY <1>2, <1>3
  <2> QED BY <1>2, <2>1
<1> QED BY <1>1, <1>2, <1>3

LEMMA NoPlace ==
  ASSUME NEW m, NEW R, Walled(m, R), NEW k \in Nat \ {0},
         \A f \in R : m.hdr[f].next - f < k
  PROVE  Allocator!Places(Room(m, R), k) = {}
<1> SUFFICES ASSUME NEW x \in Room(m, R), x .. x + k - 1 \subseteq Room(m, R) PROVE FALSE
  BY DEF Allocator!Places
<1>1. PICK f \in R : x \in Region(m, f)
  BY DEF Room
<1>2. x + k <= m.hdr[f].next
  BY <1>1, InWall
<1>3. f \in Int /\ m.hdr[f].next \in Int /\ x \in f .. m.hdr[f].next - 1
  BY <1>1 DEF Walled, Region
<1> QED BY <1>2, <1>3

LEMMA RegionIsGap ==
  ASSUME NEW m, NEW R, Walled(m, R), NEW f \in R
  PROVE  Region(m, f) \in Allocator!Gaps(Room(m, R))
<1>1. PICK e : e = m.hdr[f].next
  OBVIOUS
<1>2. f \in Int /\ e \in Int /\ e > f /\ e \notin Room(m, R) /\ f - 1 \notin Room(m, R)
  BY <1>1 DEF Walled
<1>3. Region(m, f) = f .. e - 1 /\ Region(m, f) \subseteq Room(m, R)
  BY <1>1 DEF Region, Room
<1>4. f \in Room(m, R) /\ e - 1 \in Room(m, R)
  BY <1>2, <1>3
<1>5. ASSUME NEW x \in Room(m, R) \ (f .. e - 1) PROVE x + 1 \notin f .. e - 1 /\ x - 1 \notin f .. e - 1
  <2>1. x \in Int /\ x # e /\ x # f - 1
    <3>1. PICK g \in R : x \in Region(m, g)
      BY DEF Room
    <3> QED BY <1>2, <3>1 DEF Walled, Region
  <2> QED BY <1>2, <2>1
<1>6. f .. e - 1 \in {a .. b : a \in Room(m, R), b \in Room(m, R)} /\ f .. e - 1 # {}
  BY <1>2, <1>4
<1> QED BY <1>3, <1>5, <1>6 DEF Allocator!Gaps

LEMMA GapIsRegion ==
  ASSUME NEW m, NEW R, Walled(m, R), NEW h \in Allocator!Gaps(Room(m, R))
  PROVE  \E f \in R : h = Region(m, f)
<1>1. /\ \E a \in Room(m, R), b \in Room(m, R) : h = a .. b
      /\ h # {} /\ h \subseteq Room(m, R)
      /\ \A x \in Room(m, R) \ h : x + 1 \notin h /\ x - 1 \notin h
  BY DEF Allocator!Gaps
<1>2. PICK a \in Room(m, R) : \E b \in Room(m, R) : h = a .. b
  BY <1>1
<1>3. PICK b \in Room(m, R) : h = a .. b
  BY <1>2
<1>4. a \in Int /\ b \in Int
  <2>1. ASSUME NEW x \in Room(m, R) PROVE x \in Int
    <3>1. PICK g \in R : x \in Region(m, g)
      BY DEF Room
    <3> QED BY <3>1 DEF Walled, Region
  <2> QED BY <2>1
<1>5. PICK f \in R : a \in Region(m, f)
  BY DEF Room
<1>6. PICK e : e = m.hdr[f].next
  OBVIOUS
<1>7. /\ f \in Int /\ e \in Int /\ e > f /\ e \notin Room(m, R) /\ f - 1 \notin Room(m, R)
      /\ a \in f .. e - 1 /\ f .. e - 1 \subseteq Room(m, R) /\ Region(m, f) = f .. e - 1
  BY <1>5, <1>6 DEF Walled, Region, Room
<1>8. a <= b
  BY <1>1, <1>3, <1>4
<1>9. b <= e - 1
  <2>1. CASE e <= b
    <3>1. e \in a .. b
      BY <1>4, <1>7, <2>1
    <3> QED BY <1>1, <1>3, <1>7, <3>1
  <2> QED BY <1>4, <1>7, <2>1
<1>10. b = e - 1
  <2>1. CASE b < e - 1
    <3>1. b + 1 \in f .. e - 1 /\ b + 1 \notin a .. b /\ (b + 1) - 1 \in a .. b
      BY <1>4, <1>7, <1>8, <2>1
    <3> QED BY <1>1, <1>3, <1>7, <3>1
  <2> QED BY <1>4, <1>7, <1>9, <2>1
<1>11. a = f
  <2>1. CASE f < a
    <3>1. a - 1 \in f .. e - 1 /\ a - 1 \notin a .. b /\ (a - 1) + 1 \in a .. b
      BY <1>4, <1>7, <1>8, <2>1
    <3> QED BY <1>1, <1>3, <1>7, <3>1
  <2> QED BY <1>4, <1>7, <2>1
<1> QED BY <1>3, <1>7, <1>10, <1>11

LEMMA SameCardinality == \A g : Allocator!Cardinality(g) = Cardinality(g)
BY Zenon DEF Cardinality, Allocator!Cardinality

(* The front of a smallest block that fits.                                *)
LEMMA BestPlace ==
  ASSUME NEW m, NEW R, Walled(m, R), NEW k \in Nat, NEW c \in R, m.hdr[c].next - c >= k,
         \A f \in R : m.hdr[f].next - f >= k => m.hdr[c].next - c <= m.hdr[f].next - f
  PROVE  c \in Allocator!BestPlaces(Room(m, R), k)
<1>1. ASSUME NEW f \in R
      PROVE  /\ Cardinality(Region(m, f)) = m.hdr[f].next - f
             /\ f \in Region(m, f) /\ \A x \in Region(m, f) : f <= x
  <2>1. f \in Int /\ m.hdr[f].next \in Int /\ m.hdr[f].next > f
    BY DEF Walled
  <2>2. Cardinality(f .. m.hdr[f].next - 1) = (m.hdr[f].next - 1) - f + 1
    BY <2>1, FS_Interval
  <2> QED BY <2>1, <2>2 DEF Region
<1> DEFINE fits == {g \in Allocator!Gaps(Room(m, R)) : Cardinality(g) >= k}
<1>2. Region(m, c) \in fits
  BY <1>1, RegionIsGap
<1>3. ASSUME NEW h \in fits PROVE Cardinality(Region(m, c)) <= Cardinality(h)
  <2>1. PICK f \in R : h = Region(m, f)
    BY GapIsRegion
  <2>2. m.hdr[f].next - f >= k
    BY <1>1, <2>1
  <2> QED BY <1>1, <2>1, <2>2
<1>4. c \in Room(m, R)
  BY <1>1 DEF Room
<1>5. /\ c \in Region(m, c) /\ \A x \in Region(m, c) : c <= x
      /\ \A h \in fits : Cardinality(Region(m, c)) <= Cardinality(h)
  BY <1>1, <1>3
<1>6. Allocator!BestPlaces(Room(m, R), k) =
        {x \in Room(m, R) : \E g \in fits : /\ x \in g /\ \A y \in g : x <= y
                                            /\ \A h \in fits : Cardinality(g) <= Cardinality(h)}
  BY SameCardinality DEF Allocator!BestPlaces
<1> HIDE DEF fits
<1> QED BY <1>2, <1>4, <1>5, <1>6

-----------------------------------------------------------------------------
(* What the program owns and what it does not.                             *)
LEMMA ExtentRoom ==
  ASSUME NEW S, NEW F, Sound(heap, S, F), Accounts(heap, ptr, want, S, F), NEW id \in Ids
  PROVE  /\ Allocator!Unowned = Room(heap, F)
         /\ ptr[id] = 0 => Extent[id] = {}
         /\ ptr[id] # 0 => /\ Extent[id] # {}
                           /\ Allocator!Unowned \cup Extent[id] = Room(heap, F \cup {ptr[id]})
<1>1. Used(S, F) = {ptr[i] : i \in Ids} \ {0}
  BY DEF Accounts
<1>2. \A i \in Ids : Extent[i] = IF ptr[i] = 0 THEN {} ELSE Region(heap, ptr[i])
  BY DEF Extent, Region
<1>3. UNION {Extent[i] : i \in Ids} = Room(heap, Used(S, F))
  BY <1>1, <1>2 DEF Room
<1>4. Allocator!Unowned = Room(heap, F)
  <2>1. Allocator!Unowned = (1 .. N - 2) \ Room(heap, Used(S, F))
    BY <1>3 DEF Allocator!Unowned
  <2>2. PICK C : C = {}
    OBVIOUS
  <2>3. C \in SUBSET Used(S, F)
    BY <2>2
  <2>4. Rest(heap, S, F, C) = Room(heap, F \cup C)
    BY <2>3, Unused
  <2>5. Used(S, F) \ C = Used(S, F) /\ F \cup C = F
    BY <2>2
  <2> QED BY <2>1, <2>4, <2>5 DEF Rest
<1>5. ASSUME ptr[id] # 0
      PROVE  /\ Extent[id] # {}
             /\ Allocator!Unowned \cup Extent[id] = Room(heap, F \cup {ptr[id]})
  <2>1. ptr[id] \in Used(S, F)
    BY <1>1, <1>5
  <2>2. ptr[id] \in Region(heap, ptr[id])
    <3>1. PICK c : c = ptr[id]
      OBVIOUS
    <3>2. c \in Int /\ heap.hdr[c].next \in Int /\ heap.hdr[c].next > c
      BY <2>1, <3>1, UsedBlock
    <3> QED BY <3>1, <3>2 DEF Region
  <2>3. Room(heap, F) \cup Region(heap, ptr[id]) = Room(heap, F \cup {ptr[id]})
    BY DEF Room
  <2> QED BY <1>2, <1>4, <1>5, <2>2, <2>3
<1> QED BY <1>2, <1>4, <1>5

LEMMA ExtentChanges ==
  ASSUME NEW S, NEW F, Accounts(heap, ptr, want, S, F), NEW id \in Ids,
         NEW S2, NEW F2, Served(heap, ptr, want, S, F, heap', ptr', want', S2, F2, id),
         NEW b, ptr' = [ptr EXCEPT ![id] = b]
  PROVE  Extent' = [Extent EXCEPT ![id] = IF b = 0 THEN {} ELSE Region(heap', b)]
<1>1. \A i \in Ids \ {id} : ptr[i] # 0 => Kept(heap, heap', ptr[i])
  BY DEF Served
<1>2. ptr'[id] = b /\ \A i \in Ids \ {id} : ptr'[i] = ptr[i]
  BY DEF Accounts
<1>3. \A i \in Ids \ {id} : ptr[i] # 0 => heap'.hdr[ptr[i]].next = heap.hdr[ptr[i]].next
  BY <1>1 DEF Kept
<1>4. \A i \in Ids : Extent'[i] = IF ptr'[i] = 0 THEN {} ELSE ptr'[i] .. heap'.hdr[ptr'[i]].next - 1
  BY DEF Extent
<1>5. Extent'[id] = IF b = 0 THEN {} ELSE Region(heap', b)
  BY <1>2, <1>4 DEF Region
<1>6. \A i \in Ids \ {id} : Extent'[i] = Extent[i]
  BY <1>2, <1>3, <1>4 DEF Extent
<1> QED BY <1>5, <1>6 DEF Extent

(* The block a call returns, and how long it is.                           *)
Handed(m, S, F, b, k) ==
  /\ b \in Used(S, F) /\ b \in Nat \ {0} /\ k \in Nat \ {0}
  /\ m.hdr[b].next = b + k /\ Region(m, b) = b .. b + k - 1
LEMMA NewBlock ==
  ASSUME NEW m, NEW p, NEW w, NEW S, NEW F, Sound(m, S, F), Accounts(m, p, w, S, F),
         NEW id \in Ids, NEW b, b = p[id], b # 0, NEW k, k = UmmBlocks(w[id])
  PROVE  Handed(m, S, F, b, k)
<1>1. b \in Used(S, F) /\ b \in Nat \ {0} /\ w[id] \in Nat \ {0} /\ m.hdr[b].next = b + k
  BY DEF Accounts
<1>2. k \in Nat \ {0}
  BY <1>1, BlocksHold
<1>3. PICK e : e = m.hdr[b].next
  OBVIOUS
<1>4. e - 1 = b + k - 1
  BY <1>1, <1>2, <1>3
<1> QED BY <1>1, <1>2, <1>3, <1>4 DEF Region, Handed

(* What is not the program's but for its C's stays so while the others'    *)
(* blocks stay.                                                            *)
AllKept(m, to, U) == \A x \in U : Kept(m, to, x)
LEMMA RoomStays ==
  ASSUME NEW m, NEW S, NEW F, Sound(m, S, F), NEW C \in SUBSET Used(S, F),
         NEW to, NEW S2, NEW F2, Sound(to, S2, F2), NEW C2 \in SUBSET Used(S2, F2),
         NEW U, U = Used(S, F) \ C, U = Used(S2, F2) \ C2, AllKept(m, to, U),
         NEW R, R = F \cup C, NEW R2, R2 = F2 \cup C2
  PROVE  Room(m, R) = Room(to, R2)
<1>1. \A x \in U : Region(to, x) = Region(m, x)
  BY DEF AllKept, Kept, Region
<1>2. Room(m, U) = Room(to, U)
  BY <1>1 DEF Room
<1>3. Rest(m, S, F, C) = Rest(to, S2, F2, C2)
  BY <1>2 DEF Rest
<1>4. Rest(m, S, F, C) = Room(m, F \cup C)
  BY Unused
<1>5. Rest(to, S2, F2, C2) = Room(to, F2 \cup C2)
  BY Unused
<1> QED BY <1>3, <1>4, <1>5

(* What umm_malloc finds.                                                  *)
LEMMA BestOfAll ==
  ASSUME NEW m, NEW S, NEW F, Sound(m, S, F), NEW k \in Nat \ {0},
         NEW b, b = UmmMalloc(m, k).block
  PROVE  /\ b # 0 => /\ b \in F /\ BlockSize(m, b) >= k
                     /\ \A f \in F : BlockSize(m, f) >= k => BlockSize(m, b) <= BlockSize(m, f)
         /\ b = 0 => \A f \in F : ~(BlockSize(m, f) >= k)
<1>1. b = BestFit(m, k)
  <2> DEFINE c == BestFit(m, k)
  <2>1. UmmMalloc(m, k).block = c
    BY DEF UmmMalloc
  <2> QED BY <2>1
<1>2. \A f \in F : \E j \in 0 .. N : FreeAt(m)[j] = f /\ f # 0
  <2>1. {FreeAt(m)[j] : j \in 0 .. N} \ {0} = F
    BY FreeListMeetsAll
  <2> QED BY <2>1
<1>3. /\ BestFit(m, k) # 0 =>
           /\ BestFit(m, k) \in F /\ BlockSize(m, BestFit(m, k)) >= k
           /\ \A j \in 0 .. N :
                FreeAt(m)[j] # 0 /\ BlockSize(m, FreeAt(m)[j]) >= k =>
                  BlockSize(m, BestFit(m, k)) <= BlockSize(m, FreeAt(m)[j])
      /\ BestFit(m, k) = 0 =>
           \A j \in 0 .. N : FreeAt(m)[j] # 0 => ~(BlockSize(m, FreeAt(m)[j]) >= k)
  BY BestFitSound
<1> QED BY <1>1, <1>2, <1>3
-----------------------------------------------------------------------------
(* Every call is a step of the abstract allocator's.                       *)
LEMMA AllocStep ==
  ASSUME NEW S, NEW F, XState(heap, ptr, want, address, lines, S, F), NEW id \in Ids,
         XServed(S, F, id), ptr[id] = 0, NEW size \in Nat \ {0}, NEW k, k = UmmBlocks(size),
         NEW b, b = UmmMalloc(heap, k).block, ptr' = [ptr EXCEPT ![id] = b],
         want' = [want EXCEPT ![id] = IF b = 0 THEN 0 ELSE size],
         denied' = IF b = 0 THEN k ELSE 0
  PROVE  Allocator!Alloc(id, k)
<1>1. /\ Sound(heap, S, F) /\ Packed(heap, F) /\ Accounts(heap, ptr, want, S, F)
      /\ ptr \in [Ids -> Nat] /\ want \in [Ids -> Nat]
  BY DEF XState, Accounts
<1>2. PICK S2, F2 : Served(heap, ptr, want, S, F, heap', ptr', want', S2, F2, id)
  BY DEF XServed
<1>3. k \in Nat \ {0}
  BY BlocksHold
<1>4. Walled(heap, F)
  BY <1>1, FreeIsWalled
<1>5. Allocator!Unowned = Room(heap, F) /\ Extent[id] = {}
  BY <1>1, ExtentRoom
<1>6. Extent' = [Extent EXCEPT ![id] = IF b = 0 THEN {} ELSE Region(heap', b)]
  BY <1>1, <1>2, ExtentChanges
<1>7. CASE b = 0
  <2>1. \A f \in F : heap.hdr[f].next - f < k
    <3>1. ASSUME NEW f \in F PROVE heap.hdr[f].next - f < k
      <4>1. ~(BlockSize(heap, f) >= k)
        BY <1>1, <1>3, <1>7, BestOfAll
      <4>2. f \in Int /\ heap.hdr[f].next \in Int
        BY <1>4 DEF Walled
      <4> QED BY <1>3, <4>1, <4>2 DEF BlockSize
    <3> QED BY <3>1
  <2>2. Allocator!Places(Allocator!Unowned, k) = {}
    BY <1>3, <1>4, <1>5, <2>1, NoPlace
  <2>3. Extent' = Extent
    BY <1>5, <1>6, <1>7 DEF Extent
  <2> QED BY <1>5, <1>7, <2>2, <2>3 DEF Allocator!Alloc
<1>8. CASE b # 0
  <2>1. /\ b \in F /\ BlockSize(heap, b) >= k
        /\ \A f \in F : BlockSize(heap, f) >= k => BlockSize(heap, b) <= BlockSize(heap, f)
    BY <1>1, <1>3, <1>8, BestOfAll
  <2>2. b \in Allocator!BestPlaces(Allocator!Unowned, k)
    <3>1. b \in Allocator!BestPlaces(Room(heap, F), k)
      BY <1>3, <1>4, <2>1, BestPlace DEF BlockSize
    <3> QED BY <1>5, <3>1
  <2>3. Region(heap', b) = b .. b + k - 1
    <3>1. Sound(heap', S2, F2) /\ Accounts(heap', ptr', want', S2, F2)
      BY <1>2 DEF Served
    <3>2. b = ptr'[id] /\ want'[id] = size
      BY <1>1, <1>8
    <3>3. k = UmmBlocks(want'[id])
      BY <3>2
    <3>4. b = ptr'[id]
      BY <3>2
    <3>5. Handed(heap', S2, F2, b, k)
      BY <1>8, <3>1, <3>3, <3>4, NewBlock
    <3> QED BY <3>5 DEF Handed
  <2>4. Extent' = [Extent EXCEPT ![id] = b .. b + k - 1]
    BY <1>6, <1>8, <2>3
  <2> QED BY <1>5, <1>8, <2>2, <2>4 DEF Allocator!Alloc
<1> QED BY <1>7, <1>8

LEMMA ReleaseStep ==
  ASSUME NEW S, NEW F, XState(heap, ptr, want, address, lines, S, F),
         NEW id \in Ids, XFree(id)
  PROVE  Allocator!Release(id)
<1>1. XServed(S, F, id)
  BY XFreeStep
<1>2. PICK S2, F2 : Served(heap, ptr, want, S, F, heap', ptr', want', S2, F2, id)
  BY <1>1 DEF XServed
<1>3. /\ Sound(heap, S, F) /\ Accounts(heap, ptr, want, S, F)
      /\ (ptr[id] = 0 => address[id] = 0)
  BY DEF XState
<1>4. ptr[id] # 0 /\ ptr' = [ptr EXCEPT ![id] = 0] /\ denied' = 0
  BY <1>3 DEF XFree
<1>5. Extent[id] # {}
  BY <1>3, <1>4, ExtentRoom
<1>6. PICK b : b = 0
  OBVIOUS
<1>7. Extent' = [Extent EXCEPT ![id] = IF b = 0 THEN {} ELSE Region(heap', b)]
  <2>1. ptr' = [ptr EXCEPT ![id] = b]
    BY <1>4, <1>6
  <2> QED BY <1>2, <1>3, <2>1, ExtentChanges
<1>8. Extent' = [Extent EXCEPT ![id] = {}]
  BY <1>6, <1>7
<1> QED BY <1>4, <1>5, <1>8 DEF Allocator!Release

(* What umm_realloc makes of it when there is no room.                     *)
LEMMA StartOutside ==
  ASSUME NEW m, NEW S, NEW F, Sound(m, S, F), NEW R \in SUBSET (S \ {N - 1}), NEW s \in S \ R
  PROVE  s \notin Room(m, R)
<1> SUFFICES ASSUME NEW f \in R, s \in Region(m, f) PROVE FALSE
  BY DEF Room
<1>1. s \in S /\ f \in S \ {N - 1}
  OBVIOUS
<1>2. s = f
  BY <1>1, StartsApart
<1> QED BY <1>2

(* A place that starts before t, which is outside, ends before it.         *)
LEMMA EndsBefore ==
  ASSUME NEW room, NEW t \in Int, t \notin room, NEW x \in Int, x < t, NEW k \in Nat,
         x .. x + k - 1 \subseteq room
  PROVE  x + k <= t
<1>1. CASE t < x + k
  <2>1. t \in x .. x + k - 1
    BY <1>1
  <2> QED BY <2>1
<1> QED BY <1>1

LEMMA NoneAround ==
  ASSUME NEW m, NEW S, NEW F, Sound(m, S, F), NEW c \in Used(S, F),
         Packed(m, F), m.hdr[c].next \notin F, NEW k \in Nat \ {0},
         m.hdr[c].next - c < k, \A f \in F : m.hdr[f].next - f < k,
         m.hdr[c].prev \in F => m.hdr[c].next - m.hdr[c].prev < k
  PROVE  Allocator!Places(Room(m, F \cup {c}), k) = {}
<1> DEFINE R == F \cup {c}  room == Room(m, R)
<1>1. PICK e : e = m.hdr[c].next
  OBVIOUS
<1>2. PICK p : p = m.hdr[c].prev
  OBVIOUS
<1>3. /\ Chain(m.hdr, S) /\ c \in S \ {0, N - 1} /\ c \in Int /\ e \in S /\ e \in Int /\ e > c
      /\ p \in Int /\ p < c
  BY <1>1, <1>2, UsedBlock
<1>4. R \in SUBSET (S \ {N - 1})
  <2>1. SoundTypes(m, S, F)
    BY SoundHasTypes
  <2> QED BY <1>3, <2>1 DEF SoundTypes
<1>5. e \notin room
  <2>1. e \in S \ R
    BY <1>1, <1>3
  <2> HIDE DEF R
  <2> QED BY <1>4, <2>1, StartOutside
<1> SUFFICES ASSUME NEW x \in room, x .. x + k - 1 \subseteq room PROVE FALSE
  BY DEF Allocator!Places
<1>6. PICK f \in R : x \in Region(m, f)
  BY DEF Room
<1> HIDE DEF room
<1>7. CASE f = c
  <2>1. x \in Int /\ c <= x /\ x < e
    BY <1>1, <1>3, <1>6, <1>7 DEF Region
  <2>2. x + k <= e
    BY <1>3, <1>5, <2>1, EndsBefore
  <2> QED BY <1>1, <1>3, <2>1, <2>2
<1>8. CASE f \in F
  <2>1. PICK t : t = m.hdr[f].next
    OBVIOUS
  <2>2. f \in Int /\ t \in Int /\ t \in S /\ f \in S \ {0, N - 1} /\ t - f < k
    BY <1>8, <2>1, FreeBlock
  <2>3. x \in Int /\ f <= x /\ x < t
    BY <1>6, <2>1, <2>2 DEF Region
  <2>4. CASE t # c
    <3>1. t \in S \ R
      BY <1>8, <2>1, <2>2, <2>4 DEF Packed
    <3>2. t \notin room
      <4> HIDE DEF R
      <4> QED BY <1>4, <3>1, StartOutside DEF room
    <3>3. x + k <= t
      BY <2>2, <2>3, <3>2, EndsBefore
    <3> QED BY <2>2, <2>3, <3>3
  <2>5. CASE t = c
    <3>1. p = f
      BY <1>2, <1>3, <2>1, <2>2, <2>5 DEF Chain, Ahead
    <3>2. e - f < k
      BY <1>1, <1>2, <1>8, <3>1
    <3>3. x < e
      BY <1>3, <2>3, <2>5
    <3>4. x + k <= e
      BY <1>3, <1>5, <2>3, <3>3, EndsBefore
    <3> QED BY <1>3, <2>2, <2>3, <3>2, <3>4
  <2> QED BY <2>4, <2>5
<1> QED BY <1>7, <1>8

LEMMA GrownRoom ==
  ASSUME NEW m, NEW S, NEW F, Sound(m, S, F), NEW c \in Used(S, F),
         NEW up, NEW S1, NEW F1, Grown(m, up, S, F, S1, F1, c)
  PROVE  Room(m, F \cup {c}) = Room(up, F1 \cup {c})
<1>1. /\ Sound(up, S1, F1) /\ Used(S1, F1) = Used(S, F)
      /\ \A x \in Used(S, F) \ {c} : Kept(m, up, x)
  BY DEF Grown, Tidy
<1>2. PICK C, C1, U : C = {c} /\ C1 = {c} /\ U = Used(S, F) \ C
  OBVIOUS
<1>3. PICK R, R1 : R = F \cup C /\ R1 = F1 \cup C1
  OBVIOUS
<1>4. C \in SUBSET Used(S, F) /\ C1 \in SUBSET Used(S1, F1)
  BY <1>1, <1>2
<1>5. U = Used(S, F) \ C /\ U = Used(S1, F1) \ C1
  BY <1>1, <1>2
<1>6. AllKept(m, up, U)
  BY <1>1, <1>2 DEF AllKept
<1>7. Room(m, R) = Room(up, R1)
  <2>1. Sound(m, S, F) /\ Sound(up, S1, F1)
    BY <1>1
  <2> QED BY <1>3, <1>4, <1>5, <1>6, <2>1, RoomStays
<1> QED BY <1>2, <1>3, <1>7

LEMMA ReallocFails ==
  ASSUME NEW m, NEW S, NEW F, Sound(m, S, F), Packed(m, F), NEW c \in Used(S, F),
         NEW k \in Nat \ {0}, UmmRealloc(m, c, k).block = 0
  PROVE  Allocator!Places(Room(m, F \cup {c}), k) = {}
<1>1. PICK n, b, to : /\ n = 2 * BlockSize(m, c) - 1
                      /\ b = UmmRealloc(m, c, k).block /\ to = UmmRealloc(m, c, k).heap
  OBVIOUS
<1>2. PICK up, p, down, d, v, g : Branches(m, c, k, n, b, to, up, p, down, d, v, g)
  BY <1>1, ReallocBranches
<1>3. /\ v \in BOOLEAN /\ ~v /\ down \in BOOLEAN
      /\ (down <=> (up.hdr[p].free /\ k <= up.hdr[c].next - p))
      /\ up = AssimilateUp(m, c) /\ p = up.hdr[c].prev /\ d = IF down THEN p ELSE c
      /\ g = IF down THEN Copy(AssimilateDown(Disconnect(up, p), c, v), c, p, n) ELSE up
  BY <1>2 DEF Branches
<1>4. PICK S1, F1 : Grown(m, up, S, F, S1, F1, c)
  BY <1>3, GrowSound
<1>5. /\ Sound(up, S1, F1) /\ Used(S1, F1) = Used(S, F) /\ c \in Used(S1, F1)
      /\ Packed(up, F1) /\ up.hdr[c].next \notin F1 /\ up.hdr[c].next >= m.hdr[c].next
      /\ \A x \in Used(S, F) \ {c} : Kept(m, up, x)
  BY <1>4 DEF Grown, Tidy
<1>6. /\ c \in Int /\ c # 0 /\ up.hdr[c].next \in Int /\ up.hdr[c].next > c /\ m.hdr[c].next \in Int
      /\ m.hdr[c].next > c /\ p \in Int /\ p \in S1
  BY <1>3, <1>5, UsedBlock
<1>7. p \in F1 <=> up.hdr[p].free
  <2>1. SoundTypes(up, S1, F1)
    BY <1>5, SoundHasTypes
  <2> QED BY <1>6, <2>1 DEF SoundTypes
<1>8. p \in F1 => p # 0
  BY <1>5, FreeBlock
<1>9. ~down
  <2> SUFFICES ASSUME down PROVE FALSE
    OBVIOUS
  <2>1. p \in F1 /\ d = p /\ g = Copy(AssimilateDown(Disconnect(up, p), c, v), c, p, n)
        /\ k <= up.hdr[c].next - p
    BY <1>3, <1>7
  <2>2. n \in Nat /\ n <= 2 * (up.hdr[c].next - c) - 1
    BY <1>1, <1>5, <1>6 DEF BlockSize
  <2>3. g.hdr[p].next = up.hdr[c].next
    <3>1. v \in BOOLEAN /\ ~v /\ Sound(up, S1, F1) /\ c \in Used(S1, F1) /\ p = up.hdr[c].prev
      BY <1>3, <1>5
    <3>2. Slid(up, g, S1, F1, c, p, n)
      BY <2>1, <2>2, <3>1, SlideSound
    <3> QED BY <3>2 DEF Slid
  <2>4. BlockSize(g, d) \in Int /\ BlockSize(g, d) >= k /\ d # 0
    BY <1>6, <1>8, <2>1, <2>3 DEF BlockSize
  <2>5. b # 0
    <3>1. PICK x : x = BlockSize(g, d)
      OBVIOUS
    <3>2. x = k \/ (x # k /\ x > k)
      BY <2>4, <3>1
    <3> QED BY <1>2, <1>6, <2>4, <3>1, <3>2 DEF Branches
  <2> QED BY <1>1, <2>5
<1>10. g = up /\ d = c
  BY <1>3, <1>9
<1>11. b = 0
  BY <1>1
<1>12. /\ BlockSize(up, c) # k /\ ~(BlockSize(up, c) > k) /\ b = Relocate(up, c, k, n).block
  BY <1>2, <1>6, <1>10, <1>11 DEF Branches
<1>13. b = UmmMalloc(up, k).block
  BY <1>12 DEF Relocate
<1>14. \A f \in F1 : ~(BlockSize(up, f) >= k)
  BY <1>5, <1>11, <1>13, BestOfAll
<1>15. /\ up.hdr[c].next - c < k
       /\ up.hdr[c].prev \in F1 => up.hdr[c].next - up.hdr[c].prev < k
  BY <1>3, <1>6, <1>7, <1>9, <1>12 DEF BlockSize
<1>16. \A f \in F1 : up.hdr[f].next - f < k
  <2>1. ASSUME NEW f \in F1 PROVE up.hdr[f].next - f < k
    <3>1. f \in Int /\ up.hdr[f].next \in Int
      BY <1>5, FreeBlock
    <3> QED BY <1>14, <3>1 DEF BlockSize
  <2> QED BY <2>1
<1>17. Allocator!Places(Room(up, F1 \cup {c}), k) = {}
  BY <1>5, <1>15, <1>16, NoneAround
<1>18. Room(m, F \cup {c}) = Room(up, F1 \cup {c})
  BY <1>4, GrownRoom
<1> QED BY <1>17, <1>18

LEMMA ResizeStep ==
  ASSUME NEW S, NEW F, XState(heap, ptr, want, address, lines, S, F),
         NEW id \in Ids, NEW size \in Nat, XRealloc(id, size)
  PROVE  Allocator!Resize(id, UmmBlocks(size))
<1>1. PICK c, k : c = ptr[id] /\ k = UmmBlocks(size)
  OBVIOUS
<1>2. PICK b : b = UmmRealloc(heap, c, k).block
  OBVIOUS
<1>3. /\ Sound(heap, S, F) /\ Packed(heap, F) /\ Accounts(heap, ptr, want, S, F)
      /\ ptr \in [Ids -> Nat] /\ want \in [Ids -> Nat]
      /\ Used(S, F) = {ptr[i] : i \in Ids} \ {0}
      /\ \A i, j \in Ids : ptr[i] # 0 /\ ptr[i] = ptr[j] => i = j
  BY DEF XState, Accounts
<1>4. /\ c # 0 /\ size \in Nat \ {0} /\ ptr' = [ptr EXCEPT ![id] = b]
      /\ want' = [want EXCEPT ![id] = IF b = 0 THEN 0 ELSE size]
      /\ denied' = IF b = 0 THEN k ELSE 0
  BY <1>1, <1>2 DEF XRealloc, Realloc, Outcome
<1>5. k \in Nat \ {0}
  BY <1>1, <1>4, BlocksHold
<1>6. XServed(S, F, id)
  BY XReallocStep
<1>7. PICK S2, F2 : Served(heap, ptr, want, S, F, heap', ptr', want', S2, F2, id)
  BY <1>6 DEF XServed
<1>8. /\ Sound(heap', S2, F2) /\ Accounts(heap', ptr', want', S2, F2)
      /\ \A x \in Used(S, F) \ {c} : Kept(heap, heap', x)
      /\ Used(S2, F2) = {ptr'[i] : i \in Ids} \ {0}
      /\ \A i, j \in Ids : ptr'[i] # 0 /\ ptr'[i] = ptr'[j] => i = j
  BY <1>1, <1>7 DEF Served, Tidy, Accounts
<1>9. c \in Used(S, F)
  BY <1>1, <1>3, <1>4
<1>10. Extent[id] # {} /\ Allocator!Unowned \cup Extent[id] = Room(heap, F \cup {c})
  BY <1>1, <1>3, <1>4, ExtentRoom
<1>11. Extent' = [Extent EXCEPT ![id] = IF b = 0 THEN {} ELSE Region(heap', b)]
  BY <1>3, <1>4, <1>7, ExtentChanges
<1>12. CASE b = 0
  <2>1. Allocator!Places(Room(heap, F \cup {c}), k) = {}
    BY <1>2, <1>3, <1>5, <1>9, <1>12, ReallocFails
  <2>2. Extent' = [Extent EXCEPT ![id] = {}] /\ denied' = k
    BY <1>4, <1>11, <1>12
  <2> QED BY <1>1, <1>10, <2>1, <2>2 DEF Allocator!Resize
<1>13. CASE b # 0
  <2>1. b = ptr'[id] /\ want'[id] = size /\ \A i \in Ids \ {id} : ptr'[i] = ptr[i]
    BY <1>3, <1>4, <1>13
  <2>2. b = ptr'[id] /\ k = UmmBlocks(want'[id])
    BY <1>1, <2>1
  <2>3. Handed(heap', S2, F2, b, k)
    BY <1>8, <1>13, <2>2, NewBlock
  <2>4. Region(heap', b) = b .. b + k - 1 /\ b \in Used(S2, F2) /\ b \in Nat
    BY <2>3 DEF Handed
  <2>5. Used(S, F) \ {c} = Used(S2, F2) \ {b}
    <3>1. ASSUME NEW x \in Used(S, F) \ {c} PROVE x \in Used(S2, F2) \ {b}
      <4>1. PICK i \in Ids : x = ptr[i] /\ x # 0
        BY <1>3
      <4>2. i # id
        BY <1>1, <4>1
      <4> QED BY <1>8, <2>1, <4>1, <4>2
    <3>2. ASSUME NEW x \in Used(S2, F2) \ {b} PROVE x \in Used(S, F) \ {c}
      <4>1. PICK i \in Ids : x = ptr'[i] /\ x # 0
        BY <1>8
      <4>2. i # id
        BY <2>1, <4>1
      <4>3. x = ptr[i]
        BY <2>1, <4>1, <4>2
      <4> QED BY <1>1, <1>3, <4>1, <4>2, <4>3
    <3> QED BY <3>1, <3>2
  <2>6. Room(heap, F \cup {c}) = Room(heap', F2 \cup {b})
    <3>1. PICK C, C2, U : C = {c} /\ C2 = {b} /\ U = Used(S, F) \ C
      OBVIOUS
    <3>2. PICK R, R2 : R = F \cup C /\ R2 = F2 \cup C2
      OBVIOUS
    <3>3. C \in SUBSET Used(S, F) /\ C2 \in SUBSET Used(S2, F2)
      BY <1>9, <2>4, <3>1
    <3>4. U = Used(S, F) \ C /\ U = Used(S2, F2) \ C2
      BY <2>5, <3>1
    <3>5. AllKept(heap, heap', U)
      BY <1>8, <3>1 DEF AllKept
    <3>6. Room(heap, R) = Room(heap', R2)
      <4>1. Sound(heap, S, F) /\ Sound(heap', S2, F2)
        BY <1>3, <1>8
      <4> QED BY <3>2, <3>3, <3>4, <3>5, <4>1, RoomStays
    <3> QED BY <3>1, <3>2, <3>6
  <2>7. b .. b + k - 1 \subseteq Room(heap, F \cup {c})
    BY <2>4, <2>6 DEF Room
  <2>8. b \in b .. b + k - 1
    BY <1>5, <2>4
  <2>9. b \in Allocator!Places(Room(heap, F \cup {c}), k)
    BY <2>7, <2>8 DEF Allocator!Places
  <2>10. Extent' = [Extent EXCEPT ![id] = b .. b + k - 1] /\ denied' = 0
    BY <1>4, <1>11, <1>13, <2>4
  <2> QED BY <1>1, <1>10, <2>9, <2>10 DEF Allocator!Resize
<1> QED BY <1>12, <1>13

LEMMA FirstMaps == InitX => Allocator!Init
<1> SUFFICES ASSUME InitX PROVE Allocator!Init
  OBVIOUS
<1>1. ptr = [i \in Ids |-> 0] /\ denied = 0
  BY DEF InitX, Init
<1>2. Extent = [i \in Ids |-> {}]
  BY <1>1 DEF Extent
<1> QED BY <1>1, <1>2 DEF Allocator!Init

LEMMA StepMaps == XInv /\ [NextX]_xvars => [Allocator!Next]_(Allocator!vars)
<1> SUFFICES ASSUME XInv, [NextX]_xvars PROVE [Allocator!Next]_(Allocator!vars)
  OBVIOUS
<1>1. PICK S, F : XState(heap, ptr, want, address, lines, S, F)
  BY DEF XInv
<1>2. ASSUME NEW id \in Ids, XFree(id) PROVE Allocator!Next
  BY <1>1, <1>2, ReleaseStep DEF Allocator!Next
<1>3. ASSUME NEW id \in Ids, NEW size \in Sizes, XMalloc(id, size) PROVE Allocator!Next
  <2>1. PICK k : k = UmmBlocks(size)
    OBVIOUS
  <2>2. PICK b : b = UmmMalloc(heap, k).block
    OBVIOUS
  <2>3. /\ ptr[id] = 0 /\ size \in Nat \ {0} /\ ptr' = [ptr EXCEPT ![id] = b]
        /\ want' = [want EXCEPT ![id] = IF b = 0 THEN 0 ELSE size]
        /\ denied' = IF b = 0 THEN k ELSE 0
    BY <1>3, <2>1, <2>2, HeapAssumption DEF XMalloc, Malloc, Outcome
  <2>4. XServed(S, F, id)
    BY <1>1, <1>3, <2>3, XMallocStep
  <2>5. Allocator!Alloc(id, k)
    BY <1>1, <2>1, <2>2, <2>3, <2>4, AllocStep
  <2>6. k \in Requests
    BY <2>1, <2>3 DEF Requests
  <2> QED BY <2>5, <2>6 DEF Allocator!Next
<1>4. ASSUME NEW id \in Ids, NEW size \in Sizes, XRealloc(id, size) PROVE Allocator!Next
  <2>1. size \in Nat \ {0}
    BY <1>4, HeapAssumption DEF XRealloc, Realloc
  <2>2. Allocator!Resize(id, UmmBlocks(size))
    BY <1>1, <1>4, <2>1, ResizeStep
  <2>3. UmmBlocks(size) \in Requests
    BY <2>1 DEF Requests
  <2> QED BY <2>2, <2>3 DEF Allocator!Next
<1>5. ASSUME NEW id \in Ids, NEW size \in AlignSizes, XMallocAlign32(id, size) PROVE Allocator!Next
  <2>1. PICK asked : asked = calcAlign32(size)
    OBVIOUS
  <2>2. PICK k : k = UmmBlocks(asked)
    OBVIOUS
  <2>3. PICK b : b = UmmMalloc(heap, k).block
    OBVIOUS
  <2>4. size \in Nat \ {0} /\ asked \in Nat \ {0}
    BY <2>1, AlignAssumption DEF calcAlign32
  <2>5. /\ ptr[id] = 0 /\ ptr' = [ptr EXCEPT ![id] = b]
        /\ want' = [want EXCEPT ![id] = IF b = 0 THEN 0 ELSE asked]
        /\ denied' = IF b = 0 THEN k ELSE 0
    BY <1>5, <2>1, <2>2, <2>3 DEF XMallocAlign32, Outcome
  <2>6. XServed(S, F, id)
    BY <1>1, <1>5, <2>4, XMallocAlign32Step
  <2>7. Allocator!Alloc(id, k)
    BY <1>1, <2>2, <2>3, <2>4, <2>5, <2>6, AllocStep
  <2>8. k \in Requests
    BY <2>1, <2>2 DEF Requests
  <2> QED BY <2>7, <2>8 DEF Allocator!Next
<1>6. CASE UNCHANGED xvars
  <2>1. heap' = heap /\ ptr' = ptr /\ denied' = denied
    BY <1>6 DEF xvars, vars
  <2>2. Extent' = Extent
    BY <2>1 DEF Extent
  <2> QED BY <2>1, <2>2 DEF Allocator!vars
<1> QED BY <1>2, <1>3, <1>4, <1>5, <1>6 DEF NextX

(* The specification of xmem.c over umm_malloc.c implements the abstract   *)
(* allocator: what the pointers own never overlaps, a call fails only when *)
(* no free interval is long enough (with the old one, for x_realloc), and  *)
(* x_malloc takes the front of a smallest gap that fits.                   *)
THEOREM HeapImplementsAllocator == SpecX => AllocatorSpec
<1>1. InitX => Allocator!Init
  BY FirstMaps
<1>2. XInv /\ [NextX]_xvars => [Allocator!Next]_(Allocator!vars)
  BY StepMaps
<1> QED BY <1>1, <1>2, XInvHolds, PTL DEF SpecX, AllocatorSpec, Allocator!Spec
=============================================================================
