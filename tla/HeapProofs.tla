----------------------------- MODULE HeapProofs -----------------------------
(***************************************************************************)
(* For every number of heaps, every range, page size and request, the      *)
(* blocks tile the heaps in every state of every call.                     *)
(*                                                                         *)
(* One lemma per change that heap.rs makes to the headers shows that it    *)
(* keeps a tiling; the theorem adds what the calls remember between their  *)
(* steps: where the search stands, how far grow and shrink have come.      *)
(***************************************************************************)
EXTENDS Heap, TLAPS

(* Headers with the numbers their types allow. *)
Headers(b) == \A a \in DOMAIN b : a \in Nat /\ b[a].size \in Nat

(* Marking a block used or free moves no boundary. *)
LEMMA MarkKeepsTiles ==
  ASSUME NEW b, NEW base \in Nat, NEW top \in Nat, NEW at \in DOMAIN b,
         NEW used, Headers(b), Tiles(b, base, top)
  PROVE  LET w == write_header(b, at, b[at].size, used)
         IN  Headers(w) /\ Tiles(w, base, top) /\ DOMAIN w = DOMAIN b
<1> DEFINE w == write_header(b, at, b[at].size, used)
<1>1. /\ DOMAIN w = DOMAIN b
      /\ \A a \in DOMAIN b : w[a].size = b[a].size
  BY DEF write_header
<1> HIDE DEF w
<1>2. \A a \in DOMAIN b : EndOf(w, a) = EndOf(b, a)
  BY <1>1 DEF EndOf
<1>3. Headers(w)
  BY <1>1 DEF Headers
<1>4. Tiles(w, base, top)
  BY Zenon, <1>1, <1>2 DEF Tiles
<1> QED BY <1>1, <1>3, <1>4 DEF w

(* Merging a block with the next removes the boundary between them. *)
LEMMA AbsorbKeepsTiles ==
  ASSUME NEW b, NEW base \in Nat, NEW top \in Nat, NEW at \in DOMAIN b,
         Headers(b), Tiles(b, base, top), EndOf(b, at) \in DOMAIN b
  PROVE  /\ Headers(absorb(b, at)) /\ Tiles(absorb(b, at), base, top)
         /\ DOMAIN absorb(b, at) = DOMAIN b \ {EndOf(b, at)}
<1> DEFINE next == EndOf(b, at)
           w == absorb(b, at)
<1>1. /\ at \in Nat /\ next \in Nat /\ at < next
      /\ next = at + HEADER + b[at].size
      /\ EndOf(b, next) = next + HEADER + b[next].size
  BY DEF Headers, EndOf, HEADER
<1>2. DOMAIN w = DOMAIN b \ {next}
  BY DEF absorb, write_header, Forget
<1>3. w[at] = [size |-> b[at].size + HEADER + b[next].size, used |-> FALSE]
  BY <1>1 DEF absorb, write_header, Forget
<1>4. \A a \in DOMAIN w : a # at => w[a] = b[a]
  BY <1>2 DEF absorb, write_header, Forget
<1> HIDE DEF w, next
<1>5. Headers(w)
  BY <1>1, <1>2, <1>3, <1>4 DEF Headers, HEADER, next
<1>6. EndOf(w, at) = EndOf(b, next)
  BY <1>1, <1>3 DEF EndOf, Headers, HEADER, next
<1>7. \A a \in DOMAIN w : a # at => EndOf(w, a) = EndOf(b, a)
  BY <1>4 DEF EndOf
<1>8. \A a \in DOMAIN w : a # at => EndOf(b, a) # next
  <2> SUFFICES ASSUME NEW a \in DOMAIN w, a # at PROVE EndOf(b, a) # next
    OBVIOUS
  <2>1. a \in DOMAIN b /\ a \in Nat /\ a < EndOf(b, a)
    BY <1>2 DEF Headers, EndOf, HEADER
  <2>2. CASE a < at
    BY <1>1, <2>1, <2>2 DEF Tiles
  <2>3. CASE at < a
    BY <1>1, <2>1, <2>3 DEF Tiles, next
  <2> QED BY <1>1, <2>1, <2>2, <2>3
<1>9. base \in DOMAIN w \cup {top}
  BY <1>1, <1>2 DEF Tiles
<1>10. \A c \in (DOMAIN w \cup {top}) \ {base} : \E a \in DOMAIN w : EndOf(w, a) = c
  <2> SUFFICES ASSUME NEW c \in (DOMAIN w \cup {top}) \ {base}
               PROVE  \E a \in DOMAIN w : EndOf(w, a) = c
    OBVIOUS
  <2>1. PICK a \in DOMAIN b : EndOf(b, a) = c
    BY Zenon, <1>2 DEF Tiles
  <2>2. CASE a = next
    BY <1>1, <1>2, <1>6, <2>1, <2>2
  <2>3. CASE a # next
    <3>1. a # at
      BY <1>1, <1>2, <2>1 DEF Tiles, next, Headers, EndOf, HEADER
    <3> QED BY <1>2, <1>7, <2>1, <2>3, <3>1
  <2> QED BY <2>2, <2>3
<1>11. ASSUME NEW a \in DOMAIN w
       PROVE  /\ base <= a /\ EndOf(w, a) <= top
              /\ w[a].size >= SMALLEST
              /\ EndOf(w, a) \in DOMAIN w \cup {top}
              /\ \A c \in DOMAIN w : a < c => EndOf(w, a) <= c
  <2>1. a \in DOMAIN b /\ a \in Nat
    BY <1>2 DEF Headers
  <2>2. CASE a = at
    <3>1. /\ EndOf(b, next) <= top /\ base <= at /\ EndOf(b, next) \in DOMAIN b \cup {top}
          /\ EndOf(b, next) \in Nat /\ next < EndOf(b, next)
      BY <1>1 DEF Tiles, next, Headers, HEADER
    <3>2. w[at].size >= SMALLEST
      BY <1>1, <1>3 DEF Tiles, next, Headers, HEADER, SMALLEST
    <3>3. ASSUME NEW c \in DOMAIN w, at < c PROVE EndOf(b, next) <= c
      <4>1. next <= c /\ c # next /\ c \in Nat /\ c \in DOMAIN b
        BY <1>1, <1>2, <3>3 DEF Tiles, next, Headers
      <4>2. next < c
        BY <4>1, <1>1
      <4> QED BY <4>1, <4>2 DEF Tiles, next
    <3> QED BY <1>2, <1>6, <2>2, <3>1, <3>2, <3>3
  <2>3. CASE a # at
    BY <1>2, <1>4, <1>7, <1>8, <2>1, <2>3 DEF Tiles
  <2> QED BY <2>2, <2>3
<1>12. Tiles(w, base, top)
  BY <1>9, <1>10, <1>11 DEF Tiles
<1> QED BY <1>2, <1>5, <1>12 DEF w, next

(* Splitting a block adds a boundary inside it. *)
LEMMA TakeKeepsTiles ==
  ASSUME NEW b, NEW base \in Nat, NEW top \in Nat, NEW at \in DOMAIN b, NEW need \in Nat,
         Headers(b), Tiles(b, base, top), need >= SMALLEST, b[at].size >= need
  PROVE  Headers(take(b, at, need)) /\ Tiles(take(b, at, need), base, top)
<1>1. CASE ~(b[at].size >= need + HEADER + SMALLEST)
  BY Zenon, <1>1, MarkKeepsTiles DEF take, Splits
<1>2. CASE b[at].size >= need + HEADER + SMALLEST
  <2> DEFINE w == take(b, at, need)
             rest == at + HEADER + need
             end == EndOf(b, at)
  <2>1. /\ at \in Nat /\ rest \in Nat /\ end \in Nat /\ b[at].size \in Nat
        /\ end = at + HEADER + b[at].size
        /\ at < rest /\ rest + HEADER + SMALLEST <= end
    BY <1>2 DEF Headers, EndOf, HEADER, SMALLEST
  <2>2. DOMAIN w = DOMAIN b \cup {rest}
    BY <1>2 DEF take, Splits, write_header
  <2>3. w[at].size = need /\ w[rest].size = b[at].size - need - HEADER
    BY <1>2, <2>1 DEF take, Splits, write_header
  <2>4. \A a \in DOMAIN b : a # at /\ a # rest => w[a] = b[a]
    BY <1>2 DEF take, Splits, write_header
  <2>5. rest \notin DOMAIN b
    BY <2>1 DEF Tiles, HEADER, SMALLEST
  <2> HIDE DEF w, rest, end
  <2>6. Headers(w)
    BY <1>2, <2>1, <2>2, <2>3, <2>4 DEF Headers, HEADER, SMALLEST
  <2>7. /\ EndOf(w, at) = rest /\ EndOf(w, rest) = end
        /\ \A a \in DOMAIN b : a # at => EndOf(w, a) = EndOf(b, a)
    BY <1>2, <2>1, <2>3, <2>4, <2>5 DEF EndOf, HEADER, SMALLEST, rest
  <2>8. /\ base \in DOMAIN w \cup {top}
        /\ end \in DOMAIN b \cup {top} /\ end <= top /\ base <= at
    BY <2>2 DEF Tiles, end
  <2>9. \A c \in (DOMAIN w \cup {top}) \ {base} : \E a \in DOMAIN w : EndOf(w, a) = c
    <3> SUFFICES ASSUME NEW c \in (DOMAIN w \cup {top}) \ {base}
                 PROVE  \E a \in DOMAIN w : EndOf(w, a) = c
      OBVIOUS
    <3>1. CASE c = rest
      BY <2>2, <2>7, <3>1
    <3>2. CASE c # rest
      <4>1. PICK a \in DOMAIN b : EndOf(b, a) = c
        BY <2>2, <3>2 DEF Tiles
      <4>2. CASE a = at
        BY <2>2, <2>7, <4>1, <4>2 DEF end
      <4>3. CASE a # at
        BY <2>2, <2>7, <4>1, <4>3
      <4> QED BY <4>2, <4>3
    <3> QED BY <3>1, <3>2
  <2>10. ASSUME NEW a \in DOMAIN w
         PROVE  /\ base <= a /\ EndOf(w, a) <= top
                /\ w[a].size >= SMALLEST
                /\ EndOf(w, a) \in DOMAIN w \cup {top}
                /\ \A c \in DOMAIN w : a < c => EndOf(w, a) <= c
    <3>1. \A c \in DOMAIN b : c \in Nat /\ (at < c => end <= c) /\ (c < at => EndOf(b, c) <= at)
      BY DEF Tiles, Headers, end
    <3>2. CASE a = at
      BY <2>1, <2>2, <2>3, <2>7, <2>8, <3>1, <3>2 DEF HEADER, SMALLEST
    <3>3. CASE a = rest
      <4>1. w[rest].size >= SMALLEST
        BY <1>2, <2>1, <2>3 DEF HEADER, SMALLEST
      <4>2. \A c \in DOMAIN w : rest < c => end <= c
        BY <2>1, <2>2, <3>1
      <4> QED BY <2>1, <2>2, <2>7, <2>8, <3>3, <4>1, <4>2
    <3>4. CASE a # at /\ a # rest
      <4>1. a \in DOMAIN b /\ EndOf(w, a) = EndOf(b, a) /\ w[a].size = b[a].size
        BY <2>2, <2>4, <2>7, <3>4
      <4>2. a \in Nat /\ EndOf(b, a) \in Nat
        BY <4>1 DEF Headers, EndOf, HEADER
      <4>3. a < rest => EndOf(b, a) <= rest
        <5> SUFFICES ASSUME a < rest PROVE EndOf(b, a) <= rest
          OBVIOUS
        <5>1. ~(at < a)
          BY <2>1, <3>1, <4>1, <4>2 DEF HEADER, SMALLEST
        <5> QED BY <2>1, <3>1, <3>4, <4>1, <4>2, <5>1
      <4>4. /\ base <= a /\ EndOf(b, a) <= top /\ b[a].size >= SMALLEST
            /\ EndOf(b, a) \in DOMAIN b \cup {top}
            /\ \A c \in DOMAIN b : a < c => EndOf(b, a) <= c
        BY <4>1 DEF Tiles
      <4> QED BY <2>2, <4>1, <4>3, <4>4
    <3> QED BY <3>2, <3>3, <3>4
  <2>11. Tiles(w, base, top)
    BY <2>8, <2>9, <2>10 DEF Tiles
  <2> QED BY <2>6, <2>11 DEF w
<1> QED BY <1>1, <1>2

(* The last block of a tiling ends at its top, and the others before it. *)
LEMMA LastBlock ==
  ASSUME NEW b, NEW base \in Nat, NEW top \in Nat, Headers(b), Tiles(b, base, top)
  PROVE  LET last == last_block(b, top)
         IN  /\ top # base => last # None
             /\ last # None => /\ last \in DOMAIN b /\ EndOf(b, last) = top
                               /\ \A a \in DOMAIN b : a # last => EndOf(b, a) <= last
<1> DEFINE last == last_block(b, top)
<1>1. None \notin DOMAIN b
  BY DEF Headers, None
<1>2. top # base => \E a \in DOMAIN b : EndOf(b, a) = top
  BY DEF Tiles
<1>3. (\E a \in DOMAIN b : EndOf(b, a) = top) => last \in DOMAIN b /\ EndOf(b, last) = top
  BY DEF last_block
<1>4. last # None => \E a \in DOMAIN b : EndOf(b, a) = top
  BY DEF last_block
<1> HIDE DEF last
<1>5. ASSUME last \in DOMAIN b, EndOf(b, last) = top, NEW a \in DOMAIN b, a # last
      PROVE  EndOf(b, a) <= last
  <2>1. a \in Nat /\ last \in Nat /\ a < EndOf(b, a) /\ EndOf(b, a) \in Nat
    BY <1>5 DEF Headers, EndOf, HEADER
  <2>2. EndOf(b, a) <= top /\ (last < a => EndOf(b, last) <= a) /\ (a < last => EndOf(b, a) <= last)
    BY <1>5 DEF Tiles
  <2> QED BY <1>5, <2>1, <2>2
<1> QED BY <1>1, <1>2, <1>3, <1>4, <1>5 DEF last

(* New pages extend the tiling: the last block grows, or a new one starts. *)
LEMMA ExtendKeepsTiles ==
  ASSUME NEW b, NEW base \in Nat, NEW start \in Nat, NEW end \in Nat,
         Headers(b), Tiles(b, base, start), base <= start,
         start + HEADER + SMALLEST <= end
  PROVE  Headers(extend(b, start, end)) /\ Tiles(extend(b, start, end), base, end)
<1> DEFINE tail == last_block(b, start)
           w == extend(b, start, end)
<1>1. /\ start # base => tail # None
      /\ tail # None => /\ tail \in DOMAIN b /\ EndOf(b, tail) = start
                        /\ \A a \in DOMAIN b : a # tail => EndOf(b, a) <= tail
  BY LastBlock
<1>2. \A a \in DOMAIN b : /\ a \in Nat /\ b[a].size \in Nat /\ base <= a
                          /\ EndOf(b, a) = a + HEADER + b[a].size
                          /\ EndOf(b, a) <= start /\ b[a].size >= SMALLEST
                          /\ \A c \in DOMAIN b : a < c => EndOf(b, a) <= c
  BY DEF Headers, Tiles, EndOf
<1>3. CASE tail # None /\ ~b[tail].used
  <2>1. DOMAIN w = DOMAIN b /\ w[tail].size = b[tail].size + (end - start)
    BY <1>1, <1>3 DEF extend, write_header
  <2>2. \A a \in DOMAIN b : a # tail => w[a] = b[a]
    BY <1>3 DEF extend, write_header
  <2> HIDE DEF w, tail
  <2>3. /\ EndOf(w, tail) = end
        /\ \A a \in DOMAIN b : a # tail => EndOf(w, a) = EndOf(b, a)
    BY <1>1, <1>2, <1>3, <2>1, <2>2 DEF EndOf, HEADER
  <2>4. Headers(w)
    BY <1>1, <1>2, <1>3, <2>1, <2>2 DEF Headers, HEADER, SMALLEST
  <2>5. start \notin DOMAIN b
    BY <1>2 DEF HEADER, SMALLEST
  <2>6. \A a \in DOMAIN b : a # tail => EndOf(b, a) \in DOMAIN b
    BY <1>1, <1>2, <1>3 DEF Tiles, HEADER, SMALLEST
  <2>7. base \in DOMAIN b
    BY <1>1, <1>2, <1>3 DEF Tiles, HEADER, SMALLEST
  <2>8. \A c \in (DOMAIN w \cup {end}) \ {base} : \E a \in DOMAIN w : EndOf(w, a) = c
    <3> SUFFICES ASSUME NEW c \in (DOMAIN w \cup {end}) \ {base}
                 PROVE  \E a \in DOMAIN w : EndOf(w, a) = c
      OBVIOUS
    <3>1. CASE c = end
      BY <1>1, <1>3, <2>1, <2>3, <3>1
    <3>2. CASE c # end
      <4>1. PICK a \in DOMAIN b : EndOf(b, a) = c
        BY <2>1, <3>2 DEF Tiles
      <4> QED BY <1>1, <1>3, <2>1, <2>3, <2>5, <3>2, <4>1
    <3> QED BY <3>1, <3>2
  <2>9. \A a \in DOMAIN w :
          /\ base <= a /\ EndOf(w, a) <= end
          /\ w[a].size >= SMALLEST
          /\ EndOf(w, a) \in DOMAIN w \cup {end}
          /\ \A c \in DOMAIN w : a < c => EndOf(w, a) <= c
    <3> SUFFICES ASSUME NEW a \in DOMAIN b
                 PROVE  /\ base <= a /\ EndOf(w, a) <= end
                        /\ w[a].size >= SMALLEST
                        /\ EndOf(w, a) \in DOMAIN b \cup {end}
                        /\ \A c \in DOMAIN b : a < c => EndOf(w, a) <= c
      BY <2>1
    <3>1. CASE a = tail
      BY <1>1, <1>2, <1>3, <2>1, <2>3, <3>1 DEF HEADER, SMALLEST
    <3>2. CASE a # tail
      BY <1>2, <2>2, <2>3, <2>6, <3>2 DEF HEADER, SMALLEST
    <3> QED BY <3>1, <3>2
  <2>10. Tiles(w, base, end)
    BY <2>1, <2>7, <2>8, <2>9 DEF Tiles
  <2> QED BY <2>4, <2>10 DEF w
<1>4. CASE ~(tail # None /\ ~b[tail].used)
  <2>1. DOMAIN w = DOMAIN b \cup {start} /\ w[start].size = (end - start) - HEADER
    BY <1>4 DEF extend, write_header
  <2>2. \A a \in DOMAIN b : a # start => w[a] = b[a]
    BY <1>4 DEF extend, write_header
  <2>3. start \notin DOMAIN b
    BY <1>2 DEF HEADER, SMALLEST
  <2> HIDE DEF w, tail
  <2>4. /\ EndOf(w, start) = end
        /\ \A a \in DOMAIN b : EndOf(w, a) = EndOf(b, a)
    BY <2>1, <2>2, <2>3 DEF EndOf, HEADER
  <2>5. Headers(w)
    BY <1>2, <2>1, <2>2 DEF Headers, HEADER, SMALLEST
  <2>6. base \in DOMAIN w
    BY <2>1 DEF Tiles
  <2>7. \A c \in (DOMAIN w \cup {end}) \ {base} : \E a \in DOMAIN w : EndOf(w, a) = c
    BY <2>1, <2>4 DEF Tiles
  <2>8. \A a \in DOMAIN w :
          /\ base <= a /\ EndOf(w, a) <= end
          /\ w[a].size >= SMALLEST
          /\ EndOf(w, a) \in DOMAIN w \cup {end}
          /\ \A c \in DOMAIN w : a < c => EndOf(w, a) <= c
    <3> SUFFICES ASSUME NEW a \in DOMAIN w
                 PROVE  /\ base <= a /\ EndOf(w, a) <= end
                        /\ w[a].size >= SMALLEST
                        /\ EndOf(w, a) \in DOMAIN w \cup {end}
                        /\ \A c \in DOMAIN w : a < c => EndOf(w, a) <= c
      OBVIOUS
    <3>1. CASE a = start
      BY <1>2, <2>1, <2>4, <3>1 DEF HEADER, SMALLEST
    <3>2. CASE a # start
      <4>1. EndOf(b, a) \in DOMAIN b \cup {start}
        BY <2>1, <3>2 DEF Tiles
      <4> QED BY <1>2, <2>1, <2>2, <2>4, <3>2, <4>1 DEF HEADER, SMALLEST
    <3> QED BY <3>1, <3>2
  <2>9. Tiles(w, base, end)
    BY <2>6, <2>7, <2>8 DEF Tiles
  <2> QED BY <2>5, <2>9 DEF w
<1> QED BY <1>3, <1>4

(* Cutting or dropping the last block lowers the top of the tiling. *)
LEMMA TrimKeepsTiles ==
  ASSUME NEW b, NEW base \in Nat, NEW top \in Nat, NEW target \in Nat,
         Headers(b), Tiles(b, base, top), top # base,
         \/ target = last_block(b, top)
         \/ last_block(b, top) + HEADER + SMALLEST <= target
  PROVE  LET w == trim(b, last_block(b, top), target)
         IN  Headers(w) /\ Tiles(w, base, target)
<1> DEFINE last == last_block(b, top)
           w == trim(b, last, target)
<1>1. /\ last \in DOMAIN b /\ EndOf(b, last) = top
      /\ \A a \in DOMAIN b : a # last => EndOf(b, a) <= last
  BY LastBlock
<1>2. \A a \in DOMAIN b : /\ a \in Nat /\ b[a].size \in Nat /\ base <= a
                          /\ EndOf(b, a) = a + HEADER + b[a].size
                          /\ EndOf(b, a) <= top /\ b[a].size >= SMALLEST
                          /\ \A c \in DOMAIN b : a < c => EndOf(b, a) <= c
  BY DEF Headers, Tiles, EndOf
<1>3. \A a \in DOMAIN b : a # last => EndOf(b, a) \in DOMAIN b
  BY <1>1, <1>2 DEF Tiles, HEADER, SMALLEST
<1>4. base \in DOMAIN b
  BY DEF Tiles
<1>5. CASE target = last
  <2> HIDE DEF last
  <2>0. w = Forget(b, last)
    <3>1. ~(target > last)
      BY <1>1, <1>2, <1>5
    <3> QED BY <3>1 DEF trim
  <2>1. DOMAIN w = DOMAIN b \ {last}
    BY <2>0 DEF Forget
  <2>2. \A a \in DOMAIN w : w[a] = b[a]
    BY <2>0 DEF Forget
  <2> HIDE DEF w, last
  <2>3. \A a \in DOMAIN w : EndOf(w, a) = EndOf(b, a)
    BY <2>2 DEF EndOf
  <2>4. Headers(w)
    BY <1>2, <2>1, <2>2 DEF Headers
  <2>5. \A c \in (DOMAIN w \cup {target}) \ {base} : \E a \in DOMAIN w : EndOf(w, a) = c
    <3> SUFFICES ASSUME NEW c \in (DOMAIN w \cup {target}) \ {base}
                 PROVE  \E a \in DOMAIN w : EndOf(w, a) = c
      OBVIOUS
    <3>1. PICK a \in DOMAIN b : EndOf(b, a) = c
      BY <1>1, <1>5, <2>1 DEF Tiles
    <3>2. a # last
      BY <1>1, <1>2, <1>5, <2>1, <3>1 DEF HEADER, SMALLEST
    <3> QED BY <2>1, <2>3, <3>1, <3>2
  <2>6. \A a \in DOMAIN w :
          /\ base <= a /\ EndOf(w, a) <= target
          /\ w[a].size >= SMALLEST
          /\ EndOf(w, a) \in DOMAIN w \cup {target}
          /\ \A c \in DOMAIN w : a < c => EndOf(w, a) <= c
    BY <1>1, <1>2, <1>3, <1>5, <2>1, <2>2, <2>3
  <2>7. Tiles(w, base, target)
    BY <1>4, <1>5, <2>1, <2>5, <2>6 DEF Tiles
  <2> QED BY <2>4, <2>7 DEF w, last
<1>6. CASE last + HEADER + SMALLEST <= target
  <2> HIDE DEF last
  <2>0. target > last
    BY <1>1, <1>2, <1>6 DEF HEADER, SMALLEST
  <2>1. target > last /\ DOMAIN w = DOMAIN b /\ w[last].size = target - last - HEADER
    BY <1>1, <2>0 DEF trim, write_header
  <2>2. \A a \in DOMAIN b : a # last => w[a] = b[a]
    BY <2>1 DEF trim, write_header
  <2> HIDE DEF w, last
  <2>3. /\ EndOf(w, last) = target
        /\ \A a \in DOMAIN b : a # last => EndOf(w, a) = EndOf(b, a)
    BY <1>1, <1>2, <2>1, <2>2 DEF EndOf, HEADER
  <2>4. Headers(w)
    BY <1>1, <1>2, <1>6, <2>1, <2>2 DEF Headers, HEADER, SMALLEST
  <2>5. \A c \in (DOMAIN w \cup {target}) \ {base} : \E a \in DOMAIN w : EndOf(w, a) = c
    <3> SUFFICES ASSUME NEW c \in (DOMAIN w \cup {target}) \ {base}
                 PROVE  \E a \in DOMAIN w : EndOf(w, a) = c
      OBVIOUS
    <3>1. CASE c = target
      BY <1>1, <2>1, <2>3, <3>1
    <3>2. CASE c # target
      <4>1. PICK a \in DOMAIN b : EndOf(b, a) = c
        BY <2>1, <3>2 DEF Tiles
      <4>2. a # last
        BY <1>1, <1>2, <2>1, <3>2, <4>1 DEF HEADER, SMALLEST
      <4> QED BY <2>1, <2>3, <4>1, <4>2
    <3> QED BY <3>1, <3>2
  <2>6. \A a \in DOMAIN w :
          /\ base <= a /\ EndOf(w, a) <= target
          /\ w[a].size >= SMALLEST
          /\ EndOf(w, a) \in DOMAIN w \cup {target}
          /\ \A c \in DOMAIN w : a < c => EndOf(w, a) <= c
    <3> SUFFICES ASSUME NEW a \in DOMAIN b
                 PROVE  /\ base <= a /\ EndOf(w, a) <= target
                        /\ w[a].size >= SMALLEST
                        /\ EndOf(w, a) \in DOMAIN b \cup {target}
                        /\ \A c \in DOMAIN b : a < c => EndOf(w, a) <= c
      BY <2>1
    <3>1. CASE a = last
      <4>1. \A c \in DOMAIN b : ~(last < c)
        BY <1>1, <1>2 DEF HEADER, SMALLEST
      <4> QED BY <1>1, <1>2, <1>6, <2>1, <2>3, <3>1, <4>1 DEF HEADER, SMALLEST
    <3>2. CASE a # last
      BY <1>1, <1>2, <1>3, <2>1, <2>2, <2>3, <3>2 DEF HEADER, SMALLEST
    <3> QED BY <3>1, <3>2
  <2>7. Tiles(w, base, target)
    BY <1>4, <2>1, <2>5, <2>6 DEF Tiles
  <2> QED BY <2>4, <2>7 DEF w, last
<1> QED BY <1>5, <1>6

-----------------------------------------------------------------------------

(* One heap in order: its headers, its bounds, its tiling. *)
HeapOK(h) ==
  /\ Headers(blk[h])
  /\ Top(h) \in Nat /\ Base[h] <= Top(h)
  /\ Tiles(blk[h], Base[h], Top(h))

(***************************************************************************)
(* The inductive invariant: every heap is in order; a search stands on a   *)
(* block or at the break and looks for at least SMALLEST bytes; grow       *)
(* started at the break and has added nothing or at least a page.          *)
(***************************************************************************)
TilingInv ==
  /\ call \in Calls
  /\ brk \in [Heaps -> Nat]
  /\ DOMAIN blk = Heaps
  /\ \A h \in Heaps : HeapOK(h)
  /\ call.pc = "fit" => /\ call.at \in Blocks(call.heap) \cup {brk[call.heap]}
                        /\ call.need >= SMALLEST
  /\ call.pc = "grow" => /\ call.start = brk[call.heap]
                         /\ call.at = call.start \/ call.start + PAGE_SIZE <= call.at
                         /\ call.op = "alloc" => call.need >= SMALLEST

LEMMA RoundedUp ==
  ASSUME NEW size \in Nat
  PROVE  round_up(size) \in Nat /\ round_up(size) >= SMALLEST /\ round_up(size) >= size
BY DEF round_up, SMALLEST, ALIGN

LEMMA PagesForNat ==
  ASSUME NEW bytes \in Nat
  PROVE  PagesFor(bytes) \in Nat /\ PagesFor(bytes) * PAGE_SIZE \in Nat
<1>1. PAGE_SIZE \in Nat /\ PAGE_SIZE > 0 /\ bytes + PAGE_SIZE - 1 \in Nat
  BY PageSizeAssumption
<1>2. \A x, y \in Nat : y > 0 => x \div y \in Nat
  OBVIOUS
<1>3. \A x, y \in Nat : x * y \in Nat
  OBVIOUS
<1> QED BY <1>1, <1>2, <1>3 DEF PagesFor

LEMMA OopsText ==
  ASSUME NEW p, NEW m, NEW h, NEW at
  PROVE  grow_page(p, m, h, at).oops \in Messages \cup {"none"}
<1> DEFINE got    == frame_for(p, h, at)
           mapped == map_page(got.pmm, m, at, got.frame, KERNEL_PAGE)
<1>1. mapped.oops \in {"kernel space", "no frame for the table", "mapped already", "none"}
  <2> HIDE DEF got
  <2> QED BY DEF map_page, set_page, Refuse
<1> HIDE DEF mapped
<1>2. grow_page(p, m, h, at).oops \in {"end of range", "no memory", "none", mapped.oops}
  BY DEF grow_page, mapped
<1> QED BY Zenon, <1>1, <1>2 DEF Messages

(* What a search that stands on a block may assume. *)
LEMMA SearchStandsOnBlock ==
  ASSUME TilingInv, OnBlock
  PROVE  /\ call.heap \in Heaps /\ Top(call.heap) = brk[call.heap]
         /\ call.at \in Blocks(call.heap)
         /\ Following \in Blocks(call.heap) \cup {brk[call.heap]}
         /\ Mergeable => Following \in Blocks(call.heap)
<1>1. /\ call.heap \in Heaps /\ Top(call.heap) = brk[call.heap]
      /\ brk[call.heap] \in Nat /\ call.at \in Nat
  BY DEF TilingInv, OnBlock, Top, Calls
<1>2. call.at \in Blocks(call.heap)
  BY <1>1 DEF TilingInv, OnBlock, HEADER
<1>3. Following \in Blocks(call.heap) \cup {brk[call.heap]}
  BY <1>1, <1>2 DEF TilingInv, HeapOK, Tiles, Blocks, Following
<1>4. Mergeable => Following # brk[call.heap]
  BY <1>1 DEF Mergeable, HEADER
<1> QED BY <1>1, <1>2, <1>3, <1>4

(* A heap whose headers and top stay is in order after the step. *)
LEMMA HeapKept ==
  ASSUME TilingInv, NEW h \in Heaps, blk'[h] = blk[h], Top(h)' = Top(h)
  PROVE  HeapOK(h)'
<1>1. HeapOK(h)
  BY DEF TilingInv
<1> QED BY SMTT(30), <1>1 DEF HeapOK, Headers, Tiles, EndOf

(* A step that changes only call, and not in or out of shrink. *)
LEMMA HeapsStay ==
  ASSUME TilingInv, UNCHANGED <<brk, blk>>, call.pc # "shrink", call'.pc # "shrink"
  PROVE  /\ brk' \in [Heaps -> Nat] /\ DOMAIN blk' = Heaps
         /\ \A h \in Heaps : HeapOK(h)'
<1>1. \A h \in Heaps : Top(h)' = Top(h)
  BY DEF Top
<1>2. \A h \in Heaps : HeapOK(h)'
  <2> SUFFICES ASSUME NEW h \in Heaps PROVE HeapOK(h)'
    OBVIOUS
  <2>1. blk'[h] = blk[h]
    OBVIOUS
  <2> QED BY <1>1, <2>1, HeapKept
<1> QED BY <1>2 DEF TilingInv

(* A step that changes the headers of one heap. *)
LEMMA OneHeapChanges ==
  ASSUME TilingInv, NEW h \in Heaps, DOMAIN blk' = Heaps, brk' \in [Heaps -> Nat],
         \A k \in Heaps : k # h => blk'[k] = blk[k] /\ Top(k)' = Top(k),
         Top(h)' \in Nat, Base[h] <= Top(h)',
         Headers(blk'[h]), Tiles(blk'[h], Base[h], Top(h)')
  PROVE  \A k \in Heaps : HeapOK(k)'
<1> SUFFICES ASSUME NEW k \in Heaps PROVE HeapOK(k)'
  OBVIOUS
<1>1. CASE k = h
  BY SMTT(30), <1>1 DEF HeapOK, Headers, Tiles, EndOf
<1>2. CASE k # h
  BY <1>2, HeapKept
<1> QED BY <1>1, <1>2

(* The records of the calls keep their type. *)
LEMMA Entered ==
  ASSUME NEW op \in {"alloc", "brk", "free"}, NEW h \in Heaps, NEW arg \in Int,
         brk \in [Heaps -> Nat]
  PROVE  /\ Enter(op, h, arg) \in Calls
         /\ Enter(op, h, arg).pc = "idle" /\ Enter(op, h, arg).heap = h
         /\ Enter(op, h, arg).op = op /\ Enter(op, h, arg).was = brk[h]
BY DEF Enter, Idle, Calls, Null

LEMMA Returned ==
  ASSUME NEW c \in Calls, NEW ret \in Nat
  PROVE  Return(c, ret) \in Calls /\ Return(c, ret).pc = "idle"
BY DEF Return, Idle, Calls

LEMMA Oopsed ==
  ASSUME NEW c \in Calls, NEW why \in Messages
  PROVE  /\ Oops(c, why) \in Calls
         /\ \A f \in {"pc", "op", "heap", "at", "start", "need"} : Oops(c, why)[f] = c[f]
BY DEF Oops, Calls

LEMMA TilingStart == Init => TilingInv
<1> SUFFICES ASSUME Init PROVE TilingInv
  OBVIOUS
<1>1. call \in Calls /\ call.pc = "idle"
  <2>1. \E h \in Heaps : call = Idle("none", h, 0, 0, Null, {})
    BY Zenon, HeapAssumption DEF Init
  <2> QED BY SMTT(30), <2>1 DEF Idle, Calls, Null
<1>2. brk \in [Heaps -> Nat] /\ DOMAIN blk = Heaps
  BY HeapAssumption DEF Init
<1>3. \A h \in Heaps : HeapOK(h)
  <2> SUFFICES ASSUME NEW h \in Heaps PROVE HeapOK(h)
    OBVIOUS
  <2>1. Top(h) = Base[h] /\ Base[h] \in Nat
    BY <1>1, HeapAssumption DEF Init, Top
  <2>2. DOMAIN blk[h] = {}
    BY DEF Init
  <2> QED BY <2>1, <2>2 DEF HeapOK, Headers, Tiles
<1> QED BY <1>1, <1>2, <1>3 DEF TilingInv

(* The steps of a call, and its first step. *)
LEMMA TilingStep ==
  ASSUME TilingInv, [Next]_vars
  PROVE  TilingInv'
<1>0. /\ call.heap \in Heaps /\ call.at \in Nat /\ call.start \in Nat /\ call.need \in Nat
      /\ brk \in [Heaps -> Nat] /\ DOMAIN blk = Heaps
  BY DEF TilingInv, Calls
<1>1. ASSUME NEW h \in Heaps, NEW want \in Wants, Alloc(h, want) PROVE TilingInv'
  <2>1. want \in Nat /\ round_up(want) \in Nat /\ round_up(want) >= SMALLEST
    BY HeapAssumption, RoundedUp
  <2> DEFINE c == Enter("alloc", h, want)
             begun == [c EXCEPT !.pc = "fit", !.need = round_up(want), !.at = Base[h]]
  <2>2. c \in Calls /\ c.heap = h
    BY <1>0, <2>1, Entered
  <2>3. call' \in {Return(c, Null), Return(Oops(c, "too big"), Null), begun}
    BY Zenon, <1>1 DEF Alloc
  <2>7. /\ Return(c, Null) \in Calls /\ Return(c, Null).pc = "idle"
        /\ Return(Oops(c, "too big"), Null) \in Calls
        /\ Return(Oops(c, "too big"), Null).pc = "idle"
    <3> HIDE DEF c
    <3>1. "too big" \in Messages /\ Null \in Nat
      BY DEF Null, Messages
    <3>2. Oops(c, "too big") \in Calls
      BY Zenon, <2>2, <3>1, Oopsed
    <3> QED BY Zenon, <2>2, <3>1, <3>2, Returned
  <2> HIDE DEF c
  <2>8. /\ begun \in Calls /\ begun.pc = "fit" /\ begun.heap = h
        /\ begun.at = Base[h] /\ begun.need >= SMALLEST
    BY Zenon, <2>1, <2>2, HeapAssumption DEF Calls
  <2> HIDE DEF begun
  <2>9. /\ call' \in Calls /\ call'.pc \in {"idle", "fit"}
        /\ call'.pc = "fit" => call' = begun
    BY Zenon, <2>3, <2>7, <2>8
  <2>4. call.pc = "idle" /\ UNCHANGED <<brk, blk>>
    BY Zenon, <1>1 DEF Alloc
  <2>5. \A k \in Heaps : Base[k] \in Blocks(k) \cup {brk[k]}
    BY <2>4 DEF TilingInv, HeapOK, Tiles, Blocks, Top
  <2>6. call'.pc = "fit" => /\ call'.at \in (Blocks(call.heap) \cup {brk[call.heap]})'
                            /\ call'.need >= SMALLEST
    BY <2>8, <2>9, <2>4, <2>5 DEF Blocks
  <2> QED BY <2>9, <2>4, <2>6, HeapsStay DEF TilingInv
<1>2. CASE FitAbsorb
  <2> DEFINE H == call.heap
             b == blk[H]
  <2>1. /\ H \in Heaps /\ Top(H) = brk[H] /\ call.at \in DOMAIN b
        /\ EndOf(b, call.at) \in DOMAIN b
    BY <1>2, SearchStandsOnBlock DEF FitAbsorb, Blocks, Following
  <2>2. /\ UNCHANGED <<brk, call>> /\ call.pc = "fit" /\ DOMAIN blk' = Heaps
        /\ blk'[H] = absorb(b, call.at) /\ \A k \in Heaps : k # H => blk'[k] = blk[k]
    BY SMTT(30), <1>0, <1>2 DEF FitAbsorb, OnBlock
  <2>3. /\ Headers(b) /\ Tiles(b, Base[H], brk[H]) /\ Base[H] \in Nat /\ brk[H] \in Nat
    <3>1. HeapOK(H)
      BY <2>1 DEF TilingInv
    <3> QED BY SMTT(30), <1>0, <2>1, <3>1, HeapAssumption DEF HeapOK
  <2>4. /\ Headers(blk'[H]) /\ Tiles(blk'[H], Base[H], brk[H])
        /\ DOMAIN blk'[H] = DOMAIN b \ {EndOf(b, call.at)}
    <3>1. /\ Headers(absorb(b, call.at)) /\ Tiles(absorb(b, call.at), Base[H], brk[H])
          /\ DOMAIN absorb(b, call.at) = DOMAIN b \ {EndOf(b, call.at)}
      BY Zenon, <2>1, <2>3, AbsorbKeepsTiles
    <3> QED BY <2>2, <3>1
  <2>5. \A k \in Heaps : Top(k)' = Top(k)
    BY <2>2 DEF Top
  <2>6. \A k \in Heaps : HeapOK(k)'
    BY ZenonT(40), <1>0, <2>1, <2>2, <2>3, <2>4, <2>5, OneHeapChanges DEF TilingInv, HeapOK
  <2>7. call'.at \in Blocks(H)'
    <3>1. call.at # EndOf(b, call.at)
      BY <1>0, <2>1, <2>3 DEF Headers, EndOf, HEADER
    <3> QED BY <2>1, <2>2, <2>4, <3>1 DEF Blocks
  <2> QED BY SMTT(30), <1>0, <2>2, <2>6, <2>7 DEF TilingInv
<1>3. CASE FitSkip
  <2>1. /\ UNCHANGED <<brk, blk>> /\ call.pc = "fit" /\ call' = [call EXCEPT !.at = Following]
        /\ Following \in Blocks(call.heap) \cup {brk[call.heap]}
    BY <1>3, SearchStandsOnBlock DEF FitSkip, OnBlock
  <2>2. Following \in Nat
    BY <1>0, <2>1 DEF TilingInv, HeapOK, Headers, Blocks
  <2>3. call' \in Calls /\ call'.pc = "fit" /\ call'.need >= SMALLEST /\ call'.at = Following
        /\ call'.heap = call.heap
    BY <2>1, <2>2 DEF TilingInv, Calls
  <2> QED BY <2>1, <2>3, HeapsStay DEF TilingInv, Blocks
<1>4. CASE FitTake
  <2> DEFINE H == call.heap
             b == blk[H]
  <2>1. H \in Heaps /\ Top(H) = brk[H] /\ call.at \in DOMAIN b
    BY <1>4, SearchStandsOnBlock DEF FitTake, Blocks
  <2>2. /\ UNCHANGED brk /\ call.pc = "fit" /\ DOMAIN blk' = Heaps
        /\ call' = Return(call, call.at + HEADER)
        /\ b[call.at].size >= call.need
        /\ blk'[H] = take(b, call.at, call.need) /\ \A k \in Heaps : k # H => blk'[k] = blk[k]
    BY SMTT(30), <1>0, <1>4 DEF FitTake, OnBlock, Here
  <2>3. /\ Headers(b) /\ Tiles(b, Base[H], brk[H]) /\ Base[H] \in Nat /\ brk[H] \in Nat
        /\ call.need >= SMALLEST
    <3>1. HeapOK(H) /\ call.need >= SMALLEST
      BY <2>1, <2>2 DEF TilingInv
    <3> QED BY SMTT(30), <1>0, <2>1, <3>1, HeapAssumption DEF HeapOK
  <2>4. Headers(blk'[H]) /\ Tiles(blk'[H], Base[H], brk[H])
    <3>1. /\ Headers(take(b, call.at, call.need))
          /\ Tiles(take(b, call.at, call.need), Base[H], brk[H])
      BY Zenon, <1>0, <2>1, <2>2, <2>3, TakeKeepsTiles
    <3> QED BY <2>2, <3>1
  <2>5. call' \in Calls /\ call'.pc = "idle"
    <3>1. call \in Calls /\ call.at + HEADER \in Nat
      BY <1>0 DEF TilingInv, HEADER
    <3> QED BY <2>2, <3>1, Returned
  <2>6. \A k \in Heaps : Top(k)' = Top(k)
    BY <2>2, <2>5 DEF Top
  <2>7. \A k \in Heaps : HeapOK(k)'
    BY ZenonT(40), <1>0, <2>1, <2>2, <2>3, <2>4, <2>6, OneHeapChanges DEF TilingInv, HeapOK
  <2> QED BY Zenon, <1>0, <2>2, <2>5, <2>7 DEF TilingInv
<1>5. CASE FitMiss
  <2> DEFINE top == brk[call.heap]
             begun == [call EXCEPT !.pc = "grow", !.left = PagesFor(call.need + HEADER),
                                   !.start = top, !.at = top]
  <2>1. /\ UNCHANGED <<brk, blk>> /\ call.pc = "fit" /\ call'  \in {Return(call, Null), begun}
    BY <1>5 DEF FitMiss
  <2>2. call \in Calls /\ top \in Nat /\ Null \in Nat /\ PagesFor(call.need + HEADER) \in Int
    BY SMTT(30), <1>0, PageSizeAssumption DEF TilingInv, PagesFor, HEADER, Null
  <2>3. Return(call, Null) \in Calls /\ Return(call, Null).pc = "idle"
    BY <2>2, Returned
  <2>4. call.need >= SMALLEST
    BY <2>1 DEF TilingInv
  <2>5. /\ begun \in Calls /\ begun.pc = "grow" /\ begun.start = top /\ begun.at = top
        /\ begun.heap = call.heap /\ begun.need >= SMALLEST
    BY Zenon, <2>2, <2>4 DEF Calls
  <2> HIDE DEF begun
  <2>6. /\ call' \in Calls /\ call'.pc \in {"idle", "grow"}
        /\ call'.pc = "grow" => call' = begun
    BY <2>1, <2>3, <2>5
  <2>7. call'.pc = "grow" => /\ call'.start = brk'[call'.heap] /\ call'.at = call'.start
                             /\ call'.need >= SMALLEST
    BY SMTT(30), <2>1, <2>5, <2>6
  <2> QED BY <2>1, <2>6, <2>7, HeapsStay DEF TilingInv
<1>6. CASE GrowPage
  <2> DEFINE got == grow_page(pmm, mmu, call.heap, call.at)
             went == [call EXCEPT !.at = @ + PAGE_SIZE, !.left = @ - 1]
             quit == [Oops(call, got.oops) EXCEPT !.left = 0]
  <2>1. /\ UNCHANGED <<brk, blk>> /\ call.pc = "grow"
        /\ IF got.oops = "none" THEN call' = went ELSE call' = quit
    BY <1>6 DEF GrowPage
  <2>2. call \in Calls /\ PAGE_SIZE \in Nat
    BY PageSizeAssumption DEF TilingInv
  <2>3. /\ went \in Calls /\ went.pc = "grow" /\ went.at = call.at + PAGE_SIZE
        /\ \A f \in {"heap", "start", "need", "op"} : went[f] = call[f]
    <3>1. call.at + PAGE_SIZE \in Nat /\ call.left - 1 \in Int
      BY <2>2 DEF Calls
    <3>2. went = [call EXCEPT !.at = call.at + PAGE_SIZE, !.left = call.left - 1]
      BY <2>2 DEF Calls
    <3> HIDE DEF went
    <3> QED BY Zenon, <2>1, <2>2, <3>1, <3>2 DEF Calls
  <2>4. ASSUME got.oops # "none"
        PROVE  /\ quit \in Calls /\ quit.pc = "grow"
               /\ \A f \in {"at", "heap", "start", "need", "op"} : quit[f] = call[f]
    <3>1. got.oops \in Messages
      BY <2>4, OopsText
    <3> HIDE DEF got
    <3>2. /\ Oops(call, got.oops) \in Calls
          /\ \A f \in {"pc", "op", "heap", "at", "start", "need"} :
               Oops(call, got.oops)[f] = call[f]
      BY <2>2, <3>1, Oopsed
    <3> QED BY <2>1, <3>2 DEF Calls
  <2> HIDE DEF got, went, quit
  <2>5. /\ call' \in Calls /\ call'.pc = "grow"
        /\ \A f \in {"heap", "start", "need", "op"} : call'[f] = call[f]
        /\ call'.at = call.at \/ call'.at = call.at + PAGE_SIZE
    BY <2>1, <2>3, <2>4
  <2>6. /\ call.start = brk[call.heap]
        /\ call.at = call.start \/ call.start + PAGE_SIZE <= call.at
        /\ call.op = "alloc" => call.need >= SMALLEST
    BY <2>1 DEF TilingInv
  <2>7. /\ call'.start = brk'[call'.heap]
        /\ call'.at = call'.start \/ call'.start + PAGE_SIZE <= call'.at
        /\ call'.op = "alloc" => call'.need >= SMALLEST
    BY <1>0, <2>1, <2>2, <2>5, <2>6
  <2> QED BY <2>1, <2>5, <2>7, HeapsStay DEF TilingInv
<1>7. CASE GrowEnd
  <2> DEFINE H == call.heap
             again == [call EXCEPT !.pc = "fit", !.at = Base[call.heap],
                                   !.start = 0, !.tries = 1]
  <2>1. call \in Calls /\ call.was \in Nat /\ Null \in Nat /\ call.pc = "grow"
    BY <1>7 DEF TilingInv, Calls, Null, GrowEnd
  <2>2. /\ Return(call, Null) \in Calls /\ Return(call, Null).pc = "idle"
        /\ Return(call, call.was) \in Calls /\ Return(call, call.was).pc = "idle"
    BY SMTT(30), <2>1, Returned
  <2>3. CASE call.at = call.start
    <3>1. call' = Return(call, Null) /\ UNCHANGED <<brk, blk>>
      BY <1>7, <2>3 DEF GrowEnd
    <3>2. call' \in Calls /\ call'.pc = "idle"
      BY SMTT(30), <2>2, <3>1
    <3> QED BY <2>1, <3>1, <3>2, HeapsStay DEF TilingInv
  <2>4. CASE call.at # call.start
    <3>1. /\ brk' = [brk EXCEPT ![H] = call.at]
          /\ blk' = [blk EXCEPT ![H] = extend(blk[H], call.start, call.at)]
          /\ IF call.op = "alloc" THEN call' = again ELSE call' = Return(call, call.was)
      BY <1>7, <2>4 DEF GrowEnd
    <3>2. /\ H \in Heaps /\ brk' \in [Heaps -> Nat] /\ brk'[H] = call.at
          /\ DOMAIN blk' = Heaps /\ blk'[H] = extend(blk[H], call.start, call.at)
          /\ \A k \in Heaps : k # H => blk'[k] = blk[k] /\ brk'[k] = brk[k]
      BY <1>0, <3>1
    <3>3. /\ call.start = brk[H] /\ call.start + PAGE_SIZE <= call.at
          /\ call.op = "alloc" => call.need >= SMALLEST
      BY SMTT(30), <2>1, <2>4 DEF TilingInv
    <3>4. /\ Base[H] \in Nat /\ Headers(blk[H]) /\ Base[H] <= call.start
          /\ Tiles(blk[H], Base[H], call.start)
      BY <2>1, <3>2, <3>3, HeapAssumption DEF TilingInv, HeapOK, Top
    <3>5. call.start + HEADER + SMALLEST <= call.at
      BY SMTT(30), <1>0, <3>3, HeapAssumption, PageSizeAssumption DEF HEADER, SMALLEST
    <3>6. Headers(blk'[H]) /\ Tiles(blk'[H], Base[H], call.at)
      <4>1. /\ Headers(extend(blk[H], call.start, call.at))
            /\ Tiles(extend(blk[H], call.start, call.at), Base[H], call.at)
        BY Zenon, <1>0, <3>4, <3>5, ExtendKeepsTiles
      <4> QED BY <3>2, <4>1
    <3>7. again \in Calls /\ again.pc = "fit" /\ again.at = Base[H] /\ again.heap = H
          /\ again.need = call.need
      BY Zenon, <2>1, <3>4 DEF Calls
    <3> HIDE DEF again
    <3>8. /\ call' \in Calls /\ call'.pc \in {"idle", "fit"}
          /\ call'.pc = "fit" => call' = again /\ call.op = "alloc"
      BY <2>2, <3>1, <3>7
    <3>9. \A k \in Heaps : Top(k)' = brk'[k] /\ Top(k) = brk[k]
      BY <2>1, <3>8 DEF Top
    <3>10. Base[H] <= call.at
      BY SMTT(30), <1>0, <3>4, <3>5 DEF HEADER, SMALLEST
    <3>11. \A k \in Heaps : HeapOK(k)'
      <4>1. PICK h \in Heaps : h = H
        BY <3>2
      <4>2. \A k \in Heaps : k # h => blk'[k] = blk[k] /\ Top(k)' = Top(k)
        BY <3>2, <3>9, <4>1
      <4>3. Top(h)' = call.at
        BY <3>2, <3>9, <4>1
      <4>4. /\ Top(h)' \in Nat /\ Base[h] <= Top(h)'
            /\ Headers(blk'[h]) /\ Tiles(blk'[h], Base[h], Top(h)')
        BY Zenon, <1>0, <3>6, <3>10, <4>1, <4>3
      <4> QED BY Zenon, <3>2, <4>2, <4>4, OneHeapChanges
    <3>12. Base[H] \in DOMAIN blk'[H] \cup {call.at}
      BY <3>6 DEF Tiles
    <3>13. call'.pc = "fit" => /\ call'.at \in (Blocks(call.heap) \cup {brk[call.heap]})'
                               /\ call'.need >= SMALLEST
      BY <3>2, <3>3, <3>7, <3>8, <3>12 DEF Blocks
    <3> QED BY <3>2, <3>8, <3>11, <3>13 DEF TilingInv
  <2> QED BY <2>3, <2>4
<1>8. ASSUME NEW h \in Heaps, NEW pointer \in Pointers, Free(h, pointer) PROVE TilingInv'
  <2> DEFINE c == Enter("free", h, 0)
             block == find_block(blk[h], pointer)
             size == blk[h][block].size
  <2>1. c \in Calls /\ c.pc = "idle"
    BY <1>0, Entered
  <2>2. call.pc = "idle" /\ brk' = brk
    BY Zenon, <1>8 DEF Free
  <2>3. CASE UNCHANGED blk
    <3>1. call' \in {c, Oops(c, "did not come from"), Oops(c, "freed twice")}
      BY Zenon, <1>8 DEF Free
    <3>2. {"did not come from", "freed twice"} \subseteq Messages
      BY DEF Messages
    <3> HIDE DEF c
    <3>3. /\ Oops(c, "did not come from") \in Calls /\ Oops(c, "did not come from").pc = "idle"
          /\ Oops(c, "freed twice") \in Calls /\ Oops(c, "freed twice").pc = "idle"
      BY Zenon, <2>1, <3>2, Oopsed
    <3>4. call' \in Calls /\ call'.pc = "idle"
      BY ZenonT(40), <2>1, <3>1, <3>3
    <3> QED BY <2>2, <2>3, <3>4, HeapsStay DEF TilingInv
  <2>4. CASE /\ block # None /\ call' = c
             /\ blk' = [blk EXCEPT ![h] = write_header(blk[h], block, size, FALSE)]
    <3>1. block \in DOMAIN blk[h]
      BY <2>4 DEF find_block
    <3>2. /\ DOMAIN blk' = Heaps /\ blk'[h] = write_header(blk[h], block, size, FALSE)
          /\ \A k \in Heaps : k # h => blk'[k] = blk[k]
      BY <1>0, <2>4
    <3> HIDE DEF block, c
    <3>3. call' \in Calls /\ call'.pc = "idle"
      BY <2>1, <2>4
    <3>4. \A k \in Heaps : Top(k) = brk[k] /\ Top(k)' = brk[k]
      BY <2>2, <3>3 DEF Top
    <3>5. /\ Headers(blk[h]) /\ Base[h] \in Nat /\ brk[h] \in Nat /\ Base[h] <= brk[h]
          /\ Tiles(blk[h], Base[h], brk[h])
      BY <1>0, <3>4, HeapAssumption DEF TilingInv, HeapOK
    <3>6. Headers(blk'[h]) /\ Tiles(blk'[h], Base[h], brk[h])
      BY Zenon, <3>1, <3>2, <3>5, MarkKeepsTiles
    <3>7. \A k \in Heaps : HeapOK(k)'
      BY ZenonT(40), <1>0, <2>2, <3>2, <3>4, <3>5, <3>6, OneHeapChanges
    <3> QED BY <1>0, <2>2, <3>2, <3>3, <3>7 DEF TilingInv
  <2> QED BY Zenon, <1>8, <2>3, <2>4 DEF Free
<1>9. ASSUME NEW h \in Heaps, NEW delta \in Deltas, Brk(h, delta) PROVE TilingInv'
  <2> DEFINE c == Enter("brk", h, delta)
             begun == [c EXCEPT !.pc = "grow", !.left = PagesFor(delta),
                                !.start = brk[h], !.at = brk[h]]
             bytes == PagesFor(-delta) * PAGE_SIZE
             span == IF bytes < brk[h] - Base[h] THEN bytes ELSE brk[h] - Base[h]
             target == brk[h] - span
             block == last_block(blk[h], brk[h])
             cut == [c EXCEPT !.pc = "shrink", !.at = target, !.start = target]
  <2>1. /\ delta \in Int /\ c \in Calls /\ c.pc = "idle" /\ c.heap = h
        /\ c.op = "brk" /\ c.was = brk[h] /\ brk[h] \in Nat /\ Base[h] \in Nat
    BY <1>0, HeapAssumption, Entered
  <2>2. call.pc = "idle" /\ brk' = brk
    BY <1>9 DEF Brk
  <2>3. CASE delta >= 0
    <3>1. PagesFor(delta) \in Int
      BY <2>1, <2>3, PagesForNat
    <3>2. Return(c, c.was) \in Calls /\ Return(c, c.was).pc = "idle"
      BY <2>1, Returned
    <3>3. call' \in {Return(c, c.was), begun} /\ blk' = blk
      BY <1>9, <2>1, <2>3 DEF Brk
    <3> HIDE DEF c
    <3>4. /\ begun \in Calls /\ begun.pc = "grow" /\ begun.op = "brk" /\ begun.heap = h
          /\ begun.start = brk[h] /\ begun.at = brk[h]
      <4> DEFINE n == brk[h]
                 k == PagesFor(delta)
      <4>1. n \in Nat /\ k \in Int /\ c \in Calls /\ c.op = "brk" /\ c.heap = h
        BY <2>1, <3>1
      <4> HIDE DEF n, k
      <4>2. begun = [c EXCEPT !.pc = "grow", !.left = k, !.start = n, !.at = n]
        BY DEF n, k
      <4> HIDE DEF begun
      <4>3. /\ begun \in Calls /\ begun.pc = "grow" /\ begun.op = "brk" /\ begun.heap = h
            /\ begun.start = n /\ begun.at = n
        BY Zenon, <4>1, <4>2 DEF Calls
      <4> QED BY <4>3 DEF n
    <3> HIDE DEF begun
    <3>5. /\ call' \in Calls /\ call'.pc \in {"idle", "grow"}
          /\ call'.pc = "grow" => call' = begun
      BY <3>2, <3>3, <3>4
    <3>6. call'.pc = "grow" => /\ call'.start = brk'[call'.heap] /\ call'.at = call'.start
                               /\ call'.op = "brk"
      BY <2>2, <3>4, <3>5
    <3> QED BY <2>2, <3>3, <3>5, <3>6, HeapsStay DEF TilingInv
  <2>4. CASE delta < 0
    <3>1. bytes \in Nat
      BY <2>1, <2>4, PagesForNat
    <3>2. BeginShrink(c, h, PagesFor(-delta))
      BY <1>9, <2>1, <2>4 DEF Brk
    <3>3. \/ /\ blk' = blk
             /\ call' \in {Return(c, c.was), Return(Oops(c, "top in use"), Null),
                           Return(Oops(c, "top too small"), Null)}
          \/ /\ span # 0 /\ ~(target < block)
             /\ ~(target > block /\ target < block + HEADER + SMALLEST)
             /\ blk' = [blk EXCEPT ![h] = trim(blk[h], block, target)]
             /\ call' = cut
      <4> DEFINE why == shrink_refusal(blk[h], block, target)
      <4>1. /\ why \in {"none", "top in use", "top too small"}
            /\ why = "none" => /\ ~(target < block)
                              /\ ~(target > block /\ target < block + HEADER + SMALLEST)
        BY Zenon DEF shrink_refusal
      <4> QED BY ZenonT(40), <3>2, <4>1 DEF BeginShrink
    <3> HIDE DEF bytes
    <3>4. span \in Int /\ target \in Nat /\ Base[h] <= target /\ (span # 0 => brk[h] # Base[h])
      <4>1. /\ brk[h] \in Nat /\ Base[h] <= brk[h]
        BY <2>1, <2>2 DEF TilingInv, HeapOK, Top
      <4> QED BY SMTT(30), <2>1, <3>1, <4>1
    <3> HIDE DEF span, target, block
    <3>5. CASE /\ blk' = blk
               /\ call' \in {Return(c, c.was), Return(Oops(c, "top in use"), Null),
                             Return(Oops(c, "top too small"), Null)}
      <4>1. {"top in use", "top too small"} \subseteq Messages /\ Null \in Nat
        BY DEF Messages, Null
      <4> HIDE DEF c
      <4>2. Oops(c, "top in use") \in Calls /\ Oops(c, "top too small") \in Calls
        BY Zenon, <2>1, <4>1, Oopsed
      <4>3. \A r \in {Return(c, c.was), Return(Oops(c, "top in use"), Null),
                      Return(Oops(c, "top too small"), Null)} : r \in Calls /\ r.pc = "idle"
        <5>1. c \in Calls /\ c.was \in Nat
          BY <2>1
        <5>2. \A d \in Calls : \A n \in Nat : Return(d, n) \in Calls /\ Return(d, n).pc = "idle"
          BY Returned
        <5>3. Return(c, c.was) \in Calls /\ Return(c, c.was).pc = "idle"
          BY <5>1, <5>2
        <5>4. \A d \in Calls : Return(d, Null) \in Calls /\ Return(d, Null).pc = "idle"
          BY Zenon, <4>1, <5>2
        <5> QED BY Zenon, <4>2, <5>3, <5>4
      <4>4. call' \in Calls /\ call'.pc = "idle" /\ UNCHANGED <<brk, blk>>
        BY Zenon, <2>2, <3>5, <4>3
      <4> QED BY <2>2, <4>4, HeapsStay DEF TilingInv
    <3>6. CASE /\ span # 0 /\ ~(target < block)
               /\ ~(target > block /\ target < block + HEADER + SMALLEST)
               /\ blk' = [blk EXCEPT ![h] = trim(blk[h], block, target)]
               /\ call' = cut
      <4>1. /\ DOMAIN blk' = Heaps /\ blk'[h] = trim(blk[h], block, target)
            /\ \A k \in Heaps : k # h => blk'[k] = blk[k]
        BY <1>0, <3>6
      <4>2. /\ Headers(blk[h]) /\ Tiles(blk[h], Base[h], brk[h]) /\ brk[h] # Base[h]
        BY <2>2, <3>4, <3>6 DEF TilingInv, HeapOK, Top
      <4>3. block \in DOMAIN blk[h] /\ block \in Nat
        BY <2>1, <4>2, LastBlock DEF block, Headers
      <4>4. target = block \/ block + HEADER + SMALLEST <= target
        BY <3>4, <3>6, <4>3 DEF HEADER, SMALLEST
      <4>5. Headers(blk'[h]) /\ Tiles(blk'[h], Base[h], target)
        BY Zenon, <2>1, <3>4, <4>1, <4>2, <4>4, TrimKeepsTiles DEF block
      <4> HIDE DEF c
      <4>6. cut \in Calls /\ cut.pc = "shrink" /\ cut.start = target /\ cut.heap = h
        BY Zenon, <2>1, <3>4 DEF Calls
      <4> HIDE DEF cut
      <4>7. call' \in Calls /\ call'.pc = "shrink" /\ call'.start = target /\ call'.heap = h
        BY <3>6, <4>6
      <4>8. Top(h)' = target /\ \A k \in Heaps : k # h => Top(k)' = Top(k)
        BY <2>2, <4>7 DEF Top
      <4>9. \A k \in Heaps : HeapOK(k)'
        BY <1>0, <2>2, <3>4, <4>1, <4>5, <4>8, OneHeapChanges
      <4> QED BY <1>0, <2>2, <4>1, <4>7, <4>9 DEF TilingInv
    <3> QED BY Zenon, <3>3, <3>5, <3>6
  <2> QED BY <2>1, <2>3, <2>4
<1>10. CASE ShrinkPage
  <2>1. /\ UNCHANGED <<brk, blk>> /\ call.pc = "shrink"
        /\ call' = [call EXCEPT !.at = @ + PAGE_SIZE]
    BY <1>10 DEF ShrinkPage
  <2>2. call \in Calls /\ call.at + PAGE_SIZE \in Nat
    BY <1>0, PageSizeAssumption DEF TilingInv
  <2>3. /\ call' \in Calls /\ call'.pc = "shrink" /\ call'.start = call.start
        /\ call'.heap = call.heap
    BY <2>1, <2>2 DEF Calls
  <2>4. \A k \in Heaps : Top(k)' = Top(k)
    BY <2>1, <2>3 DEF Top
  <2>5. \A k \in Heaps : HeapOK(k)'
    BY <2>1, <2>4, HeapKept
  <2> QED BY <1>0, <2>1, <2>3, <2>5 DEF TilingInv
<1>11. CASE ShrinkEnd
  <2>1. /\ blk' = blk /\ brk' = [brk EXCEPT ![call.heap] = call.start]
        /\ call.pc = "shrink" /\ call' = Return(call, call.was)
    BY <1>11 DEF ShrinkEnd
  <2>2. call \in Calls /\ call.was \in Nat
    BY DEF TilingInv, Calls
  <2>3. call' \in Calls /\ call'.pc = "idle"
    BY <2>1, <2>2, Returned
  <2>4. brk' \in [Heaps -> Nat] /\ \A k \in Heaps : Top(k)' = Top(k)
    BY SMTT(30), <1>0, <2>1, <2>3 DEF Top
  <2>5. \A k \in Heaps : HeapOK(k)'
    BY <2>1, <2>4, HeapKept
  <2> QED BY <1>0, <2>1, <2>3, <2>4, <2>5 DEF TilingInv
<1>12. CASE UNCHANGED vars
  <2>1. UNCHANGED <<brk, blk, call>>
    BY <1>12 DEF vars
  <2>2. \A k \in Heaps : Top(k)' = Top(k)
    BY SMTT(30), <2>1 DEF Top
  <2>3. \A k \in Heaps : HeapOK(k)'
    BY <2>1, <2>2, HeapKept
  <2> QED BY <2>1, <2>3 DEF TilingInv, Blocks
<1> QED
  BY <1>1, <1>2, <1>3, <1>4, <1>5, <1>6, <1>7, <1>8, <1>9, <1>10, <1>11, <1>12
     DEF Next, Step

(***************************************************************************)
(* The blocks of every heap tile it, in every state that any sequence of   *)
(* kmalloc, kfree, kbrk, vmalloc, vfree and vbrk reaches, also in the      *)
(* middle of a call.                                                       *)
(***************************************************************************)
THEOREM HeapsAreTiled == Spec => []Tiled
<1>1. TilingInv => Tiled
  BY Zenon DEF TilingInv, HeapOK, Tiled
<1> QED BY <1>1, TilingStart, TilingStep, PTL DEF Spec
=============================================================================
