--------------------------- MODULE TheMatrixProofs ---------------------------
(***************************************************************************)
(* What TheMatrix keeps whatever random() gives, on a panel of any size a   *)
(* byte can count and for any old and new words.                            *)
(***************************************************************************)
EXTENDS TheMatrix, FiniteSetTheorems, TLAPS

(* The rows a drop may have while drops fall: on the panel, or above it as  *)
(* a negative number in a byte.                                             *)
FallRows == 0..(MatrixHeight - 1) \cup (257 - MatrixHeight)..255

(* A row x of the panel, below or above it, in a byte.                      *)
RowByte(x) == IF x < 0 THEN 256 + x ELSE x

(* Drops are in the columns of the panel, and in those rows until the words *)
(* are complete.                                                            *)
DropsFall ==
  \A k \in 1..n_drop :
    /\ drops[k].col \in 0..(MatrixWidth - 1)
    /\ pc = "fall" => drops[k].row \in FallRows

(* In the last loop a drop is as many rows below one of those as there were *)
(* frames.                                                                  *)
DropsLeave ==
  /\ pc = "fall" => frame = 0
  /\ pc = "done" => frame = TailFrames
  /\ pc # "fall" => \A k \in 1..n_drop :
       \E x \in (frame - MatrixHeight + 1)..(frame + MatrixHeight - 1) :
         drops[k].row = RowByte(x)

(* There are new words all of whose pixels the loop fills before it ends,   *)
(* and no fewer drops than it needs.                                        *)
WordsAreNew ==
  /\ wipe \in NeedSets
  /\ pc # "fall" => have = wipe
  /\ n_need <= n_drop

Inv == TypeOK /\ DropsFall /\ WordsAreNew

Drop == [col : 0..255, row : 0..255]

(* A drop falls on a pixel of M if nothing makes it leave its column.       *)
FallsOn(M, d) == \E m \in M : m[1] = d.col /\ d.row <= m[2]

(* The turns that drop d has, at most, before it fills a pixel of M, if it  *)
(* waits for p of them: to the bottom, and once more from the top if        *)
(* nothing is missing below it.                                             *)
Turns(M, d, p) ==
  IF d.row >= MatrixHeight THEN p + 2 * MatrixHeight + 2
  ELSE IF FallsOn(M, d) THEN p + MatrixHeight - d.row
  ELSE p + 2 * MatrixHeight + 1 - d.row

(* With luck the loops get nearer to their end: there are fewer pixels      *)
(* missing, or fewer drops, or the first drop is nearer to a missing pixel, *)
(* or its next turn is.                                                     *)
FirstTurns == Turns(Missing, drops[1], pause[1])
NextTurn == IF i = 1 THEN 0 ELSE n_drop + 3 - i
Rank ==
  CASE pc = "fall" /\ Missing # {} ->
         <<2, Cardinality(Missing), n_drop, FirstTurns, NextTurn>>
    [] pc = "fall" /\ Missing = {} -> <<2, 0, n_drop, 0, n_drop + 2 - i>>
    [] pc = "tail" -> <<1, 0, 0, 0, TailFrames - frame>>
    [] pc = "done" -> <<0, 0, 0, 0, 0>>

Ranks == Nat \X Nat \X Nat \X Nat \X Nat

(* The order of Ranks, in which nothing descends for ever.                  *)
Below(r, s) ==
  \/ r[1] < s[1]
  \/ r[1] = s[1] /\ r[2] < s[2]
  \/ r[1] = s[1] /\ r[2] = s[2] /\ r[3] < s[3]
  \/ r[1] = s[1] /\ r[2] = s[2] /\ r[3] = s[3] /\ r[4] < s[4]
  \/ r[1] = s[1] /\ r[2] = s[2] /\ r[3] = s[3] /\ r[4] = s[4] /\ r[5] < s[5]

(* The loop over the drops stops at the last one, also if there is now one  *)
(* less.                                                                    *)
InLoop == pc = "fall" => i <= n_drop + 2

RankFalls == lucky /\ late /\ Loop => Rank \in Ranks /\ Rank' \in Ranks /\ Below(Rank', Rank)

-----------------------------------------------------------------------------
(* The panel and sets of its pixels. *)

(* The panel's sizes are numbers a byte holds.                              *)
LEMMA Sizes ==
  /\ MatrixWidth \in 1..255 /\ MatrixHeight \in 1..128 /\ Spare \in Nat
  /\ NUM_LEDS \in Nat /\ TailFrames \in Nat
  /\ PauseMin \in 1..255 /\ PauseMax \in PauseMin..255
<1>1. /\ MatrixWidth \in 1..255 /\ MatrixHeight \in 1..128 /\ Spare \in Nat
      /\ PauseMin \in 1..255 /\ PauseMax \in PauseMin..255
  BY PanelAssumption
<1>2. \A a, b \in Nat : a * b \in Nat
  OBVIOUS
<1>3. NUM_LEDS \in Nat
  BY <1>1, <1>2 DEF NUM_LEDS
<1>. QED
  BY <1>1, <1>3 DEF TailFrames

(* The panel has NUM_LEDS pixels, ...                                       *)
LEMMA PanelSize == IsFiniteSet(Pixels) /\ Cardinality(Pixels) = NUM_LEDS
<1>. DEFINE X == 0..(MatrixWidth - 1)  Y == 0..(MatrixHeight - 1)
<1>1. ASSUME NEW n \in 1..255
      PROVE  IsFiniteSet(0..(n - 1)) /\ Cardinality(0..(n - 1)) = n
  <2>1. 0 \in Int /\ n - 1 \in Int /\ 0 <= n - 1 /\ (n - 1) - 0 + 1 = n
    OBVIOUS
  <2>2. /\ IsFiniteSet(0..(n - 1))
        /\ Cardinality(0..(n - 1)) = IF 0 > n - 1 THEN 0 ELSE (n - 1) - 0 + 1
    BY <2>1, FS_Interval
  <2>. QED
    BY <2>1, <2>2
<1>2. /\ IsFiniteSet(X) /\ Cardinality(X) = MatrixWidth
      /\ IsFiniteSet(Y) /\ Cardinality(Y) = MatrixHeight
  <2>1. MatrixWidth \in 1..255 /\ MatrixHeight \in 1..255
    BY Sizes
  <2>. QED
    BY <1>1, <2>1
<1>. HIDE DEF X, Y
<1>3. IsFiniteSet(X \X Y) /\ Cardinality(X \X Y) = Cardinality(X) * Cardinality(Y)
  BY <1>2, FS_Product
<1>. QED
  BY <1>2, <1>3 DEF Pixels, NUM_LEDS, X, Y

(* ... and no set of them has more.                                         *)
LEMMA PixelSets ==
  ASSUME NEW S \in SUBSET Pixels
  PROVE  IsFiniteSet(S) /\ Cardinality(S) \in 0..NUM_LEDS
<1>1. IsFiniteSet(S) /\ Cardinality(S) <= Cardinality(Pixels)
  BY PanelSize, FS_Subset
<1>2. Cardinality(S) \in Nat
  BY <1>1, FS_CardinalityType
<1>. QED
  BY <1>1, <1>2, PanelSize, Sizes

(* There is a number of drops for every set of new words.                   *)
LEMMA NeedType == wipe \in NeedSets => n_need \in 0..NUM_LEDS
<1>. SUFFICES ASSUME wipe \in NeedSets PROVE n_need \in 0..NUM_LEDS
  OBVIOUS
<1>1. wipe \in SUBSET Pixels /\ Cardinality(wipe) + Spare <= NUM_LEDS
  BY PanelAssumption
<1>2. Cardinality(wipe) \in 0..NUM_LEDS
  BY <1>1, PixelSets
<1>. QED
  BY <1>1, <1>2, Sizes DEF n_need

(* A finite set's sequence has as many places, with an element in each.     *)
LEMMA SequenceOfSet ==
  ASSUME NEW S, IsFiniteSet(S)
  PROVE  /\ Len(SetToSeq(S)) = Cardinality(S) /\ Cardinality(S) \in Nat
         /\ \A k \in 1..Cardinality(S) : SetToSeq(S)[k] \in S
<1>1. Cardinality(S) \in Nat /\ ExistsBijection(1..Cardinality(S), S)
  BY FS_CardinalityType
<1>2. \E f \in [1..Cardinality(S) -> S] : IsInjective(f)
  BY <1>1 DEF ExistsBijection, Bijection, Injection
<1>3. SetToSeq(S) \in [1..Cardinality(S) -> S]
  BY <1>2 DEF SetToSeq
<1>4. SetToSeq(S) \in Seq(S)
  BY <1>1, <1>3
<1>. QED
  BY <1>1, <1>3, <1>4

(* A row of bytes in which drops fall is a byte; one row further down is    *)
(* one of them, or past the panel.                                          *)
LEMMA RowFalls ==
  /\ FallRows \subseteq 0..255
  /\ \A r \in FallRows : /\ Byte(r + 1) \in 0..255
                         /\ Byte(r + 1) < MatrixHeight => Byte(r + 1) \in FallRows
                         /\ r < MatrixHeight => r \in FallRows
BY Sizes DEF FallRows, Byte

(* random() places a drop in the columns of the panel, on its first row or  *)
(* above it.                                                                *)
LEMMA PlacesFall ==
  ASSUME NEW d \in Placements
  PROVE  d \in Drop /\ d.col \in 0..(MatrixWidth - 1) /\ d.row \in FallRows
<1>1. d.col \in 0..(MatrixWidth - 1) /\ \E k \in 0..(MatrixHeight - 1) : d.row = Byte(256 - k)
  BY DEF Placements
<1>2. PICK k \in 0..(MatrixHeight - 1) : d.row = Byte(256 - k)
  BY <1>1
<1>3. d.row \in FallRows
  BY <1>2, Sizes DEF Byte, FallRows
<1>4. d = [col |-> d.col, row |-> d.row]
  BY DEF Placements
<1>. QED
  BY <1>1, <1>3, <1>4, Sizes, RowFalls DEF Drop

-----------------------------------------------------------------------------
(* Init and the actions keep Inv. *)

(* The drops start on the lit pixels, or where random() puts them.          *)
LEMMA InitDrops ==
  ASSUME Init
  PROVE  /\ n_drop \in 0..NUM_LEDS /\ n_need <= n_drop
         /\ drops \in [1..(NUM_LEDS + 1) -> Drop]
         /\ \A k \in 1..n_drop : /\ drops[k].col \in 0..(MatrixWidth - 1)
                                 /\ drops[k].row \in FallRows
<1>. DEFINE Pixel(p) == [col |-> p[1], row |-> p[2]]
            Image(lit) == {Pixel(p) : p \in lit}
            More(n) == IF n < n_need THEN n_need - n ELSE 0
<1>1. PICK lit \in LitSets :
        /\ n_drop = Len(SetToSeq(Image(lit))) + More(Len(SetToSeq(Image(lit))))
        /\ \E new \in [1..More(Len(SetToSeq(Image(lit)))) -> Placements] :
             drops = [k \in 1..(NUM_LEDS + 1) |->
                        IF k <= Len(SetToSeq(Image(lit))) THEN SetToSeq(Image(lit))[k]
                        ELSE IF k <= n_drop THEN new[k - Len(SetToSeq(Image(lit)))] ELSE Unset]
  BY DEF Init
<1>2. IsFiniteSet(Image(lit)) /\ Cardinality(Image(lit)) <= NUM_LEDS
  <2>1. lit \in SUBSET Pixels
    BY PanelAssumption
  <2>2. IsFiniteSet(lit) /\ Cardinality(lit) <= NUM_LEDS /\ Cardinality(lit) \in Nat
    BY <2>1, PixelSets
  <2>3. [p \in lit |-> Pixel(p)] \in Surjection(lit, Image(lit))
    BY DEF Surjection
  <2>4. IsFiniteSet(Image(lit)) /\ Cardinality(Image(lit)) <= Cardinality(lit)
    BY <2>2, <2>3, FS_Surjection
  <2>5. Cardinality(Image(lit)) \in Nat
    BY <2>4, FS_CardinalityType
  <2>. QED
    BY <2>2, <2>4, <2>5, Sizes
<1>3. ASSUME NEW d \in Image(lit)
      PROVE  d \in Drop /\ d.col \in 0..(MatrixWidth - 1) /\ d.row \in FallRows
  <2>1. PICK p \in Pixels : d = Pixel(p)
    BY PanelAssumption
  <2>2. p[1] \in 0..(MatrixWidth - 1) /\ p[2] \in 0..(MatrixHeight - 1)
    BY DEF Pixels
  <2>3. d = [col |-> p[1], row |-> p[2]]
    BY <2>1
  <2>4. /\ p[1] \in 0..255 /\ p[2] \in 0..255 /\ p[2] \in FallRows
    BY <2>2, Sizes DEF FallRows
  <2>. HIDE DEF Pixel, Image
  <2>. QED
    BY <2>2, <2>3, <2>4 DEF Drop
<1>. DEFINE old == SetToSeq(Image(lit))  missing == More(Len(old))
<1>. HIDE DEF Image
<1>4. Len(old) \in 0..NUM_LEDS /\ \A k \in 1..Len(old) : old[k] \in Image(lit)
  <2>1. /\ Len(old) = Cardinality(Image(lit)) /\ Cardinality(Image(lit)) \in Nat
        /\ \A k \in 1..Cardinality(Image(lit)) : old[k] \in Image(lit)
    BY <1>2, SequenceOfSet
  <2>. HIDE DEF old
  <2>. QED
    BY <1>2, <2>1, Sizes
<1>. HIDE DEF old
<1>5. n_need \in 0..NUM_LEDS
  BY NeedType DEF Init
<1>6. n_drop = Len(old) + missing /\ missing \in Nat
  BY <1>1, <1>4, <1>5 DEF old
<1>7. n_drop \in 0..NUM_LEDS /\ n_need <= n_drop
  BY <1>4, <1>5, <1>6
<1>8. PICK new \in [1..missing -> Placements] :
        drops = [k \in 1..(NUM_LEDS + 1) |->
                   IF k <= Len(old) THEN old[k]
                   ELSE IF k <= n_drop THEN new[k - Len(old)] ELSE Unset]
  BY <1>1 DEF old
<1>. HIDE DEF missing
<1>9. ASSUME NEW k \in 1..n_drop
      PROVE  /\ drops[k] \in Drop /\ drops[k].col \in 0..(MatrixWidth - 1)
             /\ drops[k].row \in FallRows
  <2>1. k \in 1..(NUM_LEDS + 1)
    BY <1>7, Sizes
  <2>2. CASE k <= Len(old)
    <3>1. k \in 1..Len(old) /\ drops[k] = old[k]
      BY <1>4, <1>7, <1>8, <2>1, <2>2
    <3>. QED
      BY <1>3, <1>4, <3>1
  <2>3. CASE ~(k <= Len(old))
    <3>1. k - Len(old) \in 1..missing /\ drops[k] = new[k - Len(old)]
      BY <1>4, <1>6, <1>7, <1>8, <2>1, <2>3
    <3>2. new[k - Len(old)] \in Placements
      BY <3>1
    <3>. QED
      BY <3>1, <3>2, PlacesFall
  <2>. QED
    BY <2>2, <2>3
<1>10. drops \in [1..(NUM_LEDS + 1) -> Drop]
  <2>1. ASSUME NEW k \in 1..(NUM_LEDS + 1) PROVE drops[k] \in Drop
    <3>1. CASE k <= n_drop
      BY <1>7, <1>9, <3>1
    <3>2. CASE ~(k <= n_drop)
      <4>1. ~(k <= Len(old))
        BY <1>4, <1>6, <3>2
      <4>2. drops[k] = Unset
        BY <1>8, <3>2, <4>1
      <4>. QED
        BY <4>2 DEF Unset, Drop
    <3>. QED
      BY <3>1, <3>2
  <2>2. drops = [k \in 1..(NUM_LEDS + 1) |-> drops[k]]
    BY <1>8
  <2>. QED
    BY <2>1, <2>2
<1>. QED
  BY <1>7, <1>9, <1>10

(* The invariant holds when the transition begins.                          *)
LEMMA InvInit == Init => Inv /\ DropsLeave
<1>. SUFFICES ASSUME Init PROVE Inv /\ DropsLeave
  OBVIOUS
<1>1. TypeOK
  <2>1. pause \in [1..NUM_LEDS -> 0..255]
    <3>1. pause \in [1..NUM_LEDS -> Garbage]
      BY DEF Init
    <3>. QED
      BY <3>1, PanelAssumption
  <2>2. pc = "fall" /\ i = 1 /\ frame = 0 /\ have = {}
    BY DEF Init
  <2>3. i \in 1..(NUM_LEDS + 1) /\ frame \in 0..TailFrames /\ have \subseteq wipe
    BY <2>2, Sizes
  <2>4. n_drop \in 0..NUM_LEDS /\ drops \in [1..(NUM_LEDS + 1) -> Drop]
    BY InitDrops
  <2>. QED
    BY <2>1, <2>2, <2>3, <2>4 DEF TypeOK, Drop
<1>. QED
  BY <1>1, InitDrops DEF Init, Inv, DropsFall, WordsAreNew, DropsLeave

(* What Land leaves of the drop d and of the others.                        *)
LEMMA LandKeeps ==
  ASSUME Inv, pc = "fall", i <= n_drop, NEW d \in Drop, Land(d),
         d.col \in 0..(MatrixWidth - 1)
  PROVE  /\ n_drop' \in 0..NUM_LEDS /\ n_need <= n_drop'
         /\ drops' \in [1..(NUM_LEDS + 1) -> Drop]
         /\ \A k \in 1..n_drop' : /\ drops'[k].col \in 0..(MatrixWidth - 1)
                                  /\ drops'[k].row \in FallRows
<1>1. /\ i \in 1..n_drop /\ n_drop \in 0..NUM_LEDS /\ n_need <= n_drop
      /\ drops \in [1..(NUM_LEDS + 1) -> Drop] /\ NUM_LEDS \in Nat
      /\ n_need \in 0..NUM_LEDS
  <2>1. TypeOK /\ WordsAreNew
    BY DEF Inv
  <2>2. /\ i \in 1..(NUM_LEDS + 1) /\ n_drop \in 0..NUM_LEDS
        /\ drops \in [1..(NUM_LEDS + 1) -> Drop]
    BY <2>1 DEF TypeOK, Drop
  <2>3. n_need \in 0..NUM_LEDS /\ n_need <= n_drop
    BY <2>1, NeedType DEF WordsAreNew
  <2>4. NUM_LEDS \in Nat
    BY Sizes
  <2>5. i \in 1..n_drop
    BY <2>2, <2>4
  <2>. QED
    BY <2>2, <2>3, <2>4, <2>5
<1>2. \A k \in 1..n_drop : /\ drops[k].col \in 0..(MatrixWidth - 1)
                            /\ drops[k].row \in FallRows
  BY DEF Inv, DropsFall
<1>3. ASSUME NEW e \in Drop, e.col \in 0..(MatrixWidth - 1), e.row \in FallRows,
             drops' = [drops EXCEPT ![i] = e], n_drop' = n_drop
      PROVE  /\ drops' \in [1..(NUM_LEDS + 1) -> Drop]
             /\ \A k \in 1..n_drop' : /\ drops'[k].col \in 0..(MatrixWidth - 1)
                                      /\ drops'[k].row \in FallRows
  <2>1. \A k \in 1..(NUM_LEDS + 1) : drops'[k] = IF k = i THEN e ELSE drops[k]
    BY <1>1, <1>3
  <2>2. \A k \in 1..n_drop : k \in 1..(NUM_LEDS + 1)
    BY <1>1
  <2>3. drops' \in [1..(NUM_LEDS + 1) -> Drop]
    BY <1>1, <1>3
  <2>. QED
    BY <1>2, <1>3, <2>1, <2>2, <2>3
<1>4. CASE d.row < MatrixHeight
  <2>1. d.row \in FallRows
    BY <1>4, Sizes DEF Drop, FallRows
  <2>2. drops' = [drops EXCEPT ![i] = d] /\ n_drop' = n_drop
    BY <1>4 DEF Land
  <2>. QED
    BY <1>1, <1>3, <2>1, <2>2
<1>5. CASE ~(d.row < MatrixHeight) /\ n_drop > n_need
  <2>1. drops' = SlideDown /\ n_drop' = n_drop - 1
    BY <1>5 DEF Land
  <2>2. drops' = [k \in 1..(NUM_LEDS + 1) |->
                    IF k \in i..n_drop THEN drops[k + 1] ELSE drops[k]]
    BY <1>1, <2>1 DEF SlideDown
  <2>3. n_drop' \in 0..NUM_LEDS /\ n_need <= n_drop'
    BY <1>1, <1>5, <2>1
  <2>4. \A k \in i..n_drop : k + 1 \in 1..(NUM_LEDS + 1)
    BY <1>1
  <2>5. drops' \in [1..(NUM_LEDS + 1) -> Drop]
    BY <1>1, <2>2, <2>4
  <2>6. ASSUME NEW k \in 1..n_drop'
        PROVE  /\ drops'[k].col \in 0..(MatrixWidth - 1) /\ drops'[k].row \in FallRows
    <3>1. k \in 1..(NUM_LEDS + 1) /\ k \in 1..n_drop /\ k + 1 \in 1..n_drop
      BY <1>1, <2>1
    <3>2. drops'[k] = drops[k + 1] \/ drops'[k] = drops[k]
      BY <2>2, <3>1
    <3>. QED
      BY <1>2, <3>1, <3>2
  <2>. QED
    BY <2>3, <2>5, <2>6
<1>6. CASE ~(d.row < MatrixHeight) /\ ~(n_drop > n_need)
  <2>1. PICK place \in PlaceDraws : drops' = [drops EXCEPT ![i] = place]
    BY <1>6 DEF Land
  <2>2. n_drop' = n_drop
    BY <1>6 DEF Land
  <2>3. place \in Placements
    BY DEF PlaceDraws
  <2>4. /\ place \in Drop /\ place.col \in 0..(MatrixWidth - 1)
        /\ place.row \in FallRows
    BY <2>3, PlacesFall
  <2>. QED
    BY <1>1, <1>3, <2>1, <2>2, <2>4
<1>. QED
  BY <1>4, <1>5, <1>6

(* One turn of the loop over the drops keeps Inv.                           *)
LEMMA MoveDropKeeps == Inv /\ MoveDrop => Inv' /\ (DropsLeave => DropsLeave')
<1>. SUFFICES ASSUME Inv, MoveDrop PROVE Inv' /\ (DropsLeave => DropsLeave')
  OBVIOUS
<1>1. /\ pc = "fall" /\ i <= n_drop /\ pc' = pc /\ wipe' = wipe /\ frame' = frame
      /\ i' = i + 1 /\ n_need' = n_need /\ Catch(drops[i])
  BY DEF MoveDrop, n_need
<1>2. PICK draw \in PauseDraws :
        LET p == IF draw = 0 THEN pause[i] ELSE draw
        IN  /\ Land(IF p = 0 THEN [drops[i] EXCEPT !.row = Byte(@ + 1)] ELSE drops[i])
            /\ pause' = [pause EXCEPT ![i] = IF p = 0 THEN 0 ELSE p - 1]
  BY DEF MoveDrop
<1>. DEFINE p == IF draw = 0 THEN pause[i] ELSE draw
            d == IF p = 0 THEN [drops[i] EXCEPT !.row = Byte(@ + 1)] ELSE drops[i]
<1>3. Land(d) /\ pause' = [pause EXCEPT ![i] = IF p = 0 THEN 0 ELSE p - 1]
  BY <1>2
<1>4. /\ i \in 1..NUM_LEDS /\ i \in 1..n_drop /\ n_drop \in 0..NUM_LEDS
      /\ i' \in 1..(NUM_LEDS + 1)
      /\ drops[i] \in Drop /\ drops[i].col \in 0..(MatrixWidth - 1)
      /\ drops[i].row \in FallRows
  <2>1. i \in 1..NUM_LEDS /\ i \in 1..n_drop /\ i \in 1..(NUM_LEDS + 1)
    BY <1>1, Sizes DEF Inv, TypeOK
  <2>2. drops[i] \in Drop /\ n_drop \in 0..NUM_LEDS
    <3>1. drops \in [1..(NUM_LEDS + 1) -> Drop] /\ n_drop \in 0..NUM_LEDS
      BY DEF Inv, TypeOK, Drop
    <3>. QED
      BY <2>1, <3>1
  <2>3. drops[i].col \in 0..(MatrixWidth - 1) /\ drops[i].row \in FallRows
    BY <1>1, <2>1 DEF Inv, DropsFall
  <2>4. i' \in 1..(NUM_LEDS + 1)
    BY <1>1, <2>1, Sizes
  <2>. QED
    BY <2>1, <2>2, <2>3, <2>4
<1>5. pause' \in [1..NUM_LEDS -> 0..255]
  <2>1. draw = 0 \/ draw \in PauseMin..PauseMax
    BY DEF PauseDraws
  <2>2. draw \in 0..255
    <3>1. CASE draw = 0
      BY <3>1
    <3>2. CASE draw \in PauseMin..PauseMax
      <4>1. PauseMin \in 1..255 /\ PauseMax \in PauseMin..255
        BY Sizes
      <4>. QED
        BY <3>2, <4>1
    <3>. QED
      BY <2>1, <3>1, <3>2
  <2>3. pause \in [1..NUM_LEDS -> 0..255]
    BY DEF Inv, TypeOK
  <2>4. p \in 0..255
    BY <1>4, <2>2, <2>3
  <2>. HIDE DEF p
  <2>5. (IF p = 0 THEN 0 ELSE p - 1) \in 0..255
    BY <2>4
  <2>. QED
    BY <1>3, <1>4, <2>3, <2>5
<1>6. d \in Drop /\ d.col \in 0..(MatrixWidth - 1)
  <2>1. [drops[i] EXCEPT !.row = Byte(@ + 1)]
          = [col |-> drops[i].col, row |-> Byte(drops[i].row + 1)]
    BY <1>4 DEF Drop
  <2>2. Byte(drops[i].row + 1) \in 0..255
    BY <1>4, RowFalls
  <2>3. [col |-> drops[i].col, row |-> Byte(drops[i].row + 1)] \in Drop
    BY <1>4, <2>2 DEF Drop
  <2>. QED
    BY <1>4, <2>1, <2>3
<1>. HIDE DEF d
<1>7. /\ n_drop' \in 0..NUM_LEDS /\ n_need <= n_drop'
      /\ drops' \in [1..(NUM_LEDS + 1) -> Drop]
      /\ \A k \in 1..n_drop' : /\ drops'[k].col \in 0..(MatrixWidth - 1)
                               /\ drops'[k].row \in FallRows
  BY <1>1, <1>3, <1>6, LandKeeps
<1>8. have' \subseteq wipe
  BY <1>1 DEF Catch, Inv, TypeOK
<1>9. TypeOK'
  BY <1>1, <1>4, <1>5, <1>7, <1>8 DEF Inv, TypeOK, Drop
<1>. QED
  BY <1>1, <1>7, <1>9 DEF Inv, DropsFall, WordsAreNew, DropsLeave

(* The next frame, and the last one, when the words are complete.           *)
LEMMA NextFrameKeeps == Inv /\ NextFrame => Inv' /\ (DropsLeave => DropsLeave')
<1>. SUFFICES ASSUME Inv, NextFrame PROVE Inv' /\ (DropsLeave => DropsLeave')
  OBVIOUS
<1>1. /\ pc = "fall" /\ UNCHANGED <<drops, pause, n_drop, have, wipe, frame>>
      /\ n_need' = n_need
  BY DEF NextFrame, n_need
<1>2. \/ pc' = "tail" /\ have = wipe /\ i' = i
      \/ pc' = "fall" /\ i' = 1
  BY <1>1 DEF NextFrame
<1>3. Inv'
  <2>1. i' \in 1..(NUM_LEDS + 1)
    BY <1>2, Sizes DEF Inv, TypeOK
  <2>2. TypeOK'
    BY <1>1, <1>2, <2>1 DEF Inv, TypeOK
  <2>. QED
    BY <1>1, <1>2, <2>2 DEF Inv, DropsFall, WordsAreNew
<1>4. ASSUME DropsLeave, NEW k \in 1..n_drop
      PROVE  \E x \in (frame - MatrixHeight + 1)..(frame + MatrixHeight - 1) :
               drops[k].row = RowByte(x)
  <2>1. drops[k].row \in FallRows /\ frame = 0
    BY <1>1, <1>4 DEF Inv, DropsFall, DropsLeave
  <2>2. PICK r \in FallRows : drops[k].row = r
    BY <2>1
  <2>3. CASE r \in 0..(MatrixHeight - 1)
    <3>1. /\ r \in (frame - MatrixHeight + 1)..(frame + MatrixHeight - 1)
          /\ r = RowByte(r)
      BY <2>1, <2>3, Sizes DEF RowByte
    <3>. QED
      BY <2>2, <3>1
  <2>4. CASE r \in (257 - MatrixHeight)..255
    <3>1. /\ r - 256 \in (frame - MatrixHeight + 1)..(frame + MatrixHeight - 1)
          /\ r = RowByte(r - 256)
      BY <2>1, <2>4, Sizes DEF RowByte
    <3>. QED
      BY <2>2, <3>1
  <2>. QED
    BY <2>3, <2>4 DEF FallRows
<1>5. DropsLeave => DropsLeave'
  BY <1>1, <1>2, <1>4 DEF DropsLeave
<1>. QED
  BY <1>3, <1>5

(* A row goes on to a row in a byte.                                        *)
LEMMA NextByte == \A r \in 0..255 : Byte(r + 1) \in 0..255
BY DEF Byte

(* Some rows of the last loop, as bytes.                                    *)
LEMMA RowsLeave ==
  ASSUME NEW x \in Int, x > -MatrixHeight, x + 1 <= 255
  PROVE  /\ RowByte(x) \in 0..255 /\ Byte(RowByte(x) + 1) = RowByte(x + 1)
<1>1. CASE x >= 0
  BY <1>1 DEF RowByte, Byte
<1>2. CASE x = -1
  BY <1>2 DEF RowByte, Byte
<1>3. CASE x < -1
  BY <1>3, Sizes DEF RowByte, Byte
<1>. QED
  BY <1>1, <1>2, <1>3

(* A frame of the last loop keeps Inv.                                      *)
LEMMA TailFrameKeeps == Inv /\ TailFrame => Inv'
<1>. SUFFICES ASSUME Inv, TailFrame PROVE Inv'
  OBVIOUS
<1>1. /\ pc = "tail" /\ frame < TailFrames /\ frame' = frame + 1
      /\ UNCHANGED <<pc, i, pause, n_drop, have, wipe>> /\ n_need' = n_need
  BY DEF TailFrame, n_need
<1>2. drops \in [1..(NUM_LEDS + 1) -> Drop] /\ n_drop \in 0..NUM_LEDS
  BY DEF Inv, TypeOK, Drop
<1>3. drops' = [k \in 1..(NUM_LEDS + 1) |->
                  IF k <= n_drop THEN [drops[k] EXCEPT !.row = Byte(@ + 1)] ELSE drops[k]]
  BY <1>2 DEF TailFrame
<1>4. ASSUME NEW k \in 1..(NUM_LEDS + 1)
      PROVE  drops'[k] \in Drop /\ drops'[k].col = drops[k].col
  <2>1. drops[k] \in Drop
    BY <1>2
  <2>2. [drops[k] EXCEPT !.row = Byte(@ + 1)]
          = [col |-> drops[k].col, row |-> Byte(drops[k].row + 1)]
    BY <2>1 DEF Drop
  <2>3. Byte(drops[k].row + 1) \in 0..255
    <3>1. drops[k].row \in 0..255
      BY <2>1 DEF Drop
    <3>. QED
      BY <3>1, NextByte
  <2>4. drops'[k] \in {drops[k], [col |-> drops[k].col, row |-> Byte(drops[k].row + 1)]}
    BY <1>3, <2>2
  <2>5. drops[k].col \in 0..255
    BY <2>1 DEF Drop
  <2>6. [col |-> drops[k].col, row |-> Byte(drops[k].row + 1)] \in Drop
    BY <2>3, <2>5 DEF Drop
  <2>. QED
    BY <2>1, <2>4, <2>6
<1>5. drops' \in [1..(NUM_LEDS + 1) -> Drop]
  BY <1>3, <1>4
<1>6. frame' \in 0..TailFrames
  BY <1>1, Sizes DEF Inv, TypeOK
<1>7. TypeOK'
  BY <1>1, <1>5, <1>6 DEF Inv, TypeOK, Drop
<1>8. DropsFall'
  <2>1. \A k \in 1..n_drop : k \in 1..(NUM_LEDS + 1)
    BY <1>2, Sizes
  <2>. QED
    BY <1>1, <1>4, <2>1 DEF Inv, DropsFall
<1>. QED
  BY <1>1, <1>7, <1>8 DEF Inv, WordsAreNew

(* And all drops go one row down, where no drop gets round to row 0.        *)
LEMMA TailFrameLeaves ==
  ASSUME Inv, DropsLeave, TailFrame, 11 * MatrixHeight <= 256
  PROVE  DropsLeave'
<1>1. /\ pc = "tail" /\ frame < TailFrames /\ frame' = frame + 1
      /\ UNCHANGED <<pc, n_drop>> /\ frame \in 0..TailFrames
  BY DEF TailFrame, Inv, TypeOK
<1>2. drops \in [1..(NUM_LEDS + 1) -> Drop] /\ n_drop \in 0..NUM_LEDS
  BY DEF Inv, TypeOK, Drop
<1>3. ASSUME NEW k \in 1..n_drop
      PROVE  \E x \in (frame' - MatrixHeight + 1)..(frame' + MatrixHeight - 1) :
               drops'[k].row = RowByte(x)
  <2>1. k \in 1..(NUM_LEDS + 1) /\ k <= n_drop
    BY <1>2, Sizes
  <2>2. drops'[k].row = Byte(drops[k].row + 1)
    BY <1>2, <2>1 DEF TailFrame, Drop
  <2>3. PICK x \in (frame - MatrixHeight + 1)..(frame + MatrixHeight - 1) :
          drops[k].row = RowByte(x)
    BY <1>1 DEF DropsLeave
  <2>4. x \in Int /\ x > -MatrixHeight /\ x + 1 <= 255
    BY <1>1, Sizes DEF TailFrames
  <2>5. Byte(RowByte(x) + 1) = RowByte(x + 1)
    BY <2>4, RowsLeave
  <2>6. x + 1 \in (frame' - MatrixHeight + 1)..(frame' + MatrixHeight - 1)
    BY <1>1, Sizes
  <2>. QED
    BY <2>2, <2>3, <2>5, <2>6
<1>4. ASSUME NEW k \in 1..n_drop'
      PROVE  \E x \in (frame' - MatrixHeight + 1)..(frame' + MatrixHeight - 1) :
               drops'[k].row = RowByte(x)
  <2>1. n_drop' = n_drop
    BY <1>1
  <2>. QED
    BY <1>3, <2>1
<1>5. pc' = "tail"
  BY <1>1
<1>. QED
  BY <1>4, <1>5 DEF DropsLeave

(* After TailFrames of them the loop ends, and the drops stay where they    *)
(* are.                                                                     *)
LEMMA FinishKeeps == Inv /\ Finish => Inv' /\ (DropsLeave => DropsLeave')
<1>. SUFFICES ASSUME Inv, Finish PROVE Inv' /\ (DropsLeave => DropsLeave')
  OBVIOUS
<1>1. /\ pc = "tail" /\ pc' = "done" /\ frame = TailFrames /\ n_need' = n_need
      /\ i' = i /\ drops' = drops /\ pause' = pause /\ n_drop' = n_drop
      /\ have' = have /\ wipe' = wipe /\ frame' = frame
  BY DEF Finish, fallen, n_need
<1>2. TypeOK'
  BY <1>1 DEF Inv, TypeOK
<1>3. DropsFall' /\ WordsAreNew'
  BY <1>1 DEF Inv, DropsFall, WordsAreNew
<1>4. DropsLeave => DropsLeave'
  BY <1>1 DEF DropsLeave
<1>. QED
  BY <1>2, <1>3, <1>4 DEF Inv

(* Time that passes, and a draw of luck, change nothing of it.              *)
LEMMA OthersKeep ==
  Inv /\ (FiveSeconds \/ GetLucky \/ UNCHANGED vars)
    => Inv' /\ (DropsLeave => DropsLeave')
<1>. SUFFICES ASSUME Inv, FiveSeconds \/ GetLucky \/ UNCHANGED vars
              PROVE  Inv' /\ (DropsLeave => DropsLeave')
  OBVIOUS
<1>1. /\ pc' = pc /\ n_need' = n_need
      /\ i' = i /\ drops' = drops /\ pause' = pause /\ n_drop' = n_drop
      /\ have' = have /\ wipe' = wipe /\ frame' = frame
  BY DEF FiveSeconds, GetLucky, vars, fallen, n_need
<1>2. TypeOK'
  BY <1>1 DEF Inv, TypeOK
<1>3. DropsFall' /\ WordsAreNew'
  BY <1>1 DEF Inv, DropsFall, WordsAreNew
<1>4. DropsLeave => DropsLeave'
  BY <1>1 DEF DropsLeave
<1>. QED
  BY <1>2, <1>3, <1>4 DEF Inv

-----------------------------------------------------------------------------
(* With luck the transition ends. *)

(* Ranks are compared a place at a time.                                    *)
LEMMA BelowWhen ==
  ASSUME NEW a1, NEW a2, NEW a3, NEW a4, NEW a5, NEW b1, NEW b2, NEW b3, NEW b4, NEW b5,
         \/ a1 < b1
         \/ a1 = b1 /\ a2 < b2
         \/ a1 = b1 /\ a2 = b2 /\ a3 < b3
         \/ a1 = b1 /\ a2 = b2 /\ a3 = b3 /\ a4 < b4
         \/ a1 = b1 /\ a2 = b2 /\ a3 = b3 /\ a4 = b4 /\ a5 < b5
  PROVE  Below(<<a1, a2, a3, a4, a5>>, <<b1, b2, b3, b4, b5>>)
BY DEF Below

(* Rank before a step, ...                                                  *)
LEMMA RankNow ==
  /\ pc = "fall" /\ Missing # {} =>
       Rank = <<2, Cardinality(Missing), n_drop, FirstTurns, NextTurn>>
  /\ pc = "fall" /\ Missing = {} => Rank = <<2, 0, n_drop, 0, n_drop + 2 - i>>
  /\ pc = "tail" => Rank = <<1, 0, 0, 0, TailFrames - frame>>
  /\ pc = "done" => Rank = <<0, 0, 0, 0, 0>>
BY DEF Rank

(* ... and after it.                                                        *)
LEMMA RankThen ==
  /\ pc' = "fall" /\ Missing' # {} =>
       Rank' = <<2, Cardinality(Missing'), n_drop', FirstTurns', NextTurn'>>
  /\ pc' = "fall" /\ Missing' = {} => Rank' = <<2, 0, n_drop', 0, n_drop' + 2 - i'>>
  /\ pc' = "tail" => Rank' = <<1, 0, 0, 0, TailFrames - frame'>>
  /\ pc' = "done" => Rank' = <<0, 0, 0, 0, 0>>
BY DEF Rank

(* The missing pixels are pixels, none if the words are complete; if some   *)
(* are missing there are drops.                                             *)
LEMMA MissingType ==
  ASSUME Inv
  PROVE  /\ Missing \in SUBSET Pixels /\ IsFiniteSet(Missing) /\ Cardinality(Missing) \in Nat
         /\ Missing = {} <=> have = wipe
         /\ Missing # {} => Cardinality(Missing) > 0 /\ n_drop >= 1
<1>1. wipe \in NeedSets /\ wipe \in SUBSET Pixels /\ have \subseteq wipe
  BY PanelAssumption DEF Inv, TypeOK, WordsAreNew
<1>2. Missing \in SUBSET Pixels /\ (Missing = {} <=> have = wipe) /\ Missing \subseteq wipe
  BY <1>1 DEF Missing
<1>3. IsFiniteSet(Missing) /\ Cardinality(Missing) \in Nat
  BY <1>2, PixelSets
<1>4. ASSUME Missing # {} PROVE Cardinality(Missing) > 0 /\ n_drop >= 1
  <2>1. Cardinality(Missing) # 0
    BY <1>3, <1>4, FS_EmptySet
  <2>2. IsFiniteSet(wipe) /\ Cardinality(wipe) \in Nat
    BY <1>1, PixelSets
  <2>3. Cardinality(wipe) # 0
    BY <1>2, <1>4, <2>2, FS_EmptySet
  <2>4. Spare + Cardinality(wipe) <= n_drop /\ n_drop \in Nat
    BY DEF Inv, TypeOK, WordsAreNew, n_need
  <2>. QED
    BY <1>3, <2>1, <2>2, <2>3, <2>4, Sizes
<1>. QED
  BY <1>2, <1>3, <1>4

(* A drop's row and the panel's height are bytes.                           *)
LEMMA RowBytes == \A d \in Drop : d.row \in 0..255 /\ MatrixHeight \in 1..128
BY Sizes DEF Drop

(* Turns are counted, ...                                                   *)
LEMMA TurnsCount ==
  ASSUME NEW M, NEW d \in Drop, NEW p \in 0..255
  PROVE  Turns(M, d, p) \in Nat
<1>1. ASSUME NEW r \in 0..255, NEW H \in 1..128
      PROVE  /\ p + 2 * H + 2 \in Nat
             /\ r < H => p + H - r \in Nat /\ p + 2 * H + 1 - r \in Nat
  OBVIOUS
<1>2. d.row \in 0..255 /\ MatrixHeight \in 1..128
  BY RowBytes
<1>3. CASE d.row >= MatrixHeight
  <2>1. p + 2 * MatrixHeight + 2 \in Nat
    BY <1>2
  <2>. QED
    BY <1>3, <2>1 DEF Turns
<1>4. CASE ~(d.row >= MatrixHeight)
  <2>1. d.row < MatrixHeight
    BY <1>2, <1>4
  <2>2. /\ p + MatrixHeight - d.row \in Nat
        /\ p + 2 * MatrixHeight + 1 - d.row \in Nat
    BY <1>1, <1>2, <2>1
  <2>. QED
    BY <1>4, <2>2 DEF Turns
<1>. QED
  BY <1>3, <1>4

(* ... one less for each that a drop waits, ...                             *)
LEMMA TurnsWait ==
  ASSUME NEW M, NEW d \in Drop, NEW p \in 1..255
  PROVE  Turns(M, d, p - 1) < Turns(M, d, p)
<1>1. ASSUME NEW r \in 0..255, NEW H \in 1..128
      PROVE  /\ p - 1 + 2 * H + 2 < p + 2 * H + 2
             /\ p - 1 + H - r < p + H - r
             /\ p - 1 + 2 * H + 1 - r < p + 2 * H + 1 - r
  OBVIOUS
<1>2. d.row \in 0..255 /\ MatrixHeight \in 1..128
  BY RowBytes
<1>3. CASE d.row >= MatrixHeight
  BY <1>1, <1>2, <1>3 DEF Turns
<1>4. CASE ~(d.row >= MatrixHeight) /\ FallsOn(M, d)
  BY <1>1, <1>2, <1>4 DEF Turns
<1>5. CASE ~(d.row >= MatrixHeight) /\ ~FallsOn(M, d)
  BY <1>1, <1>2, <1>5 DEF Turns
<1>. QED
  BY <1>3, <1>4, <1>5

(* ... for each row that it falls, if it leaves no pixel of M behind, ...   *)
LEMMA TurnsFall ==
  ASSUME NEW M \in SUBSET Pixels, NEW d \in Drop, XY(d) \notin M,
         NEW e, e = [col |-> d.col, row |-> Byte(d.row + 1)], e.row < MatrixHeight
  PROVE  Turns(M, e, 0) < Turns(M, d, 0)
<1>1. d.row \in 0..255 /\ MatrixHeight \in 1..128 /\ e.row = Byte(d.row + 1) /\ e.col = d.col
  BY Sizes DEF Drop
<1>2. e.row \in Nat
  BY <1>1 DEF Byte
<1>3. Turns(M, e, 0) <= 2 * MatrixHeight + 1 - e.row
  BY <1>1, <1>2 DEF Turns
<1>4. CASE d.row >= MatrixHeight
  <2>1. Turns(M, d, 0) = 0 + 2 * MatrixHeight + 2
    BY <1>4 DEF Turns
  <2>2. Turns(M, e, 0) \in Int
    BY <1>1, <1>2 DEF Turns
  <2>. QED
    BY <1>1, <1>2, <1>3, <2>1, <2>2
<1>5. CASE ~(d.row >= MatrixHeight)
  <2>0. d.row < MatrixHeight
    BY <1>1, <1>5
  <2>1. e.row = d.row + 1
    BY <1>1, <2>0 DEF Byte
  <2>2. ASSUME FallsOn(M, d) PROVE FallsOn(M, e)
    <3>1. PICK m \in M : m[1] = d.col /\ d.row <= m[2]
      BY <2>2 DEF FallsOn
    <3>2. m[2] \in Int /\ m = <<m[1], m[2]>> /\ m[1] \in 0..(MatrixWidth - 1)
      BY DEF Pixels
    <3>3. XY(d) = <<d.col, d.row>>
      BY <2>0, <3>1, <3>2, Sizes DEF XY, OnPanel
    <3>4. m[2] # d.row
      BY <3>1, <3>2, <3>3
    <3>5. e.row <= m[2]
      BY <1>1, <2>1, <3>1, <3>2, <3>4
    <3>. QED
      BY <1>1, <3>1, <3>5 DEF FallsOn
  <2>3. CASE FallsOn(M, d)
    <3>1. Turns(M, d, 0) = 0 + MatrixHeight - d.row
      BY <1>5, <2>3 DEF Turns
    <3>2. Turns(M, e, 0) = 0 + MatrixHeight - e.row
      BY <1>1, <1>2, <2>2, <2>3 DEF Turns
    <3>3. ASSUME NEW H \in 1..128, NEW r \in 0..255
          PROVE  0 + H - (r + 1) < 0 + H - r
      OBVIOUS
    <3>. QED
      BY <1>1, <2>1, <3>1, <3>2, <3>3
  <2>4. CASE ~FallsOn(M, d)
    <3>1. Turns(M, d, 0) = 0 + 2 * MatrixHeight + 1 - d.row
      BY <1>5, <2>4 DEF Turns
    <3>2. Turns(M, e, 0) \in Int
      BY <1>1, <1>2 DEF Turns
    <3>3. ASSUME NEW H \in 1..128, NEW r \in 0..255, NEW t \in Int, t <= 2 * H + 1 - (r + 1)
          PROVE  t < 0 + 2 * H + 1 - r
      BY <3>3
    <3>. QED
      BY <1>1, <1>3, <2>1, <3>1, <3>2, <3>3
  <2>. QED
    BY <2>3, <2>4
<1>. QED
  BY <1>4, <1>5

(* ... and if it is placed above a pixel of M where it leaves the panel.    *)
LEMMA TurnsPlace ==
  ASSUME NEW M \in SUBSET Pixels, NEW d \in Drop, XY(d) \notin M,
         NEW m \in M, NEW e, e = [col |-> m[1], row |-> 0],
         NEW p \in 0..255, NEW q \in 0..255,
         \/ p = 0 /\ q = 0 /\ Byte(d.row + 1) >= MatrixHeight
         \/ p > 0 /\ q = p - 1 /\ d.row >= MatrixHeight
  PROVE  Turns(M, e, q) < Turns(M, d, p)
<1>1. d.row \in 0..255 /\ MatrixHeight \in 1..128 /\ e.row = 0 /\ e.col = m[1]
  BY Sizes DEF Drop
<1>2. m[2] \in 0..(MatrixHeight - 1) /\ m[1] \in 0..(MatrixWidth - 1) /\ m = <<m[1], m[2]>>
  BY DEF Pixels
<1>3. FallsOn(M, e)
  BY <1>1, <1>2 DEF FallsOn
<1>4. Turns(M, e, q) = q + MatrixHeight
  BY <1>1, <1>3 DEF Turns
<1>5. CASE d.row >= MatrixHeight
  BY <1>1, <1>4, <1>5 DEF Turns
<1>6. CASE d.row < MatrixHeight
  <2>1. p = 0 /\ q = 0 /\ Byte(d.row + 1) >= MatrixHeight
    BY <1>1, <1>6
  <2>2. Byte(d.row + 1) = d.row + 1
    BY <1>1, <1>6 DEF Byte
  <2>3. d.row = MatrixHeight - 1
    BY <1>1, <1>6, <2>1, <2>2
  <2>4. ASSUME FallsOn(M, d) PROVE FALSE
    <3>1. PICK n \in M : n[1] = d.col /\ d.row <= n[2]
      BY <2>4 DEF FallsOn
    <3>2. n[2] \in 0..(MatrixHeight - 1) /\ n = <<n[1], n[2]>> /\ n[1] \in 0..(MatrixWidth - 1)
      BY DEF Pixels
    <3>3. n[2] = d.row
      BY <1>1, <2>3, <3>1, <3>2
    <3>4. XY(d) = <<d.col, d.row>>
      BY <1>6, <3>1, <3>2, Sizes DEF XY, OnPanel
    <3>. QED
      BY <3>1, <3>2, <3>3, <3>4
  <2>5. Turns(M, d, p) = 0 + 2 * MatrixHeight + 1 - (MatrixHeight - 1)
    BY <1>1, <2>1, <2>3, <2>4 DEF Turns
  <2>. QED
    BY <1>1, <1>4, <2>1, <2>5
<1>. QED
  BY <1>1, <1>5, <1>6

(* A rank is one of Ranks.                                                  *)
LEMMA RankType == Inv /\ InLoop => Rank \in Ranks
<1>. SUFFICES ASSUME Inv, InLoop PROVE Rank \in Ranks
  OBVIOUS
<1>1. i \in 1..(NUM_LEDS + 1) /\ n_drop \in 0..NUM_LEDS /\ NUM_LEDS \in Nat
  BY Sizes DEF Inv, TypeOK
<1>2. CASE pc = "fall" /\ Missing # {}
  <2>1. Cardinality(Missing) \in Nat /\ n_drop >= 1
    BY <1>2, MissingType
  <2>2. drops[1] \in Drop /\ pause[1] \in 0..255
    <3>1. 1 \in 1..(NUM_LEDS + 1) /\ 1 \in 1..NUM_LEDS
      BY <1>1, <2>1
    <3>2. drops \in [1..(NUM_LEDS + 1) -> Drop] /\ pause \in [1..NUM_LEDS -> 0..255]
      BY DEF Inv, TypeOK, Drop
    <3>. QED
      BY <3>1, <3>2
  <2>3. FirstTurns \in Nat
    BY <2>2, TurnsCount DEF FirstTurns
  <2>4. NextTurn \in Nat
    BY <1>1, <1>2 DEF NextTurn, InLoop
  <2>. QED
    BY <1>1, <1>2, <2>1, <2>3, <2>4, RankNow DEF Ranks
<1>3. CASE pc = "fall" /\ Missing = {}
  <2>1. n_drop + 2 - i \in Nat
    BY <1>1, <1>3 DEF InLoop
  <2>. QED
    BY <1>1, <1>3, <2>1, RankNow DEF Ranks
<1>4. CASE pc = "tail"
  <2>1. TailFrames - frame \in Nat
    BY Sizes DEF Inv, TypeOK
  <2>. QED
    BY <1>4, <2>1, RankNow DEF Ranks
<1>5. CASE pc = "done"
  BY <1>5, RankNow DEF Ranks
<1>. QED
  BY <1>2, <1>3, <1>4, <1>5 DEF Inv, TypeOK

(* And so it is after a step.                                               *)
LEMMA RankTypeThen == (Inv /\ InLoop)' => Rank' \in Ranks
<1>1. Inv /\ InLoop => Rank \in Ranks
  BY RankType
<1>2. (Inv /\ InLoop => Rank \in Ranks)'
  BY RankType, PTL
<1>. QED
  BY <1>2 DEF Ranks

(* Where a drop lands there is one drop less, or only that one moves.       *)
LEMMA LandCases ==
  ASSUME NEW d, Land(d)
  PROVE  \/ n_drop' = n_drop - 1
         \/ n_drop' = n_drop /\ \E e : drops' = [drops EXCEPT ![i] = e]
BY DEF Land

(* One lucky turn of the loop over the drops.                               *)
LEMMA MoveDropFalls ==
  ASSUME Inv, Inv', InLoop, lucky, late, MoveDrop
  PROVE  InLoop' /\ Below(Rank', Rank)
<1>1. /\ pc = "fall" /\ pc' = "fall" /\ wipe' = wipe /\ i' = i + 1 /\ Catch(drops[i])
      /\ i <= n_drop
  BY DEF MoveDrop
<1>2. /\ i \in 1..NUM_LEDS /\ n_drop \in 0..NUM_LEDS
      /\ NUM_LEDS \in Nat /\ i \in DOMAIN drops
      /\ drops \in [1..(NUM_LEDS + 1) -> Drop] /\ pause \in [1..NUM_LEDS -> 0..255]
  <2>1. TypeOK
    BY DEF Inv
  <2>2. /\ i \in 1..(NUM_LEDS + 1) /\ n_drop \in 0..NUM_LEDS /\ NUM_LEDS \in Nat
        /\ drops \in [1..(NUM_LEDS + 1) -> Drop] /\ pause \in [1..NUM_LEDS -> 0..255]
    BY <2>1, Sizes DEF TypeOK, Drop
  <2>3. i \in 1..NUM_LEDS /\ i \in 1..(NUM_LEDS + 1)
    BY <1>1, <2>2
  <2>4. i \in DOMAIN drops
    BY <2>2, <2>3
  <2>. QED
    BY <2>2, <2>3, <2>4
<1>. DEFINE p == pause[i]
            d == IF p = 0 THEN [drops[i] EXCEPT !.row = Byte(@ + 1)] ELSE drops[i]
<1>3. Land(d) /\ pause' = [pause EXCEPT ![i] = IF p = 0 THEN 0 ELSE p - 1]
  BY DEF MoveDrop, PauseDraws
<1>4. \/ n_drop' = n_drop - 1
      \/ n_drop' = n_drop /\ \E e : drops' = [drops EXCEPT ![i] = e]
  <2>. HIDE DEF d, p
  <2>. QED
    BY <1>3, LandCases
<1>5. InLoop'
  <2>1. n_drop' = n_drop - 1 \/ n_drop' = n_drop
    BY <1>4
  <2>2. i' <= n_drop' + 2
    BY <1>1, <1>2, <2>1
  <2>. QED
    BY <2>2 DEF InLoop
<1>6. /\ Missing \in SUBSET Pixels /\ IsFiniteSet(Missing) /\ Cardinality(Missing) \in Nat
      /\ Missing' \subseteq Missing
      /\ XY(drops[i]) \in Missing => Missing' # Missing
  <2>1. have \subseteq have'
    BY <1>1 DEF Catch
  <2>2. XY(drops[i]) \in Missing => XY(drops[i]) \in have'
    BY <1>1 DEF Catch, CatchDraws, Missing
  <2>. QED
    BY <1>1, <2>1, <2>2, MissingType DEF Missing
<1>7. CASE Missing' # Missing
  <2>1. /\ Cardinality(Missing') < Cardinality(Missing) /\ Cardinality(Missing') \in Nat
        /\ Missing # {}
    <3>1. IsFiniteSet(Missing') /\ Cardinality(Missing') <= Cardinality(Missing)
      BY <1>6, FS_Subset
    <3>2. Cardinality(Missing') # Cardinality(Missing)
      BY <1>6, <1>7, FS_Subset
    <3>3. Cardinality(Missing') \in Nat
      BY <3>1, FS_CardinalityType
    <3>. QED
      BY <1>6, <1>7, <3>1, <3>2, <3>3
  <2>2. Rank = <<2, Cardinality(Missing), n_drop, FirstTurns, NextTurn>>
    BY <1>1, <2>1, RankNow
  <2>3. CASE Missing' # {}
    <3>1. Rank' = <<2, Cardinality(Missing'), n_drop', FirstTurns', NextTurn'>>
      BY <1>1, <2>3, RankThen
    <3>. QED
      BY <1>5, <2>1, <2>2, <3>1, BelowWhen
  <2>4. CASE Missing' = {}
    <3>1. Rank' = <<2, 0, n_drop', 0, n_drop' + 2 - i'>>
      BY <1>1, <2>4, RankThen
    <3>2. 0 < Cardinality(Missing)
      BY <2>1, MissingType
    <3>. QED
      BY <1>5, <2>2, <3>1, <3>2, BelowWhen
  <2>. QED
    BY <2>3, <2>4
<1>8. CASE Missing' = Missing /\ Missing = {}
  <2>1. /\ Rank = <<2, 0, n_drop, 0, n_drop + 2 - i>>
        /\ Rank' = <<2, 0, n_drop', 0, n_drop' + 2 - i'>>
    BY <1>1, <1>8, RankNow, RankThen
  <2>2. n_drop' < n_drop \/ (n_drop' = n_drop /\ n_drop' + 2 - i' < n_drop + 2 - i)
    <3>1. n_drop' = n_drop - 1 \/ n_drop' = n_drop
      BY <1>4
    <3>2. i' = i + 1 /\ i \in Int /\ n_drop \in Int
      BY <1>1, <1>2
    <3>. HIDE DEF d, p
    <3>. QED
      BY <3>1, <3>2
  <2>. QED
    BY <1>5, <2>1, <2>2, BelowWhen
<1>9. CASE Missing' = Missing /\ Missing # {}
  <2>1. /\ Rank = <<2, Cardinality(Missing), n_drop, FirstTurns, NextTurn>>
        /\ Rank' = <<2, Cardinality(Missing), n_drop', FirstTurns', NextTurn'>>
    BY <1>1, <1>9, RankNow, RankThen
  <2>2. CASE n_drop' = n_drop - 1
    <3>1. n_drop' < n_drop
      BY <1>2, <2>2
    <3>. QED
      BY <1>5, <2>1, <3>1, BelowWhen
  <2>3. CASE n_drop' = n_drop /\ i # 1
    <3>1. drops'[1] = drops[1] /\ pause'[1] = pause[1]
      <4>1. PICK e : drops' = [drops EXCEPT ![i] = e]
        BY <1>2, <1>4, <2>3
      <4>2. 1 \in 1..(NUM_LEDS + 1) /\ 1 \in 1..NUM_LEDS /\ 1 # i
        BY <1>2, <2>3
      <4>3. drops'[1] = drops[1]
        BY <1>2, <4>1, <4>2
      <4>. HIDE DEF d, p
      <4>4. pause'[1] = pause[1]
        BY <1>2, <1>3, <4>2
      <4>. QED
        BY <4>3, <4>4
    <3>2. FirstTurns' = FirstTurns
      BY <1>9, <3>1 DEF FirstTurns
    <3>3. NextTurn' < NextTurn
      BY <1>1, <1>2, <2>3 DEF NextTurn
    <3>. QED
      BY <1>5, <2>1, <2>3, <3>2, <3>3, BelowWhen
  <2>4. CASE n_drop' = n_drop /\ i = 1
    <3>1. drops[1] \in Drop /\ p \in 0..255 /\ XY(drops[1]) \notin Missing
      BY <1>2, <1>6, <1>9, <2>4
    <3>2. pause'[1] = IF p = 0 THEN 0 ELSE p - 1
      BY <1>2, <1>3, <2>4
    <3>3. /\ FirstTurns = Turns(Missing, drops[1], p)
          /\ FirstTurns' = Turns(Missing, drops'[1], pause'[1])
      BY <1>9, <2>4 DEF FirstTurns
    <3>4. CASE d.row < MatrixHeight
      <4>1. drops'[1] = d
        BY <1>2, <1>3, <2>4, <3>4 DEF Land
      <4>2. CASE p = 0
        <5>1. d = [col |-> drops[1].col, row |-> Byte(drops[1].row + 1)]
          BY <2>4, <3>1, <4>2 DEF Drop
        <5>. HIDE DEF d, p
        <5>2. Turns(Missing, d, 0) < Turns(Missing, drops[1], 0)
          BY <1>6, <3>1, <3>4, <5>1, TurnsFall
        <5>3. FirstTurns' < FirstTurns
          BY <3>2, <3>3, <4>1, <4>2, <5>2
        <5>. QED
          BY <1>5, <2>1, <2>4, <5>3, BelowWhen
      <4>3. CASE p # 0
        <5>1. d = drops[1] /\ p \in 1..255
          BY <2>4, <3>1, <4>3
        <5>. HIDE DEF d, p
        <5>2. Turns(Missing, d, p - 1) < Turns(Missing, d, p)
          BY <3>1, <5>1, TurnsWait
        <5>3. FirstTurns' < FirstTurns
          BY <3>2, <3>3, <4>1, <4>3, <5>1, <5>2
        <5>. QED
          BY <1>5, <2>1, <2>4, <5>3, BelowWhen
      <4>. QED
        BY <4>2, <4>3
    <3>5. CASE ~(d.row < MatrixHeight)
      <4>1. PICK place \in PlaceDraws : drops' = [drops EXCEPT ![i] = place]
        BY <1>2, <1>3, <2>4, <3>5 DEF Land
      <4>2. PICK m \in Missing : place = [col |-> m[1], row |-> 0]
        BY <1>9 DEF PlaceDraws
      <4>3. drops'[1] = place
        BY <1>2, <2>4, <4>1
      <4>4. \/ p = 0 /\ pause'[1] = 0 /\ Byte(drops[1].row + 1) >= MatrixHeight
            \/ p > 0 /\ pause'[1] = p - 1 /\ drops[1].row >= MatrixHeight
        <5>1. CASE p = 0
          <6>1. d.row = Byte(drops[1].row + 1)
            BY <2>4, <3>1, <5>1 DEF Drop
          <6>2. Byte(drops[1].row + 1) \in 0..255
            <7>1. drops[1].row \in 0..255
              BY <3>1 DEF Drop
            <7>. QED
              BY <7>1, NextByte
          <6>3. pause'[1] = 0
            BY <3>2, <5>1
          <6>4. ~(Byte(drops[1].row + 1) < MatrixHeight)
            BY <3>5, <6>1
          <6>. HIDE DEF d, p
          <6>5. Byte(drops[1].row + 1) >= MatrixHeight
            BY <6>2, <6>4, Sizes
          <6>. QED
            BY <5>1, <6>3, <6>5
        <5>2. CASE p # 0
          <6>1. d = drops[1] /\ drops[1].row \in Int
            BY <2>4, <3>1, <5>2 DEF Drop
          <6>2. drops[1].row >= MatrixHeight
            <7>1. ~(drops[1].row < MatrixHeight)
              BY <3>5, <6>1
            <7>2. drops[1].row \in Int
              BY <6>1
            <7>. HIDE DEF d, p
            <7>. QED
              BY <7>1, <7>2, Sizes
          <6>3. p > 0 /\ pause'[1] = p - 1
            <7>1. pause'[1] = p - 1
              BY <3>2, <5>2
            <7>. HIDE DEF d, p
            <7>2. p > 0
              BY <3>1, <5>2
            <7>. QED
              BY <7>1, <7>2
          <6>. QED
            BY <6>2, <6>3
        <5>. QED
          BY <5>1, <5>2
      <4>. HIDE DEF d, p
      <4>5. pause'[1] \in 0..255
        BY <3>1, <4>4
      <4>6. Turns(Missing, place, pause'[1]) < Turns(Missing, drops[1], p)
        BY <1>6, <3>1, <4>2, <4>4, <4>5, TurnsPlace
      <4>7. FirstTurns' < FirstTurns
        BY <3>3, <4>3, <4>6
      <4>. QED
        BY <1>5, <2>1, <2>4, <4>7, BelowWhen
    <3>. QED
      BY <3>4, <3>5
  <2>. QED
    BY <1>4, <2>2, <2>3, <2>4
<1>. QED
  BY <1>7, <1>8, <1>9

(* A frame brings the first drop's turn, or the end of the loop.            *)
LEMMA NextFrameFalls ==
  ASSUME Inv, Inv', InLoop, NextFrame
  PROVE  InLoop' /\ Below(Rank', Rank)
<1>1. /\ pc = "fall" /\ i > n_drop /\ Missing' = Missing
      /\ n_drop' = n_drop /\ drops' = drops /\ pause' = pause /\ frame' = frame
  BY DEF NextFrame, Missing
<1>2. i \in 1..(NUM_LEDS + 1) /\ n_drop \in 0..NUM_LEDS /\ NUM_LEDS \in Nat
  BY Sizes DEF Inv, TypeOK
<1>3. CASE have = wipe
  <2>1. pc' = "tail" /\ Missing = {}
    BY <1>3, MissingType DEF NextFrame
  <2>2. /\ Rank = <<2, 0, n_drop, 0, n_drop + 2 - i>>
        /\ Rank' = <<1, 0, 0, 0, TailFrames - frame'>>
    BY <1>1, <2>1, RankNow, RankThen
  <2>. QED
    BY <2>1, <2>2, BelowWhen DEF InLoop
<1>4. CASE have # wipe
  <2>1. pc' = "fall" /\ i' = 1 /\ Missing # {} /\ n_drop >= 1
    BY <1>1, <1>4, MissingType DEF NextFrame
  <2>2. /\ Rank = <<2, Cardinality(Missing), n_drop, FirstTurns, NextTurn>>
        /\ Rank' = <<2, Cardinality(Missing), n_drop, FirstTurns, NextTurn'>>
    BY <1>1, <2>1, RankNow, RankThen DEF FirstTurns
  <2>3. NextTurn' < NextTurn
    BY <1>1, <1>2, <2>1 DEF NextTurn, InLoop
  <2>. QED
    BY <1>1, <1>2, <2>1, <2>2, <2>3, BelowWhen DEF InLoop
<1>. QED
  BY <1>3, <1>4

(* The last loop counts its frames.                                         *)
LEMMA TailFalls ==
  ASSUME Inv, Inv', InLoop, TailFrame \/ Finish
  PROVE  InLoop' /\ Below(Rank', Rank)
<1>1. CASE TailFrame
  <2>1. pc = "tail" /\ pc' = "tail" /\ frame' = frame + 1 /\ frame \in 0..TailFrames
    BY <1>1 DEF TailFrame, Inv, TypeOK
  <2>2. /\ Rank = <<1, 0, 0, 0, TailFrames - frame>>
        /\ Rank' = <<1, 0, 0, 0, TailFrames - frame'>>
    BY <2>1, RankNow, RankThen
  <2>3. TailFrames - frame' < TailFrames - frame
    BY <2>1, Sizes
  <2>. QED
    BY <2>1, <2>2, <2>3, BelowWhen DEF InLoop
<1>2. CASE Finish
  <2>1. pc = "tail" /\ pc' = "done"
    BY <1>2 DEF Finish
  <2>2. Rank = <<1, 0, 0, 0, TailFrames - frame>> /\ Rank' = <<0, 0, 0, 0, 0>>
    BY <2>1, RankNow, RankThen
  <2>. QED
    BY <2>1, <2>2, BelowWhen DEF InLoop
<1>. QED
  BY <1>1, <1>2

(* InLoop holds also before there is luck.                                  *)
LEMMA InLoopKeeps == Inv /\ InLoop /\ [Next]_vars => InLoop'
<1>. SUFFICES ASSUME Inv, InLoop, [Next]_vars PROVE InLoop'
  OBVIOUS
<1>1. n_drop \in Nat /\ i \in Nat
  BY Sizes DEF Inv, TypeOK
<1>2. CASE MoveDrop
  <2>1. /\ i' = i + 1 /\ i <= n_drop
        /\ \E d : Land(d)
    BY <1>2 DEF MoveDrop
  <2>2. n_drop' = n_drop - 1 \/ n_drop' = n_drop
    BY <2>1, LandCases
  <2>3. i' <= n_drop' + 2
    BY <1>1, <2>1, <2>2
  <2>. QED
    BY <2>3 DEF InLoop
<1>3. CASE NextFrame
  <2>1. (pc' = "tail" \/ i' = 1) /\ n_drop' = n_drop
    BY <1>3 DEF NextFrame
  <2>. QED
    BY <1>1, <2>1 DEF InLoop
<1>4. CASE TailFrame \/ Finish
  BY <1>4 DEF TailFrame, Finish, InLoop
<1>5. CASE FiveSeconds \/ GetLucky \/ UNCHANGED vars
  BY <1>5 DEF FiveSeconds, GetLucky, vars, fallen, InLoop
<1>. QED
  BY <1>2, <1>3, <1>4, <1>5 DEF Next, Loop, Done

-----------------------------------------------------------------------------
(* Inv says what random() cannot change, whatever the panel's height.       *)
THEOREM Invariance == Spec => []Inv
<1>1. Init => Inv
  BY InvInit
<1>2. ASSUME Inv, [Next]_vars PROVE Inv'
  BY <1>2, MoveDropKeeps, NextFrameKeeps, TailFrameKeeps, FinishKeeps, OthersKeep
     DEF Next, Loop, Done
<1>. QED
  BY <1>1, <1>2, PTL DEF Spec

(* The arrays of TheMatrix() hold bytes, there are never more drops than    *)
(* pixels, and it fills no pixel that the new words do not have: drops that *)
(* slide down over one that left, out of the place behind the last, change  *)
(* none of it.                                                              *)
THEOREM TypeCorrect == Spec => []TypeOK
BY Invariance, PTL DEF Inv

(* The place behind the last drop is read when they slide down, and no drop *)
(* ever comes of it that nobody has set; drops go only while there are more *)
(* than n_need.                                                             *)
THEOREM DropsCorrect == Spec => []DropsAreSet
<1>1. Inv => DropsAreSet
  <2>. SUFFICES ASSUME Inv PROVE DropsAreSet
    OBVIOUS
  <2>1. n_drop >= n_need
    BY NeedType DEF Inv, WordsAreNew, TypeOK
  <2>2. ASSUME NEW k \in 1..n_drop PROVE drops[k] # Unset
    <3>1. drops[k].col \in 0..(MatrixWidth - 1)
      BY DEF Inv, DropsFall
    <3>2. drops[k].col # 255
      BY <3>1, Sizes
    <3>. QED
      BY <3>2 DEF Unset
  <2>. QED
    BY <2>1, <2>2 DEF DropsAreSet, Falling
<1>. QED
  BY <1>1, Invariance, PTL

(* When the transition ends, all new words are lit and no drop is on the    *)
(* panel: one that waited above it at row -k has come down and left by the  *)
(* bottom in ten times MatrixHeight frames.  That is so on a panel of which *)
(* eleven heights fit in a byte, as they do in the clock's 8 rows; in a     *)
(* higher one rows[] wraps and a drop comes round to the top again.         *)
THEOREM EndCorrect ==
  ASSUME 11 * MatrixHeight <= 256
  PROVE  Spec => []EndsOnTheTime
<1>1. Init => Inv /\ DropsLeave
  BY InvInit
<1>2. ASSUME Inv, DropsLeave, [Next]_vars PROVE Inv' /\ DropsLeave'
  BY <1>2, MoveDropKeeps, NextFrameKeeps, TailFrameKeeps, TailFrameLeaves, FinishKeeps,
     OthersKeep DEF Next, Loop, Done
<1>3. Inv /\ DropsLeave => EndsOnTheTime
  <2>. SUFFICES ASSUME Inv, DropsLeave, pc = "done"
                PROVE  have = wipe /\ \A d \in Falling : ~OnPanel(d)
    BY DEF EndsOnTheTime
  <2>1. have = wipe
    BY DEF Inv, WordsAreNew
  <2>2. ASSUME NEW k \in 1..n_drop PROVE ~OnPanel(drops[k])
    <3>1. PICK x \in (frame - MatrixHeight + 1)..(frame + MatrixHeight - 1) :
            drops[k].row = RowByte(x)
      BY DEF DropsLeave
    <3>2. x \in Int /\ x >= MatrixHeight /\ frame = 10 * MatrixHeight
      BY Sizes DEF DropsLeave, TailFrames
    <3>3. RowByte(x) = x
      BY <3>2, Sizes DEF RowByte
    <3>. QED
      BY <3>1, <3>2, <3>3, Sizes DEF OnPanel
  <2>. QED
    BY <2>1, <2>2 DEF Falling
<1>. QED
  BY <1>1, <1>2, <1>3, PTL DEF Spec

(* Once random() is lucky and five seconds have passed, every step of the   *)
(* transition's loops takes it down in an order in which nothing goes down  *)
(* for ever: while it runs on it ends.  TheMatrix() then needs only so many *)
(* lucky draws in a row, and does not hold up clock() for good.             *)
THEOREM LuckEnds == Spec => [][RankFalls]_vars
<1>1. Init => Inv /\ InLoop
  <2>1. Init => Inv
    BY InvInit
  <2>2. Inv /\ Init => InLoop
    <3>1. Init => i = 1
      BY DEF Init
    <3>2. Inv => n_drop \in Nat
      BY Sizes DEF Inv, TypeOK
    <3>. QED
      BY <3>1, <3>2 DEF InLoop
  <2>. QED
    BY <2>1, <2>2
<1>2. ASSUME Inv, InLoop, [Next]_vars PROVE Inv' /\ InLoop'
  BY <1>2, MoveDropKeeps, NextFrameKeeps, TailFrameKeeps, FinishKeeps, OthersKeep,
     InLoopKeeps DEF Next, Loop, Done
<1>3. ASSUME Inv, InLoop, Inv', InLoop' PROVE RankFalls
  <2>1. Rank \in Ranks
    BY <1>3, RankType
  <2>2. Rank' \in Ranks
    BY <1>3, RankTypeThen
  <2>3. ASSUME lucky, late, Loop PROVE Below(Rank', Rank)
    BY <1>3, <2>3, MoveDropFalls, NextFrameFalls, TailFalls DEF Loop
  <2>. QED
    BY <2>1, <2>2, <2>3 DEF RankFalls
<1>. QED
  BY <1>1, <1>2, <1>3, PTL DEF Spec
=============================================================================
