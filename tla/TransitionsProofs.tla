-------------------------- MODULE TransitionsProofs --------------------------
(***************************************************************************)
(* What Transitions keeps for every faceplate whose words lie on the panel  *)
(* and whose displays do not let words overlap, on a panel of any size.     *)
(* The properties speak of the pixels lit in the last frame; Inv says what  *)
(* the arrays hold that the next frames are made of.                        *)
(***************************************************************************)
EXTENDS Transitions, FiniteSetTheorems, WellFoundedInduction, TLAPS

(* The pixels of the rows a to b in the columns of word w.                  *)
Trail(w, a, b) == {p \in Column(w) : p[2] \in a..b}

(* While the loop over the words runs there is a word to do, and its loop   *)
(* variable is between the ends of the inner loop.                          *)
InLoops ==
  /\ pc \in {"out_on", "out_off"} => todo # {} /\ todo \subseteq DISPLAYS[last_time_inc]
  /\ pc \in {"in_on", "in_off"} => todo # {} /\ todo \subseteq DISPLAYS[time_inc]
  /\ pc \in {"out_on", "out_off"} => row \in WORDS[Word].row..MatrixHeight
  /\ pc = "in_on" => row \in 0..WORDS[Word].row
  /\ pc = "in_off" => row \in 0..(WORDS[Word].row - 1)

(* The words in mask: between transitions those of last_time_inc, unless    *)
(* the clock has just been switched on; in one, those whose turn has not    *)
(* come or those that have landed; or all of them while the sweep goes      *)
(* round.                                                                   *)
MaskHasWords ==
  /\ pc = "clock" => Lit(DISPLAYS[last_time_inc])
  /\ pc = "out_on" => Lit(todo)
  /\ pc = "out_off" => Lit(todo \ {Word})
  /\ pc = "in_on" => mask = PixelsOf(DISPLAYS[time_inc] \ todo)
  /\ pc = "in_off" => mask = PixelsOf(DISPLAYS[time_inc] \ todo) \cup WordPixels(Word)
  /\ pc = "sweep_on" => mask = TimeDisplay(last_time_inc)
  /\ pc = "sweep_off" => mask = TimeDisplay(time_inc)

(* What wipe holds besides is the trail of the word that falls, as far as   *)
(* the inner loop has drawn it or not yet taken it down.                    *)
WipeHasTrail ==
  /\ pc = "out_on" => wipe \subseteq mask \cup Trail(Word, WORDS[Word].row, row - 1)
  /\ pc = "out_off" => wipe \subseteq mask \cup Trail(Word, row, MatrixHeight)
  /\ pc = "in_on" => wipe \subseteq mask \cup Trail(Word, 0, row - 1)
  /\ pc = "in_off" => wipe \subseteq mask \cup Trail(Word, row, WORDS[Word].row - 1)

(* Outside the transitions the panel shows mask.                            *)
ShownIsMask == pc = "clock" => shown = mask

Inv ==
  /\ TypeOK /\ InLoops /\ MaskHasWords /\ WipeHasTrail /\ ShownIsMask
  /\ WaitingWordsStay /\ NothingLeftBehind /\ LandedWordsStay
  /\ SweepHidesNoWord /\ EndsOnTheTime
-----------------------------------------------------------------------------
(* The panel, words and displays. *)

(* A nonempty set of numbers has a least one, so NextWord finds a word.     *)
LEMMA LeastExists ==
  ASSUME NEW S \in SUBSET Nat, S # {}
  PROVE  \E w \in S : \A v \in S : w <= v
<1>. DEFINE R == OpToRel(<, Nat)
<1>1. IsWellFoundedOn(R, Nat)
  BY NatLessThanWellFounded
<1>2. \A x, y \in Nat : x < y => <<x, y>> \in R
  BY DEF OpToRel
<1>. HIDE DEF R
<1>3. PICK w \in S : \A v \in S : ~ (<<v, w>> \in R)
  BY <1>1, WFMin
<1>4. \A v \in S : ~ (v < w)
  BY <1>2, <1>3
<1>. QED
  BY <1>4

(* A pixel is a column and a row of the panel.                              *)
LEMMA PanelPairs ==
  \A p \in Panel : /\ p[1] \in 0..(MatrixWidth - 1) /\ p[2] \in 0..(MatrixHeight - 1)
                   /\ p = <<p[1], p[2]>>
BY DEF Panel

(* A word lies in one row of the panel.                                     *)
LEMMA WordRow ==
  \A w \in DOMAIN WORDS : WORDS[w].row \in 0..(MatrixHeight - 1) /\ WORDS[w].col \in Nat
                          /\ WORDS[w].len \in Nat
<1>. SUFFICES ASSUME NEW w \in DOMAIN WORDS
              PROVE  WORDS[w].row \in 0..(MatrixHeight - 1)
  BY FaceplateAssumption
<1>1. WORDS[w].col \in Nat /\ WORDS[w].len \in Nat \ {0}
  BY FaceplateAssumption
<1>2. WORDS[w].col \in WORDS[w].col..(WORDS[w].col + WORDS[w].len - 1)
  BY <1>1
<1>3. <<WORDS[w].col, WORDS[w].row>> \in Span(w, WORDS[w].row)
  BY <1>2 DEF Span
<1>4. <<WORDS[w].col, WORDS[w].row>> \in Panel
  BY <1>3, FaceplateAssumption
<1>. QED
  BY <1>4 DEF Panel

(* setWordMask at a row sets the pixels of the word's columns in that row.  *)
LEMMA PixelsInRow ==
  ASSUME NEW w \in DOMAIN WORDS, NEW r \in Int
  PROVE  PixelsAt(w, r) = {p \in Column(w) : p[2] = r}
<1>. DEFINE c == WORDS[w].col  l == WORDS[w].len
<1>t. c \in Nat /\ l \in Nat
  BY WordRow
<1>. HIDE DEF c, l
<1>1. ASSUME NEW p \in PixelsAt(w, r) PROVE p \in Column(w) /\ p[2] = r
  <2>1. PICK x \in c..(c + l - 1) : p = <<x, r>>
    BY <1>1 DEF PixelsAt, Span, c, l
  <2>2. p \in Panel
    BY <1>1 DEF PixelsAt
  <2>3. p[1] = x /\ p[2] = r /\ c <= x /\ x < c + l
    BY <2>1, <1>t
  <2>. QED
    BY <2>2, <2>3 DEF Column, c, l
<1>2. ASSUME NEW p \in Column(w), p[2] = r PROVE p \in PixelsAt(w, r)
  <2>1. p \in Panel /\ c <= p[1] /\ p[1] < c + l
    BY DEF Column, c, l
  <2>2. p = <<p[1], r>> /\ p[1] \in Int
    BY <1>2, <2>1, PanelPairs
  <2>3. p[1] \in c..(c + l - 1)
    BY <2>1, <2>2, <1>t
  <2>4. p \in Span(w, r)
    BY <2>2, <2>3 DEF Span, c, l
  <2>. QED
    BY <2>1, <2>4 DEF PixelsAt
<1>. QED
  BY <1>1, <1>2

(* The inner loops: one frame adds a row to the trail, ...                  *)
LEMMA TrailGrows ==
  ASSUME NEW w \in DOMAIN WORDS, NEW a \in Int, NEW r \in Int, a <= r
  PROVE  Trail(w, a, r - 1) \cup PixelsAt(w, r) \subseteq Trail(w, a, r)
BY PixelsInRow, PanelPairs DEF Trail, Column

(* ... or takes one away, ...                                               *)
LEMMA TrailShrinks ==
  ASSUME NEW w \in DOMAIN WORDS, NEW r \in Int, NEW b \in Int
  PROVE  Trail(w, r, b) \ PixelsAt(w, r) \subseteq Trail(w, r + 1, b)
BY PixelsInRow, PanelPairs DEF Trail, Column

(* ... until there is none.                                                 *)
LEMMA NoTrail ==
  ASSUME NEW w \in DOMAIN WORDS, NEW a \in Int, NEW b \in Int, b < a
  PROVE  Trail(w, a, b) = {}
BY PanelPairs DEF Trail, Column

(* A trail stays in its columns, and covers the word if it meets its row.   *)
LEMMA TrailPlace ==
  ASSUME NEW w \in DOMAIN WORDS, NEW a \in Int, NEW b \in Int
  PROVE  /\ Trail(w, a, b) \subseteq Column(w)
         /\ Column(w) \subseteq Panel
         /\ WordPixels(w) \subseteq Column(w)
         /\ WORDS[w].row \in a..b => WordPixels(w) \subseteq Trail(w, a, b)
BY PixelsInRow, WordRow DEF Trail, Column, WordPixels

(* The pixels of displays.                                                  *)
LEMMA DisplayPixels ==
  /\ \A inc \in Incs : TimeDisplay(inc) = PixelsOf(DISPLAYS[inc])
  /\ \A s \in SUBSET DOMAIN WORDS : PixelsOf(s) \subseteq Panel
  /\ PixelsOf({}) = {}
BY DEF TimeDisplay, PixelsOf, WordPixels, PixelsAt

(* The first of the words to do is one of them, and taking it from them     *)
(* takes its pixels from theirs and no others.                              *)
LEMMA FirstWord ==
  ASSUME NEW inc \in Incs, NEW s \in SUBSET DISPLAYS[inc], s # {}
  PROVE  /\ NextWord(s) \in s /\ NextWord(s) \in DOMAIN WORDS
         /\ PixelsOf(s) = PixelsOf(s \ {NextWord(s)}) \cup WordPixels(NextWord(s))
         /\ PixelsOf(s) \ WordPixels(NextWord(s)) = PixelsOf(s \ {NextWord(s)})
<1>1. s \in SUBSET Nat /\ s \subseteq DOMAIN WORDS
  BY FaceplateAssumption
<1>2. \E w \in s : \A v \in s : w <= v
  BY <1>1, LeastExists
<1>3. NextWord(s) \in s
  BY <1>2 DEF NextWord
<1>4. ASSUME NEW w \in s PROVE /\ PixelsOf(s) = PixelsOf(s \ {w}) \cup WordPixels(w)
                              /\ PixelsOf(s) \ WordPixels(w) = PixelsOf(s \ {w})
  <2>1. PixelsOf(s) = PixelsOf(s \ {w}) \cup WordPixels(w)
    BY DEF PixelsOf
  <2>2. \A v \in s \ {w} : WordPixels(v) \cap WordPixels(w) = {}
    BY FaceplateAssumption
  <2>3. PixelsOf(s \ {w}) \cap WordPixels(w) = {}
    BY <2>2 DEF PixelsOf
  <2>. QED
    BY <2>1, <2>3
<1>. QED
  BY <1>1, <1>3, <1>4

(* Landing, the word's pixels join those of the words that have landed.     *)
LEMMA WordLands ==
  ASSUME NEW inc \in Incs, NEW s \in SUBSET DISPLAYS[inc], s # {}
  PROVE  PixelsOf(DISPLAYS[inc] \ (s \ {NextWord(s)}))
           = PixelsOf(DISPLAYS[inc] \ s) \cup WordPixels(NextWord(s))
<1>1. NextWord(s) \in s
  BY FirstWord
<1>2. DISPLAYS[inc] \ (s \ {NextWord(s)}) = (DISPLAYS[inc] \ s) \cup {NextWord(s)}
  BY <1>1
<1>. QED
  BY <1>2 DEF PixelsOf

(* The last values of theta sweep the whole panel.                          *)
LEMMA AllSwept == Swept(LastTheta) = Panel
<1>. SUFFICES ASSUME NEW p \in Panel PROVE Sector(p) < 7
  BY DEF Swept, LastTheta
<1>1. p[1] - CenterCol \in Int /\ p[2] - CenterRow \in Int
  BY PanelPairs, FaceplateAssumption
<1>. QED
  BY <1>1 DEF Sector

-----------------------------------------------------------------------------
(* Init and the actions keep Inv. *)

(* A dark clock before its first pass has nothing in its arrays.            *)
LEMMA InvInit == Init => Inv
<1>. SUFFICES ASSUME Init PROVE Inv
  OBVIOUS
<1>1. TypeOK
  BY FaceplateAssumption DEF Init, TypeOK, LastTheta
<1>. QED
  BY <1>1 DEF Init, Inv, InLoops, MaskHasWords, WipeHasTrail, ShownIsMask, WaitingWordsStay,
              NothingLeftBehind, LandedWordsStay, SweepHidesNoWord, EndsOnTheTime, Lit

(* word_drop starts with all words waiting and nothing but them lit.        *)
LEMMA StartWordDropStep == Inv /\ StartWordDrop => Inv'
<1>. SUFFICES ASSUME Inv, StartWordDrop PROVE Inv'
  OBVIOUS
<1>1. /\ pc = "clock" /\ pc' = "out_on" /\ time_inc' \in Incs /\ last_time_inc \in Incs
      /\ todo' = DISPLAYS[last_time_inc] /\ todo' # {} /\ todo' \subseteq DOMAIN WORDS
      /\ wipe' = mask /\ shown = mask /\ mask \subseteq Panel
      /\ UNCHANGED <<mask, shown, last_time_inc, theta>>
  BY FaceplateAssumption DEF StartWordDrop, Inv, TypeOK, ShownIsMask
<1>2. Word' \in todo' /\ Word' \in DOMAIN WORDS /\ row' = WORDS[Word'].row
  BY <1>1, FirstWord DEF StartWordDrop, Word, NextWord
<1>3. row' \in 0..(MatrixHeight - 1) /\ MatrixHeight \in Nat
  BY <1>2, WordRow, FaceplateAssumption
<1>4. Lit(todo)'
  BY <1>1 DEF Inv, MaskHasWords, Lit
<1>5. TypeOK'
  BY <1>1, <1>3 DEF TypeOK, Inv
<1>6. InLoops' /\ WipeHasTrail' /\ MaskHasWords'
  BY <1>1, <1>2, <1>3, <1>4 DEF InLoops, WipeHasTrail, MaskHasWords
<1>7. WaitingWordsStay'
  BY <1>1, <1>4 DEF WaitingWordsStay
<1>. QED
  BY <1>1, <1>5, <1>6, <1>7 DEF Inv, ShownIsMask, NothingLeftBehind, LandedWordsStay,
                                SweepHidesNoWord, EndsOnTheTime

(* What the loops of word_drop_out work on.                                 *)
LEMMA OutLoop ==
  ASSUME Inv, pc \in {"out_on", "out_off"}
  PROVE  /\ last_time_inc \in Incs /\ todo \in SUBSET DISPLAYS[last_time_inc] /\ todo # {}
         /\ Word \in todo /\ Word \in DOMAIN WORDS
         /\ WORDS[Word].row \in 0..(MatrixHeight - 1) /\ MatrixHeight \in Nat
         /\ row \in WORDS[Word].row..MatrixHeight
         /\ todo \subseteq DOMAIN WORDS /\ todo \ {Word} \subseteq DOMAIN WORDS
         /\ mask \subseteq Panel /\ wipe \subseteq Panel
<1>1. /\ last_time_inc \in Incs /\ todo \in SUBSET DISPLAYS[last_time_inc] /\ todo # {}
      /\ todo \subseteq DOMAIN WORDS /\ mask \subseteq Panel /\ wipe \subseteq Panel
      /\ row \in WORDS[Word].row..MatrixHeight
  BY DEF Inv, TypeOK, InLoops
<1>2. Word = NextWord(todo)
  BY DEF Word, NextWord
<1>. QED
  BY <1>1, <1>2, FirstWord, WordRow, FaceplateAssumption

(* The trail grows down; at its end the word leaves mask.                   *)
LEMMA OutOnStep == Inv /\ OutOn => Inv'
<1>. SUFFICES ASSUME Inv, OutOn PROVE Inv'
  OBVIOUS
<1>t. /\ pc = "out_on" /\ pc' \in {"out_on", "out_off"}
      /\ UNCHANGED <<last_time_inc, time_inc, todo, theta>> /\ Word' = Word
  BY DEF OutOn, Word
<1>o. /\ last_time_inc \in Incs /\ todo \in SUBSET DISPLAYS[last_time_inc] /\ todo # {}
      /\ Word \in todo /\ Word \in DOMAIN WORDS
      /\ WORDS[Word].row \in 0..(MatrixHeight - 1) /\ MatrixHeight \in Nat
      /\ row \in WORDS[Word].row..MatrixHeight
      /\ todo \subseteq DOMAIN WORDS /\ todo \ {Word} \subseteq DOMAIN WORDS
      /\ mask \subseteq Panel /\ wipe \subseteq Panel
  BY <1>t, OutLoop
<1>1. wipe' \subseteq mask \cup Trail(Word, WORDS[Word].row, row)
  <2>1. wipe \subseteq mask \cup Trail(Word, WORDS[Word].row, row - 1)
    BY <1>t DEF Inv, WipeHasTrail
  <2>2. Trail(Word, WORDS[Word].row, row - 1) \cup PixelsAt(Word, row)
          \subseteq Trail(Word, WORDS[Word].row, row)
    <3>1. /\ Word \in DOMAIN WORDS /\ WORDS[Word].row \in Int /\ row \in Int
          /\ WORDS[Word].row <= row
      BY <1>o
    <3>. QED
      BY <3>1, TrailGrows
  <2>. QED
    BY <2>1, <2>2 DEF OutOn
<1>2. /\ Trail(Word, WORDS[Word].row, row) \subseteq Column(Word)
      /\ Column(Word) \subseteq Panel /\ WordPixels(Word) \subseteq Column(Word)
      /\ WordPixels(Word) \subseteq Trail(Word, WORDS[Word].row, row)
  BY <1>o, TrailPlace
<1>3. /\ mask \subseteq shown' /\ shown' \subseteq mask \cup Column(Word)
      /\ wipe' \subseteq Panel /\ shown' \subseteq Panel
  BY <1>1, <1>2, <1>o DEF OutOn
<1>4. Lit(todo)
  BY <1>t DEF Inv, MaskHasWords
<1>5. CASE row < MatrixHeight
  <2>1. row' = row + 1 /\ mask' = mask /\ pc' = pc
    BY <1>5, <1>o DEF OutOn
  <2>2. row' - 1 = row /\ row' \in WORDS[Word].row..MatrixHeight /\ row' \in 0..MatrixHeight
    BY <2>1, <1>5, <1>o
  <2>3. TypeOK'
    BY <1>t, <1>o, <1>3, <2>1, <2>2 DEF TypeOK, Inv
  <2>4. InLoops' /\ WipeHasTrail' /\ MaskHasWords' /\ WaitingWordsStay'
    BY <1>t, <1>o, <1>1, <1>3, <1>4, <2>1, <2>2
       DEF InLoops, WipeHasTrail, MaskHasWords, WaitingWordsStay, Lit
  <2>. QED
    BY <1>t, <2>1, <2>3, <2>4 DEF Inv, ShownIsMask, NothingLeftBehind, LandedWordsStay,
                                  SweepHidesNoWord, EndsOnTheTime
<1>6. CASE row = MatrixHeight
  <2>1. row' = WORDS[Word].row /\ mask' = mask \ WordPixels(Word) /\ pc' = "out_off"
    BY <1>6, <1>o DEF OutOn
  <2>2. Lit(todo \ {Word})'
    <3>1. Word = NextWord(todo)
      BY DEF Word, NextWord
    <3>2. PixelsOf(todo) \ WordPixels(Word) = PixelsOf(todo \ {Word})
      BY <1>o, <3>1, FirstWord
    <3>3. \/ mask' = PixelsOf(todo \ {Word})
          \/ mask' = {} /\ last_time_inc' = 0
      BY <1>4, <1>t, <2>1, <3>2 DEF Lit
    <3>. QED
      BY <1>t, <3>3 DEF Lit
  <2>3. wipe' \subseteq mask' \cup Trail(Word, row', MatrixHeight)
    BY <1>1, <1>2, <1>6, <2>1
  <2>4. mask' \subseteq shown' /\ shown' \subseteq mask' \cup WordPixels(Word) \cup Column(Word)
    BY <1>3, <2>1
  <2>5. TypeOK'
    BY <1>t, <1>o, <1>3, <2>1 DEF TypeOK, Inv
  <2>6. InLoops' /\ WipeHasTrail' /\ MaskHasWords' /\ WaitingWordsStay'
    BY <1>t, <1>o, <2>1, <2>2, <2>3, <2>4
       DEF InLoops, WipeHasTrail, MaskHasWords, WaitingWordsStay
  <2>. QED
    BY <1>t, <2>1, <2>5, <2>6 DEF Inv, ShownIsMask, NothingLeftBehind, LandedWordsStay,
                                  SweepHidesNoWord, EndsOnTheTime
<1>. QED
  BY <1>5, <1>6 DEF OutOn

(* The trail is taken down with nothing else; then comes the next word.     *)
LEMMA OutOffStep == Inv /\ OutOff => Inv'
<1>. SUFFICES ASSUME Inv, OutOff PROVE Inv'
  OBVIOUS
<1>t. /\ pc = "out_off" /\ pc' \in {"out_off", "in", "out_on"}
      /\ UNCHANGED <<mask, last_time_inc, time_inc, theta>>
  BY DEF OutOff
<1>o. /\ last_time_inc \in Incs /\ todo \in SUBSET DISPLAYS[last_time_inc] /\ todo # {}
      /\ Word \in todo /\ Word \in DOMAIN WORDS
      /\ WORDS[Word].row \in 0..(MatrixHeight - 1) /\ MatrixHeight \in Nat
      /\ row \in WORDS[Word].row..MatrixHeight
      /\ todo \subseteq DOMAIN WORDS /\ todo \ {Word} \subseteq DOMAIN WORDS
      /\ mask \subseteq Panel /\ wipe \subseteq Panel
  BY <1>t, OutLoop
<1>1. wipe' \subseteq mask \cup Trail(Word, row + 1, MatrixHeight)
  <2>1. wipe \subseteq mask \cup Trail(Word, row, MatrixHeight)
    BY <1>t DEF Inv, WipeHasTrail
  <2>2. Trail(Word, row, MatrixHeight) \ PixelsAt(Word, row)
          \subseteq Trail(Word, row + 1, MatrixHeight)
    BY <1>o, TrailShrinks
  <2>. QED
    BY <2>1, <2>2 DEF OutOff
<1>2. Trail(Word, row + 1, MatrixHeight) \subseteq Column(Word) /\ Column(Word) \subseteq Panel
  BY <1>o, TrailPlace
<1>3. /\ mask \subseteq shown' /\ shown' \subseteq mask \cup Column(Word)
      /\ wipe' \subseteq Panel /\ shown' \subseteq Panel
  BY <1>1, <1>2, <1>o DEF OutOff
<1>4. Lit(todo \ {Word})
  BY <1>t DEF Inv, MaskHasWords
<1>5. CASE row < MatrixHeight
  <2>1. row' = row + 1 /\ UNCHANGED <<pc, todo>>
    BY <1>5, <1>o DEF OutOff
  <2>2. /\ row' \in WORDS[Word].row..MatrixHeight /\ row' \in 0..MatrixHeight
        /\ Word' = Word
    BY <2>1, <1>5, <1>o DEF Word
  <2>3. TypeOK'
    BY <1>t, <1>o, <1>3, <2>1, <2>2 DEF TypeOK, Inv
  <2>4. InLoops' /\ WipeHasTrail' /\ MaskHasWords' /\ WaitingWordsStay'
    BY <1>t, <1>o, <1>1, <1>3, <1>4, <2>1, <2>2
       DEF InLoops, WipeHasTrail, MaskHasWords, WaitingWordsStay, Lit
  <2>. QED
    BY <1>t, <2>1, <2>3, <2>4 DEF Inv, ShownIsMask, NothingLeftBehind, LandedWordsStay,
                                  SweepHidesNoWord, EndsOnTheTime
<1>6. CASE row = MatrixHeight
  <2>1. todo' = todo \ {Word}
    BY <1>6, <1>o DEF OutOff
  <2>2. wipe' \subseteq mask /\ shown' = mask
    <3>1. Trail(Word, row + 1, MatrixHeight) = {}
      BY <1>6, <1>o, NoTrail
    <3>. QED
      BY <3>1, <1>1 DEF OutOff
  <2>3. CASE todo' = {}
    <3>1. pc' = "in" /\ row' = 0
      BY <1>6, <1>o, <2>3 DEF OutOff
    <3>2. shown' = {}
      BY <1>4, <2>1, <2>2, <2>3, DisplayPixels DEF Lit
    <3>3. TypeOK'
      BY <1>t, <1>o, <1>3, <2>1, <3>1 DEF TypeOK, Inv
    <3>. QED
      BY <3>1, <3>2, <3>3 DEF Inv, InLoops, WipeHasTrail, MaskHasWords, WaitingWordsStay,
         ShownIsMask, NothingLeftBehind, LandedWordsStay, SweepHidesNoWord, EndsOnTheTime
  <2>4. CASE todo' # {}
    <3>1. pc' = "out_on" /\ row' = WORDS[NextWord(todo')].row
      BY <1>6, <1>o, <2>4 DEF OutOff
    <3>2. todo' \in SUBSET DISPLAYS[last_time_inc]
      BY <1>o, <2>1
    <3>3. Word' \in todo' /\ Word' \in DOMAIN WORDS /\ row' = WORDS[Word'].row
      BY <1>o, <2>4, <3>1, <3>2, FirstWord DEF Word, NextWord
    <3>4. row' \in 0..(MatrixHeight - 1)
      BY <3>3, WordRow
    <3>5. TypeOK'
      BY <1>t, <1>o, <1>3, <2>1, <3>1, <3>4 DEF TypeOK, Inv
    <3>6. Lit(todo)' /\ mask' = shown' /\ wipe' \subseteq mask'
      BY <1>t, <1>4, <2>1, <2>2 DEF Lit
    <3>7. InLoops' /\ WipeHasTrail' /\ MaskHasWords' /\ WaitingWordsStay'
      BY <1>t, <1>o, <2>4, <3>1, <3>2, <3>3, <3>4, <3>6
         DEF InLoops, WipeHasTrail, MaskHasWords, WaitingWordsStay
    <3>. QED
      BY <3>1, <3>5, <3>7 DEF Inv, ShownIsMask, NothingLeftBehind, LandedWordsStay,
                              SweepHidesNoWord, EndsOnTheTime
  <2>. QED
    BY <2>3, <2>4
<1>. QED
  BY <1>5, <1>6 DEF OutOff

(* word_drop_in starts on a dark panel with empty arrays.                   *)
LEMMA StartInStep == Inv /\ StartIn => Inv'
<1>. SUFFICES ASSUME Inv, StartIn PROVE Inv'
  OBVIOUS
<1>1. /\ pc = "in" /\ pc' = "in_on" /\ mask' = {} /\ wipe' = {} /\ row' = 0
      /\ todo' = DISPLAYS[time_inc] /\ UNCHANGED <<shown, last_time_inc, time_inc, theta>>
      /\ shown = {}
  BY DEF StartIn, Inv, NothingLeftBehind
<1>2. time_inc \in Incs /\ todo' # {} /\ todo' \subseteq DOMAIN WORDS
  BY <1>1, FaceplateAssumption DEF Inv, TypeOK
<1>3. Word' \in DOMAIN WORDS
  BY <1>1, <1>2, FirstWord DEF Word, NextWord
<1>4. 0 \in 0..WORDS[Word'].row /\ 0 \in 0..MatrixHeight
  BY <1>3, WordRow, FaceplateAssumption
<1>5. PixelsOf(DISPLAYS[time_inc]' \ todo') = {}
  BY <1>1, DisplayPixels
<1>6. TypeOK'
  BY <1>1, <1>2, <1>4 DEF Inv, TypeOK
<1>7. InLoops' /\ MaskHasWords' /\ WipeHasTrail' /\ LandedWordsStay'
  BY <1>1, <1>2, <1>4, <1>5 DEF InLoops, MaskHasWords, WipeHasTrail, LandedWordsStay
<1>. QED
  BY <1>1, <1>6, <1>7 DEF Inv, ShownIsMask, WaitingWordsStay, NothingLeftBehind,
                          SweepHidesNoWord, EndsOnTheTime

(* What the loops of word_drop_in work on.                                  *)
LEMMA InLoop ==
  ASSUME Inv, pc \in {"in_on", "in_off"}
  PROVE  /\ time_inc \in Incs /\ todo \in SUBSET DISPLAYS[time_inc] /\ todo # {}
         /\ Word \in todo /\ Word \in DOMAIN WORDS
         /\ WORDS[Word].row \in 0..(MatrixHeight - 1) /\ MatrixHeight \in Nat
         /\ row \in 0..WORDS[Word].row
         /\ todo \subseteq DOMAIN WORDS
         /\ mask \subseteq Panel /\ wipe \subseteq Panel
         /\ PixelsOf(DISPLAYS[time_inc] \ (todo \ {Word}))
              = PixelsOf(DISPLAYS[time_inc] \ todo) \cup WordPixels(Word)
         /\ WordPixels(Word) \subseteq Column(Word) /\ Column(Word) \subseteq Panel
<1>1. /\ time_inc \in Incs /\ todo \in SUBSET DISPLAYS[time_inc] /\ todo # {}
      /\ todo \subseteq DOMAIN WORDS /\ mask \subseteq Panel /\ wipe \subseteq Panel
  BY DEF Inv, TypeOK, InLoops
<1>2. Word = NextWord(todo)
  BY DEF Word, NextWord
<1>3. Word \in todo /\ Word \in DOMAIN WORDS
  BY <1>1, <1>2, FirstWord
<1>4. WORDS[Word].row \in 0..(MatrixHeight - 1) /\ MatrixHeight \in Nat
  BY <1>3, WordRow, FaceplateAssumption
<1>5. row \in 0..WORDS[Word].row
  BY <1>4 DEF Inv, InLoops
<1>6. WordPixels(Word) \subseteq Column(Word) /\ Column(Word) \subseteq Panel
  BY <1>3, TrailPlace
<1>7. PixelsOf(DISPLAYS[time_inc] \ (todo \ {Word}))
        = PixelsOf(DISPLAYS[time_inc] \ todo) \cup WordPixels(Word)
  BY <1>1, <1>2, WordLands
<1>. QED
  BY <1>1, <1>3, <1>4, <1>5, <1>6, <1>7

(* A word has landed and its trail is gone: the frame shows the words that  *)
(* have landed, and the next word falls or the transition has ended.        *)
LEMMA NextWordFalls ==
  ASSUME Inv, pc \in {"in_on", "in_off"}, InNextWord,
         UNCHANGED <<last_time_inc, time_inc, theta>>,
         mask' = PixelsOf(DISPLAYS[time_inc] \ (todo \ {Word})),
         wipe' \subseteq mask', shown' = mask', mask' \subseteq Panel
  PROVE  Inv'
<1>i. /\ time_inc \in Incs /\ todo \in SUBSET DISPLAYS[time_inc] /\ MatrixHeight \in Nat
      /\ todo \subseteq DOMAIN WORDS
  BY InLoop
<1>1. todo' = todo \ {Word} /\ row' = 0 /\ pc' = IF todo' = {} THEN "draw" ELSE "in_on"
  BY DEF InNextWord
<1>2. TypeOK'
  BY <1>1, <1>i DEF Inv, TypeOK
<1>3. CASE todo' = {}
  <2>1. shown' = TimeDisplay(time_inc)'
    <3>1. DISPLAYS[time_inc] \ todo' = DISPLAYS[time_inc]
      BY <1>3
    <3>2. shown' = PixelsOf(DISPLAYS[time_inc])
      BY <1>1, <3>1
    <3>. QED
      BY <1>i, <3>2, DisplayPixels
  <2>. QED
    BY <1>1, <1>2, <1>3, <2>1 DEF Inv, InLoops, MaskHasWords, WipeHasTrail, ShownIsMask,
       WaitingWordsStay, NothingLeftBehind, LandedWordsStay, SweepHidesNoWord, EndsOnTheTime
<1>4. CASE todo' # {}
  <2>1. todo' \in SUBSET DISPLAYS[time_inc] /\ pc' = "in_on"
    BY <1>1, <1>4, <1>i
  <2>2. Word' \in DOMAIN WORDS
    <3>1. NextWord(todo') \in DOMAIN WORDS
      BY <1>4, <1>i, <2>1, FirstWord
    <3>2. Word' = NextWord(todo')
      BY DEF Word, NextWord
    <3>. QED
      BY <3>1, <3>2
  <2>3. 0 \in 0..WORDS[Word'].row
    BY <2>2, WordRow
  <2>4. mask' = PixelsOf(DISPLAYS[time_inc] \ todo')
    BY <1>1
  <2>. QED
    BY <1>1, <1>2, <1>4, <2>1, <2>3, <2>4 DEF Inv, InLoops, MaskHasWords, WipeHasTrail,
       ShownIsMask, WaitingWordsStay, NothingLeftBehind, LandedWordsStay, SweepHidesNoWord,
       EndsOnTheTime
<1>. QED
  BY <1>3, <1>4

(* The trail grows from the top; at the word's row the word enters mask.    *)
LEMMA InOnStep == Inv /\ InOn => Inv'
<1>. SUFFICES ASSUME Inv, InOn PROVE Inv'
  OBVIOUS
<1>. DEFINE landed == PixelsOf(DISPLAYS[time_inc] \ todo)
<1>t. /\ pc = "in_on" /\ UNCHANGED <<last_time_inc, time_inc, theta>>
      /\ wipe' = wipe \cup PixelsAt(Word, row) /\ shown' = mask \cup wipe'
  BY DEF InOn
<1>i. /\ time_inc \in Incs /\ todo \in SUBSET DISPLAYS[time_inc] /\ todo # {}
      /\ Word \in todo /\ Word \in DOMAIN WORDS
      /\ WORDS[Word].row \in 0..(MatrixHeight - 1) /\ MatrixHeight \in Nat
      /\ row \in 0..WORDS[Word].row
      /\ todo \subseteq DOMAIN WORDS
      /\ mask \subseteq Panel /\ wipe \subseteq Panel
      /\ PixelsOf(DISPLAYS[time_inc] \ (todo \ {Word})) = landed \cup WordPixels(Word)
      /\ WordPixels(Word) \subseteq Column(Word) /\ Column(Word) \subseteq Panel
  BY <1>t, InLoop
<1>1. mask = landed
  BY <1>t DEF Inv, MaskHasWords
<1>. HIDE DEF landed
<1>2. wipe' \subseteq mask \cup Trail(Word, 0, row)
  <2>1. wipe \subseteq mask \cup Trail(Word, 0, row - 1)
    BY <1>t DEF Inv, WipeHasTrail
  <2>2. Trail(Word, 0, row - 1) \cup PixelsAt(Word, row) \subseteq Trail(Word, 0, row)
    <3>1. Word \in DOMAIN WORDS /\ row \in Int /\ 0 <= row
      BY <1>i
    <3>. QED
      BY <3>1, TrailGrows
  <2>. QED
    BY <2>1, <2>2, <1>t
<1>3. Trail(Word, 0, row) \subseteq Column(Word)
  BY <1>i, TrailPlace
<1>4. /\ landed \subseteq shown' /\ shown' \subseteq landed \cup Column(Word)
      /\ wipe' \subseteq Panel /\ shown' \subseteq Panel
  BY <1>1, <1>2, <1>3, <1>i, <1>t
<1>5. CASE row < WORDS[Word].row
  <2>1. row' = row + 1 /\ UNCHANGED <<mask, pc, todo>>
    BY <1>5, <1>i DEF InOn
  <2>2. Word' = Word /\ landed' = landed
    BY <2>1, <1>t DEF Word, landed
  <2>3. /\ row' \in 0..WORDS[Word].row /\ row' - 1 = row /\ row' \in 0..MatrixHeight
    BY <2>1, <1>5, <1>i
  <2>4. TypeOK'
    BY <1>t, <1>i, <1>4, <2>1, <2>3 DEF Inv, TypeOK
  <2>5. InLoops' /\ MaskHasWords' /\ WipeHasTrail' /\ LandedWordsStay'
    BY <1>t, <1>i, <1>1, <1>2, <1>4, <2>1, <2>2, <2>3
       DEF InLoops, MaskHasWords, WipeHasTrail, LandedWordsStay, landed
  <2>. QED
    BY <1>t, <2>1, <2>4, <2>5 DEF Inv, ShownIsMask, WaitingWordsStay, NothingLeftBehind,
                                  SweepHidesNoWord, EndsOnTheTime
<1>6. CASE row = WORDS[Word].row
  <2>1. mask' = mask \cup WordPixels(Word)
    BY <1>6, <1>i DEF InOn
  <2>2. mask' \subseteq Panel
    BY <2>1, <1>i
  <2>3. CASE row > 0
    <3>1. row' = 0 /\ pc' = "in_off" /\ UNCHANGED todo
      BY <1>6, <2>3, <1>i DEF InOn
    <3>2. Word' = Word /\ landed' = landed /\ 0 \in 0..(WORDS[Word].row - 1)
      BY <3>1, <1>t, <1>6, <2>3, <1>i DEF Word, landed
    <3>3. wipe' \subseteq mask' \cup Trail(Word, 0, WORDS[Word].row - 1)
      <4>1. Trail(Word, 0, row) \subseteq WordPixels(Word) \cup Trail(Word, 0, row - 1)
        BY <1>6, <1>i, PixelsInRow, PanelPairs DEF Trail, Column, WordPixels
      <4>. QED
        BY <4>1, <1>2, <1>6, <2>1
    <3>4. TypeOK'
      BY <1>t, <1>i, <1>4, <2>2, <3>1 DEF Inv, TypeOK
    <3>5. InLoops' /\ MaskHasWords' /\ WipeHasTrail' /\ LandedWordsStay'
      BY <1>t, <1>i, <1>1, <1>4, <2>1, <3>1, <3>2, <3>3
         DEF InLoops, MaskHasWords, WipeHasTrail, LandedWordsStay, landed
    <3>. QED
      BY <1>t, <3>1, <3>4, <3>5 DEF Inv, ShownIsMask, WaitingWordsStay, NothingLeftBehind,
                                    SweepHidesNoWord, EndsOnTheTime
  <2>4. CASE row = 0
    <3>1. InNextWord
      BY <1>6, <2>4, <1>i DEF InOn
    <3>2. PixelsAt(Word, row) = WordPixels(Word) /\ Trail(Word, 0, row) \subseteq WordPixels(Word)
      BY <1>6, <2>4, <1>i, PixelsInRow, PanelPairs DEF Trail, Column, WordPixels
    <3>3. wipe' \subseteq mask' /\ shown' = mask'
      BY <3>2, <1>2, <1>t, <2>1
    <3>4. mask' = PixelsOf(DISPLAYS[time_inc] \ (todo \ {Word}))
      BY <1>1, <1>i, <2>1
    <3>. QED
      BY <1>t, <2>2, <3>1, <3>3, <3>4, NextWordFalls
  <2>. QED
    BY <2>3, <2>4, <1>i
<1>. QED
  BY <1>5, <1>6 DEF InOn

(* The trail is taken down to the row above the word.                       *)
LEMMA InOffStep == Inv /\ InOff => Inv'
<1>. SUFFICES ASSUME Inv, InOff PROVE Inv'
  OBVIOUS
<1>. DEFINE landed == PixelsOf(DISPLAYS[time_inc] \ todo)
<1>t. /\ pc = "in_off" /\ UNCHANGED <<mask, last_time_inc, time_inc, theta>>
      /\ wipe' = wipe \ PixelsAt(Word, row) /\ shown' = mask \cup wipe'
  BY DEF InOff
<1>i. /\ time_inc \in Incs /\ todo \in SUBSET DISPLAYS[time_inc] /\ todo # {}
      /\ Word \in todo /\ Word \in DOMAIN WORDS
      /\ WORDS[Word].row \in 0..(MatrixHeight - 1) /\ MatrixHeight \in Nat
      /\ row \in 0..WORDS[Word].row
      /\ todo \subseteq DOMAIN WORDS
      /\ mask \subseteq Panel /\ wipe \subseteq Panel
      /\ PixelsOf(DISPLAYS[time_inc] \ (todo \ {Word})) = landed \cup WordPixels(Word)
      /\ WordPixels(Word) \subseteq Column(Word) /\ Column(Word) \subseteq Panel
  BY <1>t, InLoop
<1>1. mask = landed \cup WordPixels(Word) /\ row \in 0..(WORDS[Word].row - 1)
  BY <1>t DEF Inv, MaskHasWords, InLoops
<1>. HIDE DEF landed
<1>2. wipe' \subseteq mask \cup Trail(Word, row + 1, WORDS[Word].row - 1)
  <2>1. wipe \subseteq mask \cup Trail(Word, row, WORDS[Word].row - 1)
    BY <1>t DEF Inv, WipeHasTrail
  <2>2. Trail(Word, row, WORDS[Word].row - 1) \ PixelsAt(Word, row)
          \subseteq Trail(Word, row + 1, WORDS[Word].row - 1)
    BY <1>i, TrailShrinks
  <2>. QED
    BY <2>1, <2>2, <1>t
<1>3. Trail(Word, row + 1, WORDS[Word].row - 1) \subseteq Column(Word)
  BY <1>i, TrailPlace
<1>4. /\ landed \subseteq shown' /\ shown' \subseteq landed \cup Column(Word)
      /\ wipe' \subseteq Panel /\ shown' \subseteq Panel
  BY <1>1, <1>2, <1>3, <1>i, <1>t
<1>5. CASE row < WORDS[Word].row - 1
  <2>1. row' = row + 1 /\ UNCHANGED <<pc, todo>>
    BY <1>5, <1>i DEF InOff
  <2>2. Word' = Word /\ landed' = landed
    BY <2>1, <1>t DEF Word, landed
  <2>3. row' \in 0..(WORDS[Word].row - 1) /\ row' \in 0..MatrixHeight
    BY <2>1, <1>5, <1>i
  <2>4. TypeOK'
    BY <1>t, <1>i, <1>4, <2>1, <2>3 DEF Inv, TypeOK
  <2>5. InLoops' /\ MaskHasWords' /\ WipeHasTrail' /\ LandedWordsStay'
    BY <1>t, <1>i, <1>1, <1>2, <1>4, <2>1, <2>2, <2>3
       DEF InLoops, MaskHasWords, WipeHasTrail, LandedWordsStay, landed
  <2>. QED
    BY <1>t, <2>1, <2>4, <2>5 DEF Inv, ShownIsMask, WaitingWordsStay, NothingLeftBehind,
                                  SweepHidesNoWord, EndsOnTheTime
<1>6. CASE row = WORDS[Word].row - 1
  <2>1. InNextWord
    BY <1>6, <1>i DEF InOff
  <2>2. Trail(Word, row + 1, WORDS[Word].row - 1) = {}
    BY <1>6, <1>i, NoTrail
  <2>3. wipe' \subseteq mask' /\ shown' = mask'
    BY <2>2, <1>2, <1>t
  <2>4. mask' = PixelsOf(DISPLAYS[time_inc] \ (todo \ {Word})) /\ mask' \subseteq Panel
    BY <1>1, <1>i, <1>t
  <2>. QED
    BY <1>t, <2>1, <2>3, <2>4, NextWordFalls
<1>. QED
  BY <1>5, <1>6 DEF InOff

(* The sweep starts from an empty wipe over the words of last_time_inc.     *)
LEMMA StartWipeAroundStep == Inv /\ StartWipeAround => Inv'
<1>. SUFFICES ASSUME Inv, StartWipeAround PROVE Inv'
  OBVIOUS
<1>1. /\ pc' = "sweep_on" /\ wipe' = {} /\ theta' = 0 /\ time_inc' \in Incs
      /\ mask' = TimeDisplay(last_time_inc) /\ UNCHANGED <<shown, last_time_inc, todo, row>>
  BY DEF StartWipeAround
<1>2. TimeDisplay(last_time_inc) \subseteq Panel /\ last_time_inc \in Incs
  BY DisplayPixels, FaceplateAssumption DEF Inv, TypeOK
<1>3. TypeOK'
  BY <1>1, <1>2 DEF Inv, TypeOK, LastTheta
<1>. QED
  BY <1>1, <1>3 DEF Inv, InLoops, MaskHasWords, WipeHasTrail, ShownIsMask, WaitingWordsStay,
                    NothingLeftBehind, LandedWordsStay, SweepHidesNoWord, EndsOnTheTime

(* It fills the panel, and the words change behind it, ...                  *)
LEMMA SweepOnStep == Inv /\ SweepOn => Inv'
<1>. SUFFICES ASSUME Inv, SweepOn PROVE Inv'
  OBVIOUS
<1>1. /\ pc = "sweep_on" /\ shown' = wipe \cup Swept(theta) \cup mask
      /\ UNCHANGED <<last_time_inc, time_inc, todo, row>>
  BY DEF SweepOn
<1>2. /\ mask = TimeDisplay(last_time_inc) /\ mask \subseteq Panel /\ wipe \subseteq Panel
      /\ Swept(theta) \subseteq Panel /\ theta \in 0..LastTheta /\ LastTheta \in Nat
  BY <1>1 DEF Inv, MaskHasWords, TypeOK, Swept, LastTheta
<1>3. TimeDisplay(time_inc) \subseteq Panel
  BY DisplayPixels, FaceplateAssumption DEF Inv, TypeOK
<1>4. CASE theta < LastTheta
  <2>1. /\ wipe' = wipe \cup Swept(theta) /\ theta' = theta + 1 /\ UNCHANGED <<mask, pc>>
        /\ theta' \in 0..LastTheta
    BY <1>2, <1>4 DEF SweepOn
  <2>2. TypeOK'
    BY <1>1, <1>2, <2>1 DEF Inv, TypeOK
  <2>. QED
    BY <1>1, <1>2, <2>1, <2>2 DEF Inv, InLoops, MaskHasWords, WipeHasTrail, ShownIsMask,
       WaitingWordsStay, NothingLeftBehind, LandedWordsStay, SweepHidesNoWord, EndsOnTheTime
<1>5. CASE theta = LastTheta
  <2>1. mask' = TimeDisplay(time_inc) /\ wipe' = Panel /\ theta' = 0 /\ pc' = "sweep_off"
    BY <1>2, <1>5 DEF SweepOn
  <2>2. shown' = Panel
    BY <1>1, <1>2, <1>5, AllSwept
  <2>3. TypeOK'
    BY <1>1, <1>2, <1>3, <2>1, <2>2 DEF Inv, TypeOK
  <2>. QED
    BY <1>1, <1>3, <2>1, <2>2, <2>3 DEF Inv, InLoops, MaskHasWords, WipeHasTrail, ShownIsMask,
       WaitingWordsStay, NothingLeftBehind, LandedWordsStay, SweepHidesNoWord, EndsOnTheTime,
       TimeDisplay
<1>. QED
  BY <1>4, <1>5 DEF SweepOn

(* ... and empties it but for the new words.                                *)
LEMMA SweepOffStep == Inv /\ SweepOff => Inv'
<1>. SUFFICES ASSUME Inv, SweepOff PROVE Inv'
  OBVIOUS
<1>1. /\ pc = "sweep_off" /\ wipe' = wipe \ Swept(theta) /\ shown' = wipe' \cup mask
      /\ UNCHANGED <<mask, last_time_inc, time_inc, todo, row>>
  BY DEF SweepOff
<1>2. /\ mask = TimeDisplay(time_inc) /\ mask \subseteq Panel /\ wipe \subseteq Panel
      /\ theta \in 0..LastTheta /\ LastTheta \in Nat
  BY <1>1 DEF Inv, MaskHasWords, TypeOK, LastTheta
<1>3. CASE theta < LastTheta
  <2>1. theta' = theta + 1 /\ UNCHANGED pc /\ theta' \in 0..LastTheta /\ theta' # 0
    BY <1>2, <1>3 DEF SweepOff
  <2>2. TypeOK'
    BY <1>1, <1>2, <2>1 DEF Inv, TypeOK
  <2>. QED
    BY <1>1, <1>2, <2>1, <2>2 DEF Inv, InLoops, MaskHasWords, WipeHasTrail, ShownIsMask,
       WaitingWordsStay, NothingLeftBehind, LandedWordsStay, SweepHidesNoWord, EndsOnTheTime
<1>4. CASE theta = LastTheta
  <2>1. theta' = 0 /\ pc' = "draw"
    BY <1>2, <1>4 DEF SweepOff
  <2>2. shown' = TimeDisplay(time_inc)
    BY <1>1, <1>2, <1>4, AllSwept
  <2>3. TypeOK'
    BY <1>1, <1>2, <2>1, <2>2 DEF Inv, TypeOK
  <2>. QED
    BY <1>1, <2>1, <2>2, <2>3 DEF Inv, InLoops, MaskHasWords, WipeHasTrail, ShownIsMask,
       WaitingWordsStay, NothingLeftBehind, LandedWordsStay, SweepHidesNoWord, EndsOnTheTime
<1>. QED
  BY <1>3, <1>4 DEF SweepOff

(* The end of clock() leaves mask and panel with the words of time_inc.     *)
LEMMA DrawStep == Inv /\ Draw => Inv'
<1>. SUFFICES ASSUME Inv, Draw PROVE Inv'
  OBVIOUS
<1>1. /\ pc' = "clock" /\ last_time_inc' = time_inc /\ mask' = TimeDisplay(time_inc)
      /\ shown' = mask' /\ UNCHANGED <<wipe, time_inc, todo, row, theta>>
  BY DEF Draw
<1>2. TimeDisplay(time_inc) \subseteq Panel /\ TimeDisplay(time_inc) = PixelsOf(DISPLAYS[time_inc])
  BY DisplayPixels, FaceplateAssumption DEF Inv, TypeOK
<1>3. TypeOK'
  BY <1>1, <1>2 DEF Inv, TypeOK
<1>. QED
  BY <1>1, <1>2, <1>3 DEF Inv, InLoops, MaskHasWords, WipeHasTrail, ShownIsMask, WaitingWordsStay,
                    NothingLeftBehind, LandedWordsStay, SweepHidesNoWord, EndsOnTheTime, Lit

(* No action: the unprimed Inv is the primed one.                           *)
LEMMA StutterStep == Inv /\ UNCHANGED vars => Inv'
BY DEF vars, Inv, TypeOK, InLoops, MaskHasWords, WipeHasTrail, ShownIsMask, WaitingWordsStay,
       NothingLeftBehind, LandedWordsStay, SweepHidesNoWord, EndsOnTheTime, Lit, Word

-----------------------------------------------------------------------------
(* A transition ends. *)

(* Words have their frames, and taking the first of them off takes off its. *)
LEMMA WordFramesLeft ==
  ASSUME NEW inc \in Incs, NEW s \in SUBSET DISPLAYS[inc]
  PROVE  /\ WordFrames(s) \in Nat
         /\ s # {} => /\ WordFrames(s) >= 2 * (MatrixHeight + 1)
                      /\ WordFrames(s \ {NextWord(s)}) = WordFrames(s) - 2 * (MatrixHeight + 1)
<1>. DEFINE B == 2 * (MatrixHeight + 1)
<1>1. B \in Nat
  BY FaceplateAssumption
<1>2. IsFiniteSet(s)
  BY FaceplateAssumption, FS_Subset
<1>3. Cardinality(s) \in Nat
  BY <1>2, FS_CardinalityType
<1>. HIDE DEF B
<1>4. \A n \in Nat : n * B \in Nat
  BY <1>1
<1>5. \A n \in Nat \ {0} : n * B >= B /\ (n - 1) * B = n * B - B
  BY <1>1
<1>6. ASSUME s # {}
      PROVE  WordFrames(s) >= B /\ WordFrames(s \ {NextWord(s)}) = WordFrames(s) - B
  <2>1. NextWord(s) \in s
    BY <1>6, FirstWord
  <2>2. Cardinality(s \ {NextWord(s)}) = Cardinality(s) - 1
    BY <1>2, <2>1, FS_RemoveElement
  <2>3. Cardinality(s) # 0
    BY <1>2, <1>6, FS_EmptySet
  <2>4. Cardinality(s) \in Nat \ {0}
    BY <1>3, <2>3
  <2>. QED
    BY <1>5, <2>2, <2>4 DEF WordFrames, B
<1>. QED
  BY <1>3, <1>4, <1>6 DEF WordFrames, B

(* In the loops over the words.                                             *)
LEMMA InWords ==
  ASSUME Inv, pc \in {"out_on", "out_off", "in_on", "in_off"}
  PROVE  /\ WORDS[Word].row \in 0..(MatrixHeight - 1) /\ row \in 0..MatrixHeight
         /\ MatrixHeight \in Nat
         /\ WordFrames(DISPLAYS[time_inc]) \in Nat /\ WordFrames(todo) \in Nat
         /\ WordFrames(todo) >= 2 * (MatrixHeight + 1)
         /\ WordFrames(todo \ {Word}) = WordFrames(todo) - 2 * (MatrixHeight + 1)
         /\ pc \in {"out_on", "out_off"} => row \in WORDS[Word].row..MatrixHeight
         /\ pc = "in_on" => row \in 0..WORDS[Word].row
         /\ pc = "in_off" => row \in 0..(WORDS[Word].row - 1)
<1>1. PICK inc \in Incs : todo \in SUBSET DISPLAYS[inc] /\ todo # {}
  BY DEF Inv, InLoops, TypeOK
<1>2. Word = NextWord(todo)
  BY DEF Word, NextWord
<1>3. Word \in DOMAIN WORDS
  BY <1>1, <1>2, FirstWord
<1>4. time_inc \in Incs /\ row \in 0..MatrixHeight /\ MatrixHeight \in Nat
  BY FaceplateAssumption DEF Inv, TypeOK
<1>. QED
  BY <1>1, <1>2, <1>3, <1>4, WordRow, WordFramesLeft DEF Inv, InLoops

(* The next word of a loop, if there is one, is the one with the rows.      *)
LEMMA NextIsWord == Word' = NextWord(todo')
BY DEF Word, NextWord

(* FramesLeft at each place, before a frame ...                             *)
LEMMA FramesAt ==
  /\ pc = "out_on" => FramesLeft = OutFrames
  /\ pc = "out_off" => FramesLeft = OutFrames - (MatrixHeight + 1)
  /\ pc = "in" => FramesLeft = 2 + WordFrames(DISPLAYS[time_inc])
  /\ pc = "in_on" => FramesLeft = InFrames
  /\ pc = "in_off" => FramesLeft = InFrames - (MatrixHeight + 1)
BY DEF FramesLeft

(* ... and after one.                                                       *)
LEMMA FramesThen ==
  /\ pc' = "out_on" => FramesLeft' = OutFrames'
  /\ pc' = "out_off" => FramesLeft' = OutFrames' - (MatrixHeight + 1)
  /\ pc' = "in" => FramesLeft' = 2 + WordFrames(DISPLAYS[time_inc'])
  /\ pc' = "in_on" => FramesLeft' = InFrames'
  /\ pc' = "in_off" => FramesLeft' = InFrames' - (MatrixHeight + 1)
  /\ pc' = "draw" => FramesLeft' = 1
BY DEF FramesLeft

(* Each frame of word_drop leaves fewer.                                    *)
LEMMA OutOnRunsOut == Inv /\ OutOn => FramesLeft' \in 0..(FramesLeft - 1)
<1>. SUFFICES ASSUME Inv, OutOn PROVE FramesLeft' \in 0..(FramesLeft - 1)
  OBVIOUS
<1>. DEFINE N == WordFrames(DISPLAYS[time_inc])  T == WordFrames(todo)  r == WORDS[Word].row
<1>1. pc = "out_on" /\ todo' = todo /\ time_inc' = time_inc /\ Word' = Word
  BY NextIsWord DEF OutOn, Word, NextWord
<1>2. FramesLeft = OutFrames /\ OutFrames = 2 + N + T - (row - r)
  <2>1. FramesLeft = OutFrames
    BY <1>1, FramesAt
  <2>2. OutFrames = 2 + N + T - (row - r)
    BY <1>1 DEF OutFrames
  <2>. QED
    BY <2>1, <2>2
<1>3. /\ r \in 0..(MatrixHeight - 1) /\ row \in r..MatrixHeight /\ MatrixHeight \in Nat
      /\ N \in Nat /\ T \in Nat /\ T >= 2 * (MatrixHeight + 1)
  BY <1>1, InWords
<1>4. CASE row < MatrixHeight
  <2>1. row' = row + 1 /\ pc' = "out_on"
    BY <1>1, <1>3, <1>4 DEF OutOn
  <2>2. FramesLeft' = OutFrames' /\ OutFrames' = 2 + N + T - (row' - r)
    <3>1. FramesLeft' = OutFrames'
      BY <1>1, <2>1, FramesThen
    <3>2. OutFrames' = 2 + N + T - (row' - r)
      BY <1>1, <2>1 DEF OutFrames
    <3>. QED
      BY <3>1, <3>2
  <2>. HIDE DEF N, T, r
  <2>. QED
    BY <1>2, <1>3, <1>4, <2>1, <2>2
<1>5. CASE row = MatrixHeight
  <2>1. row' = r /\ pc' = "out_off"
    BY <1>1, <1>3, <1>5 DEF OutOn
  <2>2. FramesLeft' = OutFrames' - (MatrixHeight + 1) /\ OutFrames' = 2 + N + T - (r - r)
    <3>1. FramesLeft' = OutFrames' - (MatrixHeight + 1)
      BY <1>1, <2>1, FramesThen
    <3>2. OutFrames' = 2 + N + T - (r - r)
      BY <1>1, <2>1 DEF OutFrames
    <3>. QED
      BY <3>1, <3>2
  <2>. HIDE DEF N, T, r
  <2>. QED
    BY <1>2, <1>3, <1>5, <2>2
<1>. QED
  BY <1>4, <1>5 DEF OutOn

(* So does each of a trail that goes, also when it is the last, ...         *)
LEMMA OutOffRunsOut == Inv /\ OutOff => FramesLeft' \in 0..(FramesLeft - 1)
<1>. SUFFICES ASSUME Inv, OutOff PROVE FramesLeft' \in 0..(FramesLeft - 1)
  OBVIOUS
<1>. DEFINE N == WordFrames(DISPLAYS[time_inc])  T == WordFrames(todo)  r == WORDS[Word].row
<1>1. pc = "out_off" /\ time_inc' = time_inc
  BY DEF OutOff
<1>2. FramesLeft = OutFrames - (MatrixHeight + 1) /\ OutFrames = 2 + N + T - (row - r)
  <2>1. FramesLeft = OutFrames - (MatrixHeight + 1)
    BY <1>1, FramesAt
  <2>2. OutFrames = 2 + N + T - (row - r)
    BY <1>1 DEF OutFrames
  <2>. QED
    BY <2>1, <2>2
<1>3. /\ r \in 0..(MatrixHeight - 1) /\ row \in r..MatrixHeight /\ MatrixHeight \in Nat
      /\ N \in Nat /\ T \in Nat /\ T >= 2 * (MatrixHeight + 1)
      /\ WordFrames(todo \ {Word}) = T - 2 * (MatrixHeight + 1)
  BY <1>1, InWords
<1>4. CASE row < MatrixHeight
  <2>1. row' = row + 1 /\ pc' = "out_off" /\ todo' = todo /\ Word' = Word
    BY <1>1, <1>3, <1>4, NextIsWord DEF OutOff, Word, NextWord
  <2>2. FramesLeft' = OutFrames' - (MatrixHeight + 1) /\ OutFrames' = 2 + N + T - (row' - r)
    <3>1. FramesLeft' = OutFrames' - (MatrixHeight + 1)
      BY <1>1, <2>1, FramesThen
    <3>2. OutFrames' = 2 + N + T - (row' - r)
      BY <1>1, <2>1 DEF OutFrames
    <3>. QED
      BY <3>1, <3>2
  <2>. HIDE DEF N, T, r
  <2>. QED
    BY <1>2, <1>3, <1>4, <2>1, <2>2
<1>5. CASE row = MatrixHeight /\ todo \ {Word} # {}
  <2>1. /\ todo' = todo \ {Word} /\ row' = WORDS[NextWord(todo')].row /\ pc' = "out_on"
        /\ WordFrames(todo') = T - 2 * (MatrixHeight + 1)
    <3>1. ~(row < MatrixHeight)
      BY <1>3, <1>5
    <3>2. todo' = todo \ {Word}
      BY <3>1 DEF OutOff
    <3>3. todo' # {}
      BY <1>5, <3>2
    <3>4. row' = WORDS[NextWord(todo')].row /\ pc' = "out_on"
      BY <3>1, <3>3 DEF OutOff
    <3>. QED
      BY <1>3, <3>2, <3>4
  <2>2. /\ FramesLeft' = OutFrames'
        /\ OutFrames' = 2 + N + (T - 2 * (MatrixHeight + 1)) - (row' - row')
    <3>1. FramesLeft' = OutFrames'
      BY <1>1, <2>1, NextIsWord, FramesThen
    <3>2. OutFrames' = 2 + N + (T - 2 * (MatrixHeight + 1)) - (row' - row')
      BY <1>1, <2>1, NextIsWord DEF OutFrames
    <3>. QED
      BY <3>1, <3>2
  <2>3. row' \in Int
    <3>1. PICK inc \in Incs : todo' \in SUBSET DISPLAYS[inc] /\ todo' # {}
      BY <1>1, <1>5, <2>1 DEF Inv, InLoops, TypeOK
    <3>2. NextWord(todo') \in DOMAIN WORDS
      BY <3>1, FirstWord
    <3>. QED
      BY <2>1, <3>2, WordRow
  <2>. HIDE DEF N, T, r
  <2>4. FramesLeft' = 2 + N + (T - 2 * (MatrixHeight + 1))
    <3>1. T - 2 * (MatrixHeight + 1) \in Int
      BY <1>3
    <3>2. \A x, y \in Int : x - (y - y) = x
      OBVIOUS
    <3>. QED
      BY <2>2, <2>3, <3>1, <3>2, Zenon
  <2>. QED
    BY <1>2, <1>3, <1>5, <2>4
<1>6. CASE row = MatrixHeight /\ todo \ {Word} = {}
  <2>1. pc' = "in"
    BY <1>1, <1>3, <1>6 DEF OutOff
  <2>2. FramesLeft' = 2 + N
    BY <1>1, <2>1, FramesAt, FramesThen DEF OutFrames, InFrames
  <2>. HIDE DEF N, T, r
  <2>. QED
    BY <1>2, <1>3, <1>6, <2>2
<1>. QED
  BY <1>4, <1>5, <1>6 DEF OutOff

(* ... and of a word that falls in: the loops begin with all the new words, *)
LEMMA StartInRunsOut == Inv /\ StartIn => FramesLeft' \in 0..(FramesLeft - 1)
<1>. SUFFICES ASSUME Inv, StartIn PROVE FramesLeft' \in 0..(FramesLeft - 1)
  OBVIOUS
<1>. DEFINE N == WordFrames(DISPLAYS[time_inc])
<1>1. pc = "in" /\ pc' = "in_on" /\ time_inc' = time_inc /\ row' = 0 /\ todo' = DISPLAYS[time_inc]
  BY DEF StartIn
<1>2. FramesLeft = 2 + N /\ FramesLeft' = 1 + N - 0
  BY <1>1, FramesAt, FramesThen DEF OutFrames, InFrames
<1>3. N \in Nat
  BY WordFramesLeft DEF Inv, TypeOK
<1>. HIDE DEF N
<1>. QED
  BY <1>2, <1>3

(* ... and a word that has landed is one less.                              *)
LEMMA NextWordRunsOut ==
  ASSUME Inv, pc \in {"in_on", "in_off"}, InNextWord
  PROVE  FramesLeft' \in 0..(WordFrames(todo) - 2 * (MatrixHeight + 1) + 1)
<1>. DEFINE T == WordFrames(todo)  B == 2 * (MatrixHeight + 1)
<1>1. T \in Nat /\ T >= B /\ WordFrames(todo \ {Word}) = T - B /\ B \in Nat
  BY InWords
<1>2. todo' = todo \ {Word} /\ row' = 0
  BY DEF InNextWord
<1>3. CASE todo' = {}
  <2>1. FramesLeft' = 1
    BY <1>3, FramesThen DEF InNextWord
  <2>. HIDE DEF T, B
  <2>. QED
    BY <1>1, <2>1 DEF T, B
<1>4. CASE todo' # {}
  <2>1. FramesLeft' = 1 + (T - B) - 0
    BY <1>1, <1>2, <1>4, FramesThen DEF InNextWord, InFrames
  <2>. HIDE DEF T, B
  <2>2. FramesLeft' \in 0..(T - B + 1)
    BY <1>1, <2>1
  <2>. QED
    BY <2>2 DEF T, B
<1>. QED
  BY <1>3, <1>4

(* The frames of a word that falls in, ...                                  *)
LEMMA InOnRunsOut == Inv /\ InOn => FramesLeft' \in 0..(FramesLeft - 1)
<1>. SUFFICES ASSUME Inv, InOn PROVE FramesLeft' \in 0..(FramesLeft - 1)
  OBVIOUS
<1>. DEFINE T == WordFrames(todo)  r == WORDS[Word].row
<1>1. pc = "in_on"
  BY DEF InOn
<1>2. FramesLeft = InFrames /\ InFrames = 1 + T - row
  <2>1. FramesLeft = InFrames
    BY <1>1, FramesAt
  <2>2. InFrames = 1 + T - row
    BY <1>1 DEF InFrames
  <2>. QED
    BY <2>1, <2>2
<1>3. /\ r \in 0..(MatrixHeight - 1) /\ row \in 0..r /\ MatrixHeight \in Nat
      /\ T \in Nat /\ T >= 2 * (MatrixHeight + 1)
  BY <1>1, InWords
<1>4. CASE row < r
  <2>1. row' = row + 1 /\ pc' = "in_on" /\ todo' = todo
    BY <1>1, <1>3, <1>4 DEF InOn
  <2>2. FramesLeft' = InFrames' /\ InFrames' = 1 + T - (row + 1)
    <3>1. FramesLeft' = InFrames'
      BY <2>1, FramesThen
    <3>2. InFrames' = 1 + T - (row + 1)
      BY <2>1 DEF InFrames
    <3>. QED
      BY <3>1, <3>2
  <2>. HIDE DEF T, r
  <2>. QED
    BY <1>2, <1>3, <1>4, <2>2
<1>5. CASE row = r /\ row > 0 /\ row' = 0 /\ pc' = "in_off" /\ todo' = todo
  <2>1. FramesLeft' = InFrames' - (MatrixHeight + 1) /\ InFrames' = 1 + T - 0
    <3>1. FramesLeft' = InFrames' - (MatrixHeight + 1)
      BY <1>5, FramesThen
    <3>2. InFrames' = 1 + T - 0
      BY <1>5 DEF InFrames
    <3>. QED
      BY <3>1, <3>2
  <2>. HIDE DEF T, r
  <2>. QED
    BY <1>2, <1>3, <1>5, <2>1
<1>6. CASE row = r /\ row = 0 /\ InNextWord
  <2>1. FramesLeft' \in 0..(T - 2 * (MatrixHeight + 1) + 1)
    BY <1>1, <1>6, NextWordRunsOut
  <2>. HIDE DEF T, r
  <2>. QED
    BY <1>2, <1>3, <1>6, <2>1
<1>. QED
  BY <1>3, <1>4, <1>5, <1>6 DEF InOn

(* ... and of its trail.                                                    *)
LEMMA InOffRunsOut == Inv /\ InOff => FramesLeft' \in 0..(FramesLeft - 1)
<1>. SUFFICES ASSUME Inv, InOff PROVE FramesLeft' \in 0..(FramesLeft - 1)
  OBVIOUS
<1>. DEFINE T == WordFrames(todo)  r == WORDS[Word].row
<1>1. pc = "in_off"
  BY DEF InOff
<1>2. FramesLeft = InFrames - (MatrixHeight + 1) /\ InFrames = 1 + T - row
  <2>1. FramesLeft = InFrames - (MatrixHeight + 1)
    BY <1>1, FramesAt
  <2>2. InFrames = 1 + T - row
    BY <1>1 DEF InFrames
  <2>. QED
    BY <2>1, <2>2
<1>3. /\ r \in 0..(MatrixHeight - 1) /\ row \in 0..(r - 1) /\ MatrixHeight \in Nat
      /\ T \in Nat /\ T >= 2 * (MatrixHeight + 1)
  BY <1>1, InWords
<1>4. CASE row < r - 1
  <2>1. row' = row + 1 /\ pc' = "in_off" /\ todo' = todo
    BY <1>1, <1>3, <1>4 DEF InOff
  <2>2. FramesLeft' = InFrames' - (MatrixHeight + 1) /\ InFrames' = 1 + T - (row + 1)
    <3>1. FramesLeft' = InFrames' - (MatrixHeight + 1)
      BY <2>1, FramesThen
    <3>2. InFrames' = 1 + T - (row + 1)
      BY <2>1 DEF InFrames
    <3>. QED
      BY <3>1, <3>2
  <2>. HIDE DEF T, r
  <2>. QED
    BY <1>2, <1>3, <1>4, <2>2
<1>5. CASE row = r - 1 /\ InNextWord
  <2>1. FramesLeft' \in 0..(T - 2 * (MatrixHeight + 1) + 1)
    BY <1>1, <1>5, NextWordRunsOut
  <2>. HIDE DEF T, r
  <2>. QED
    BY <1>2, <1>3, <1>5, <2>1
<1>. QED
  BY <1>4, <1>5 DEF InOff

(* The two sweeps take LastTheta + 1 frames each, and clock() draws the     *)
(* last.                                                                    *)
LEMMA OthersRunOut ==
  Inv /\ (SweepOn \/ SweepOff \/ Draw) /\ pc # "clock" => FramesLeft' \in 0..(FramesLeft - 1)
<1>. SUFFICES ASSUME Inv, SweepOn \/ SweepOff \/ Draw, pc # "clock"
              PROVE  FramesLeft' \in 0..(FramesLeft - 1)
  OBVIOUS
<1>1. theta \in 0..7 /\ LastTheta = 7
  BY DEF Inv, TypeOK, LastTheta
<1>2. CASE SweepOn
  <2>1. pc = "sweep_on" /\ FramesLeft = 2 * 8 + 1 - theta
    BY <1>1, <1>2 DEF SweepOn, FramesLeft
  <2>2. CASE theta < 7 /\ theta' = theta + 1 /\ pc' = pc
    <3>1. FramesLeft' = 2 * 8 + 1 - (theta + 1)
      BY <1>1, <2>1, <2>2 DEF FramesLeft
    <3>. QED
      BY <1>1, <2>1, <2>2, <3>1
  <2>3. CASE theta = 7 /\ theta' = 0 /\ pc' = "sweep_off"
    <3>1. FramesLeft' = 7 + 2 - 0
      BY <1>1, <2>3 DEF FramesLeft
    <3>. QED
      BY <2>1, <2>3, <3>1
  <2>. QED
    BY <1>1, <1>2, <2>2, <2>3 DEF SweepOn
<1>3. CASE SweepOff
  <2>1. pc = "sweep_off" /\ FramesLeft = 7 + 2 - theta
    BY <1>1, <1>3 DEF SweepOff, FramesLeft
  <2>2. CASE theta < 7 /\ theta' = theta + 1 /\ pc' = pc
    <3>1. FramesLeft' = 7 + 2 - (theta + 1)
      BY <1>1, <2>1, <2>2 DEF FramesLeft
    <3>. QED
      BY <1>1, <2>1, <2>2, <3>1
  <2>3. CASE theta = 7 /\ pc' = "draw"
    <3>1. FramesLeft' = 1
      BY <2>3 DEF FramesLeft
    <3>. QED
      BY <2>1, <2>3, <3>1
  <2>. QED
    BY <1>1, <1>3, <2>2, <2>3 DEF SweepOff
<1>4. CASE Draw
  <2>1. pc = "draw" /\ pc' = "clock"
    BY <1>4 DEF Draw
  <2>2. FramesLeft = 1 /\ FramesLeft' = 0
    BY <2>1 DEF FramesLeft
  <2>. QED
    BY <2>2
<1>. QED
  BY <1>2, <1>3, <1>4

-----------------------------------------------------------------------------
(* Theorems. *)

(* Init and every frame of both transitions keep Inv, whatever the faceplate *)
(* and the change of time.                                                  *)
THEOREM Invariance == Spec => []Inv
<1>1. Inv /\ [Next]_vars => Inv'
  BY StartWordDropStep, OutOnStep, OutOffStep, StartInStep, InOnStep, InOffStep,
     StartWipeAroundStep, SweepOnStep, SweepOffStep, DrawStep, StutterStep
     DEF Next, WordDrop, WipeAround
<1>. QED
  BY <1>1, InvInit, PTL DEF Spec

(* No array is written outside the panel, by the trail below it either.     *)
THEOREM TypeCorrect == Spec => []TypeOK
BY Invariance, PTL DEF Inv

(* word_drop: words that wait to fall out stay lit in full, though trails   *)
(* are cleared over them.                                                   *)
THEOREM WordsWait == Spec => []WaitingWordsStay
BY Invariance, PTL DEF Inv

(* Nothing of the old time is lit when the new words begin to fall.         *)
THEOREM WordsLeave == Spec => []NothingLeftBehind
BY Invariance, PTL DEF Inv

(* Those that have landed stay while others fall through their rows.        *)
THEOREM WordsLand == Spec => []LandedWordsStay
BY Invariance, PTL DEF Inv

(* wipe_around hides no word and fills the panel before it empties it.      *)
THEOREM SweepCorrect == Spec => []SweepHidesNoWord
BY Invariance, PTL DEF Inv

(* Both transitions end with the words of the new time on the panel.        *)
THEOREM EndCorrect == Spec => []EndsOnTheTime
BY Invariance, PTL DEF Inv

(* Transitions end, whatever the faceplate: after a number of frames that   *)
(* the words and the panel bound, clock() gets on.                          *)
THEOREM TransitionsEnd == Spec => FramesRunOut
<1>1. Inv /\ [Next]_vars => [pc # "clock" => FramesLeft' \in 0..(FramesLeft - 1)]_vars
  BY OutOnRunsOut, OutOffRunsOut, StartInRunsOut, InOnRunsOut, InOffRunsOut, OthersRunOut
     DEF Next, WordDrop, WipeAround, StartWordDrop, StartWipeAround
<1>. QED
  BY <1>1, Invariance, PTL DEF Spec, FramesRunOut
=============================================================================
