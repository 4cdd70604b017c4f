--------------------------- MODULE AutomationTexts --------------------------
(***************************************************************************)
(* What the automation's texts do to the program, for every set of         *)
(* commands of any length: how a shorter datagram overlays a longer one,   *)
(* what then dies, and which commands are obeyed whatever came before.     *)
(*                                                                         *)
(* The length of a text is a sum that Ends computes by recursion.  That    *)
(* the recursion has a solution is proved here from the least element of   *)
(* a set of numbers, which WellFoundedInduction states for sets.           *)
(***************************************************************************)
EXTENDS AutomationProof, WellFoundedInduction

(* Every set of numbers that is not empty has a least one.                 *)
LEMMA LeastNumber ==
    ASSUME NEW T, T \subseteq Nat, T # {}
    PROVE  \E x \in T : \A y \in T : x <= y
<1> DEFINE R == OpToRel(<, Nat)
<1>1. IsWellFoundedOn(R, Nat)
  BY NatLessThanWellFounded
<1>2. \A x, y \in Nat : y < x => <<y, x>> \in R
  BY DEF OpToRel
<1> HIDE DEF R
<1>3. PICK x \in T : \A y \in T : ~(<<y, x>> \in R)
  BY <1>1, WFMin
<1>4. \A y \in T : ~(y < x)
  BY <1>2, <1>3
<1> QED
  BY <1>4

(* A set of numbers up to n that holds 0, and with every number the next,  *)
(* holds them all.                                                         *)
LEMMA SetInduction ==
    ASSUME NEW n \in Nat, NEW S, 0 \in S,
           \A k \in 0 .. n : k # 0 /\ k - 1 \in S => k \in S
    PROVE  0 .. n \subseteq S
<1> DEFINE T == (0 .. n) \ S
<1> SUFFICES ASSUME T # {} PROVE FALSE
  OBVIOUS
<1>1. PICK x \in T : \A y \in T : x <= y
  <2>1. T \subseteq Nat
    OBVIOUS
  <2> HIDE DEF T
  <2> QED
    BY <2>1, LeastNumber
<1>2. x # 0 /\ x - 1 \in 0 .. n
  OBVIOUS
<1>3. x - 1 \notin T
  BY <1>1
<1> QED
  BY <1>2, <1>3

-----------------------------------------------------------------------------
(* The ends of the first k fields, as Ends computes them.                  *)
Sums(f, t, k) ==
    f = [i \in 0 .. k |-> IF i = 0 THEN 0 ELSE f[i - 1] + t[i].width + 1]

(* They exist ...                                                          *)
LEMMA SumsExist ==
    ASSUME NEW t \in Seq(Field)
    PROVE  \E f : Sums(f, t, Len(t))
<1> DEFINE S == {k \in 0 .. Len(t) : \E f : Sums(f, t, k)}
<1>1. 0 \in S
  <2> DEFINE f == [i \in 0 .. 0 |-> 0]
  <2>1. f = [i \in 0 .. 0 |-> IF i = 0 THEN 0 ELSE f[i - 1] + t[i].width + 1]
    OBVIOUS
  <2> HIDE DEF f
  <2> QED
    BY <2>1 DEF Sums
<1>2. ASSUME NEW k \in 0 .. Len(t), k # 0, k - 1 \in S
      PROVE  k \in S
  <2>1. PICK f : Sums(f, t, k - 1)
    BY <1>2
  <2> DEFINE g == [i \in 0 .. k |-> IF i = k THEN f[k - 1] + t[k].width + 1 ELSE f[i]]
  <2>2. ASSUME NEW i \in 0 .. k
        PROVE  g[i] = IF i = 0 THEN 0 ELSE g[i - 1] + t[i].width + 1
    <3>1. CASE i = k
      BY <1>2, <3>1
    <3>2. CASE i # k
      <4>1. i \in 0 .. k - 1 /\ (i # 0 => i - 1 \in 0 .. k /\ i - 1 # k)
        BY <1>2, <3>2
      <4>2. f[i] = IF i = 0 THEN 0 ELSE f[i - 1] + t[i].width + 1
        BY <2>1, <4>1 DEF Sums
      <4> QED
        BY <3>2, <4>1, <4>2
    <3> QED
      BY <3>1, <3>2
  <2>3. g = [i \in 0 .. k |-> g[i]]
    OBVIOUS
  <2> HIDE DEF g
  <2>4. Sums(g, t, k)
    BY <2>2, <2>3 DEF Sums
  <2> QED
    BY <2>4
<1>0. Len(t) \in Nat
  OBVIOUS
<1> HIDE DEF S
<1>3. 0 .. Len(t) \subseteq S
  BY <1>0, <1>1, <1>2, SetInduction
<1>4. Len(t) \in S
  BY <1>0, <1>3
<1> QED
  BY <1>4 DEF S

(* ... so Ends is what its recursion says, and numbers.                    *)
LEMMA EndsUnfold ==
    ASSUME NEW t \in Seq(Field)
    PROVE  /\ Ends(t)[0] = 0
           /\ \A i \in 1 .. Len(t) : Ends(t)[i] = Ends(t)[i - 1] + t[i].width + 1
           /\ \A i \in 0 .. Len(t) : Ends(t)[i] \in Nat
<1> DEFINE F(f) == [i \in 0 .. Len(t) |-> IF i = 0 THEN 0
                                          ELSE f[i - 1] + t[i].width + 1]
<1>1. Ends(t) = CHOOSE f : f = F(f)
  BY DEF Ends
<1>2. \E f : f = F(f)
  BY SumsExist DEF Sums
<1> HIDE DEF F
<1>3. Ends(t) = F(Ends(t))
  BY <1>1, <1>2
<1>4. Ends(t)[0] = 0
  BY <1>3 DEF F
<1>5. ASSUME NEW i \in 1 .. Len(t)
      PROVE  Ends(t)[i] = Ends(t)[i - 1] + t[i].width + 1
  BY <1>3 DEF F
<1> DEFINE S == {i \in 0 .. Len(t) : Ends(t)[i] \in Nat}
<1>6. 0 \in S
  BY <1>4
<1>7. ASSUME NEW i \in 0 .. Len(t), i # 0, i - 1 \in S
      PROVE  i \in S
  <2>1. t[i] \in Field /\ i \in 1 .. Len(t)
    BY <1>7, ElementTyped
  <2> QED
    BY <1>5, <1>7, <2>1 DEF Field
<1> HIDE DEF S
<1>8. 0 .. Len(t) \subseteq S
  <2>1. Len(t) \in Nat
    OBVIOUS
  <2> QED
    BY <1>6, <1>7, <2>1, SetInduction
<1> QED
  BY <1>4, <1>5, <1>8 DEF S

(* Room is a number, at least 1 for a text with a field; no field ends     *)
(* before the first one.                                                   *)
LEMMA EndsGrow ==
    ASSUME NEW t \in Seq(Field), t # <<>>
    PROVE  /\ Room(t) \in Nat /\ Room(t) > 0
           /\ Ends(t)[1] = t[1].width + 1
           /\ \A i \in 1 .. Len(t) : Ends(t)[1] <= Ends(t)[i]
<1>1. Len(t) \in Nat /\ Len(t) >= 1 /\ t[1] \in Field
  BY ElementTyped
<1>2. t[1].width \in Nat /\ Ends(t)[1] = t[1].width + 1
  <2>1. Ends(t)[1] = Ends(t)[1 - 1] + t[1].width + 1
    BY <1>1, EndsUnfold
  <2>2. t[1].width \in Nat
    BY <1>1 DEF Field
  <2>3. Ends(t)[0] = 0 /\ 1 - 1 = 0
    BY EndsUnfold
  <2> QED
    BY <2>1, <2>2, <2>3
<1> DEFINE S == {i \in 0 .. Len(t) : i # 0 => Ends(t)[1] <= Ends(t)[i]}
<1>3. 0 \in S
  OBVIOUS
<1>4. ASSUME NEW i \in 0 .. Len(t), i # 0, i - 1 \in S
      PROVE  i \in S
  <2>1. /\ t[i] \in Field /\ Ends(t)[i] = Ends(t)[i - 1] + t[i].width + 1
        /\ Ends(t)[i - 1] \in Nat /\ Ends(t)[i] \in Nat
    BY <1>4, ElementTyped, EndsUnfold
  <2>2. t[i].width \in Nat
    BY <2>1 DEF Field
  <2> QED
    BY <1>2, <1>4, <2>1, <2>2
<1> HIDE DEF S
<1>5. 0 .. Len(t) \subseteq S
  BY <1>1, <1>3, <1>4, SetInduction
<1>6. \A i \in 1 .. Len(t) : Ends(t)[1] <= Ends(t)[i]
  BY <1>5 DEF S
<1> QED
  BY <1>1, <1>2, <1>6, EndsUnfold DEF Room

-----------------------------------------------------------------------------
(* A field of a text; a null pointer is not one.                           *)
Token == Field \ {Null}

LEMMA MessagesAreTokens ==
    \A m \in Messages \cup Littered : m \in Seq(Token)
<1> SUFFICES ASSUME NEW m \in Messages \cup Littered
             PROVE  m \in Seq(Token)
  OBVIOUS
<1>1. m \in Seq(Field) /\ \A i \in 1 .. Len(m) : m[i] # Null
  BY AutomationAssumption
<1>2. \A i \in 1 .. Len(m) : m[i] \in Token
  BY <1>1, ElementTyped DEF Token
<1> QED
  BY <1>1, <1>2

LEMMA TokensAreFields == \A t \in Seq(Token) : t \in Seq(Field)
BY DEF Token

(* The character a shorter datagram ends at lies in a field of the text    *)
(* under it.                                                               *)
LEMMA OverlayPlace ==
    ASSUME NEW t \in Seq(Field), NEW n \in Nat, n > 0, n < Room(t)
    PROVE  \E j \in 1 .. Len(t) : Ends(t)[j - 1] < n /\ n <= Ends(t)[j]
<1> DEFINE S == {i \in 0 .. Len(t) : n <= Ends(t)[i]}
<1>1. Len(t) \in Nat /\ Len(t) \in S
  BY EndsUnfold DEF Room
<1>2. PICK j \in S : \A i \in S : j <= i
  <2>1. S \subseteq Nat
    BY <1>1
  <2> HIDE DEF S
  <2> QED
    BY <1>1, <2>1, LeastNumber
<1>3. j # 0
  BY EndsUnfold
<1>4. j \in 1 .. Len(t) /\ j - 1 \in 0 .. Len(t) /\ j - 1 \notin S
  BY <1>1, <1>2, <1>3
<1>5. Ends(t)[j - 1] \in Nat /\ ~(n <= Ends(t)[j - 1])
  BY <1>4, EndsUnfold
<1> QED
  BY <1>4, <1>5

(* A datagram at least as long as the text under it replaces it whole; a   *)
(* bare word as long as the first field replaces just that.                *)
LEMMA OverlayLonger ==
    ASSUME NEW new, NEW old, Room(new) >= Room(old)
    PROVE  Overlay(new, old) = new
BY DEF Overlay, Room

LEMMA OverlayShorter ==
    ASSUME NEW new \in Seq(Token), new # <<>>, NEW old \in Seq(Token),
           ~(Room(new) >= Room(old))
    PROVE  \E i \in 1 .. Len(old) :
             /\ Ends(old)[i - 1] < Room(new) /\ Room(new) <= Ends(old)[i]
             /\ Overlay(new, old) =
                  SubSeq(new, 1, Len(new) - 1)
                    \o <<IF Room(new) = Ends(old)[i] THEN new[Len(new)]
                         ELSE Glued(new[Len(new)], Ends(old)[i] - Room(new))>>
                    \o SubSeq(old, i + 1, Len(old))
<1> DEFINE n == Room(new)
           ends == Ends(old)
           i == CHOOSE j \in 1 .. Len(old) : ends[j - 1] < n /\ n <= ends[j]
<1>1. /\ new \in Seq(Field) /\ old \in Seq(Field)
      /\ n \in Nat /\ n > 0
  BY TokensAreFields, EndsGrow
<1>2. Room(old) \in Nat /\ n < Room(old)
  BY <1>1, EndsUnfold DEF Room
<1>3. i \in 1 .. Len(old) /\ ends[i - 1] < n /\ n <= ends[i]
  BY <1>1, <1>2, OverlayPlace
<1>4. ~(n >= ends[Len(old)])
  BY DEF Room
<1> QED
  BY <1>3, <1>4 DEF Overlay

LEMMA OverlayTyped ==
    ASSUME NEW new \in Seq(Token), new # <<>>, NEW old \in Seq(Token)
    PROVE  Overlay(new, old) \in Seq(Token) /\ Overlay(new, old) # <<>>
<1>1. CASE Room(new) >= Room(old)
  BY <1>1, OverlayLonger
<1>2. CASE ~(Room(new) >= Room(old))
  <2>1. PICK i \in 1 .. Len(old) :
          /\ Ends(old)[i - 1] < Room(new) /\ Room(new) <= Ends(old)[i]
          /\ Overlay(new, old) =
               SubSeq(new, 1, Len(new) - 1)
                 \o <<IF Room(new) = Ends(old)[i] THEN new[Len(new)]
                      ELSE Glued(new[Len(new)], Ends(old)[i] - Room(new))>>
                 \o SubSeq(old, i + 1, Len(old))
    BY <1>2, OverlayShorter
  <2> DEFINE last == new[Len(new)]
             k == Ends(old)[i] - Room(new)
             x == IF Room(new) = Ends(old)[i] THEN last ELSE Glued(last, k)
  <2>2. last \in Token
    BY ElementTyped
  <2>3. k \in Nat
    <3>1. Room(new) \in Nat /\ Ends(old)[i] \in Nat
      BY TokensAreFields, EndsGrow, EndsUnfold
    <3> QED
      BY <2>1, <3>1
  <2>4. Glued(last, k) \in Token
    <3>1. last.width + k \in Nat /\ <<>> \in Seq(Nat) /\ "junk" \in Word
      <4> HIDE DEF last, k
      <4>1. last.width \in Nat
        BY <2>2 DEF Token, Field
      <4>2. "junk" \in Word
        BY DEF Word
      <4> QED
        BY <2>3, <4>1, <4>2
    <3>2. Glued(last, k) \in Field
      BY <3>1 DEF Glued, Field
    <3>3. Glued(last, k).word = "junk" /\ Null.word = "NULL"
      BY DEF Glued, Null
    <3> QED
      BY <3>2, <3>3 DEF Token
  <2>5. x \in Token
    BY <2>2, <2>4
  <2> HIDE DEF x, k, last
  <2>6. /\ SubSeq(new, 1, Len(new) - 1) \in Seq(Token)
        /\ SubSeq(old, i + 1, Len(old)) \in Seq(Token)
    OBVIOUS
  <2>7. <<x>> \in Seq(Token) /\ <<x>> # <<>>
    BY <2>5, OneElement
  <2>8. Overlay(new, old) = SubSeq(new, 1, Len(new) - 1) \o <<x>>
                              \o SubSeq(old, i + 1, Len(old))
    BY <2>1 DEF x, k, last
  <2> QED
    BY <2>6, <2>7, <2>8
<1> QED
  BY <1>1, <1>2

-----------------------------------------------------------------------------
LEMMA PartTyped ==
    ASSUME NEW f \in Field, NEW i \in 1 .. 4
    PROVE  Part(f, i) \in Nat
<1>1. f.parts \in Seq(Nat)
  BY DEF Field
<1> QED
  BY <1>1 DEF Part

LEMMA SecondsTyped ==
    ASSUME NEW f \in Field
    PROVE  hhmmss_to_secs(f) \in Nat
<1>1. /\ Part(f, 1) \in Nat /\ Part(f, 2) \in Nat /\ Part(f, 3) \in Nat
      /\ Part(f, 4) \in Nat
  BY PartTyped
<1>2. Part(f, 4) \div 25 \in Nat
  BY <1>1
<1> QED
  BY <1>1, <1>2 DEF hhmmss_to_secs

(* start_sub computes numbers from whatever fields it is given.            *)
LEMMA WindowTyped ==
    ASSUME NEW f \in [Slots -> Field], NEW t \in 0 .. NoDigit, NEW v \in Window
    PROVE  start_sub(f, t, v) \in Window
<1>1. f[In] \in Field /\ f[Som] \in Field /\ f[Dur] \in Field
  BY DEF Slots, In, Som, Dur
<1>2. SECONDS_S(f) \in Int
  <2>1. atoi(f[In]) \in Nat /\ hhmmss_to_secs(f[Som]) \in Nat
    BY <1>1, PartTyped, SecondsTyped DEF atoi
  <2>2. atoi(f[In]) \div 25 \in Nat
    BY <2>1
  <2> QED
    BY <2>1, <2>2 DEF SECONDS_S
<1>3. ACT_DURATION(f, t) \in Field
  <2> DEFINE d == f[Dur]
             s == IF t = NoDigit THEN Part(d, 3) ELSE 10 * Part(d, 3) + t
  <2>1. Part(d, 1) \in Nat /\ Part(d, 2) \in Nat /\ s \in Nat
    <3>1. Part(d, 1) \in Nat /\ Part(d, 2) \in Nat /\ Part(d, 3) \in Nat
      BY <1>1, PartTyped
    <3> QED
      BY <3>1 DEF NoDigit
  <2>2. ACT_DURATION(f, t) = [d EXCEPT !.parts = <<Part(d, 1), Part(d, 2), s>>]
    BY DEF ACT_DURATION
  <2> HIDE DEF s
  <2>3. <<Part(d, 1), Part(d, 2), s>> \in Seq(Nat)
    BY <2>1
  <2> QED
    BY <1>1, <2>2, <2>3 DEF Field
<1>4. hhmmss_to_secs(ACT_DURATION(f, t)) \in Nat
  BY <1>3, SecondsTyped
<1>5. 2 * hhmmss_to_secs(ACT_DURATION(f, t)) - 5 \in Int
  BY <1>4
<1> QED
  BY <1>2, <1>5 DEF start_sub, Window

LEMMA NullIsField == Null \in Field
<1>1. "NULL" \in Word /\ <<>> \in Seq(Nat) /\ 0 \in Nat
  BY DEF Word
<1> QED
  BY <1>1 DEF Null, Field

(* The pointers after a text: its own fields, and of an earlier one those  *)
(* it lacks.                                                               *)
LEMMA ReadTyped ==
    ASSUME NEW t \in Seq(Token), NEW old \in [Slots -> Field]
    PROVE  /\ Read(t, old) \in [Slots -> Field]
           /\ \A i \in Slots : i <= Len(t) => Read(t, old)[i] = t[i] /\ t[i] \in Token
           /\ \A i \in Slots : old[i] # Null => Read(t, old)[i] # Null
<1>1. ASSUME NEW i \in Slots, i <= Len(t)
      PROVE  t[i] \in Token /\ t[i] \in Field /\ t[i] # Null
  <2>1. i \in 1 .. Len(t)
    BY <1>1 DEF Slots
  <2>2. t[i] \in Token
    BY <2>1, ElementTyped
  <2> QED
    BY <2>2 DEF Token
<1> QED
  BY <1>1 DEF Read

-----------------------------------------------------------------------------
(* The variables of the script and their types, with the texts and flags   *)
(* that the other invariants need.                                         *)
TextInv ==
    /\ program \in {"injector", "predecessor"}
    /\ text \in Seq(Token)
    /\ fields \in [Slots -> Field]
    /\ value \in Window /\ tail \in Tails
    /\ stop_while \in {0, 1} /\ thread_is_live \in {0, 1} /\ b_die \in {0, 1}
    /\ toggles \in [script : {"main", "backup"}, reference : {"main", "backup"}]
    /\ armed \in BOOLEAN /\ sent \in Seq(Field) /\ fresh \in BOOLEAN

LEMMA TailsTyped == \A t \in Tails : t \in 0 .. NoDigit
BY AutomationAssumption

(* What a handler may do to the flags and the window.                      *)
LEMMA ObeyTyped ==
    ASSUME TextInv, NEW f \in [Slots -> Field], NEW die \in {0, 1}, Obey(f, die)
    PROVE  /\ value' \in Window
           /\ stop_while' \in {0, 1} /\ thread_is_live' \in {0, 1} /\ b_die' \in {0, 1}
           /\ armed' \in BOOLEAN /\ fresh' \in BOOLEAN
<1>1. CASE Launches(f) /\ Launch(f, die)
  <2>1. value' \in Window
    BY <1>1, WindowTyped, TailsTyped DEF Launch, TextInv
  <2>2. stop_while' = 1
    BY <1>1 DEF Launches, Launch
  <2>3. /\ thread_is_live' \in {0, 1} /\ b_die' \in {0, 1}
        /\ armed' \in BOOLEAN /\ fresh' \in BOOLEAN
    BY <1>1 DEF Launch, TextInv
  <2> QED
    BY <2>1, <2>2, <2>3
<1>2. CASE /\ b_die' = die /\ fresh' = FALSE /\ UNCHANGED <<value, armed>>
           /\ StopSession \/ UNCHANGED <<stop_while, thread_is_live>>
  BY <1>2 DEF StopSession, TextInv
<1> QED
  BY <1>1, <1>2 DEF Obey

LEMMA TextInductive ==
    ASSUME TextInv, [Next]_vars
    PROVE  TextInv'
<1>1. CASE Start \/ UNCHANGED vars
  BY <1>1 DEF Start, vars, buffers, flags, TextInv
<1>2. ASSUME NEW m \in Messages, Datagram(m)
      PROVE  TextInv'
  <2>1. text' \in Seq(Token) /\ sent' = m /\ m \in Seq(Field)
    BY <1>2, OverlayTyped, MessagesAreTokens, TokensAreFields, AutomationAssumption
       DEF Datagram, TextInv
  <2>2. fields' \in [Slots -> Field] /\ Obey(fields', b_die)
    BY <1>2, <2>1, ReadTyped DEF Datagram, Took, Reclaimed, TextInv
  <2>3. UNCHANGED <<program, tail, toggles>>
    BY <1>2 DEF Datagram
  <2> QED
    BY <2>1, <2>2, <2>3, ObeyTyped DEF TextInv
<1>3. ASSUME NEW m \in Messages, Receive(m)
      PROVE  TextInv'
  <2>1. m \in Seq(Token) /\ m \in Seq(Field)
    BY MessagesAreTokens, TokensAreFields
  <2> QED
    BY <1>3, <2>1 DEF Receive, flags, TextInv
<1>4. CASE Interrupt
  <2>1. fields' \in [Slots -> Field] /\ Obey(fields', 1)
    BY <1>4, ReadTyped DEF Interrupt, Took, Reclaimed, TextInv
  <2>2. UNCHANGED <<program, tail, toggles, text>> /\ sent' = <<>>
    BY <1>4 DEF Interrupt
  <2> QED
    BY <2>1, <2>2, ObeyTyped DEF TextInv
<1>0. <<>> \in Seq(Field)
  OBVIOUS
<1>5. CASE Signal \/ SessionEnds
  <2>1. /\ UNCHANGED <<program, buffers, tail, stop_while, toggles, armed>>
        /\ thread_is_live' \in {0, thread_is_live} /\ b_die' = 1
        /\ sent' = <<>> /\ fresh' = FALSE
    BY <1>5 DEF Signal, SessionEnds
  <2>2. thread_is_live' \in {0, 1}
    BY <2>1 DEF TextInv
  <2> QED
    BY <1>0, <2>1, <2>2 DEF buffers, TextInv
<1>6. CASE Toggle
  <2>1. toggles' \in [script : {"main", "backup"}, reference : {"main", "backup"}]
    BY <1>6 DEF Toggle, TextInv
  <2>2. /\ UNCHANGED <<program, buffers, tail, flags, armed>>
        /\ sent' = <<>> /\ fresh' = FALSE
    BY <1>6 DEF Toggle
  <2> QED
    BY <1>0, <2>1, <2>2 DEF buffers, flags, TextInv
<1>7. CASE Again
  <2>1. fields' \in [Slots -> Field]
    BY <1>7, ReadTyped DEF Again, Took, Reclaimed, TextInv
  <2>2. value' \in Window
    BY <1>7, <2>1, WindowTyped, TailsTyped DEF Again, TextInv
  <2> QED
    BY <1>7, <2>1, <2>2 DEF Again, flags, TextInv
<1> QED
  BY <1>1, <1>2, <1>3, <1>4, <1>5, <1>6, <1>7, NextSplits DEF Running

LEMMA TextInit == Init => TextInv
<1> SUFFICES ASSUME Init PROVE TextInv
  OBVIOUS
<1>1. text \in Seq(Token)
  BY MessagesAreTokens DEF Init
<1>2. fields \in [Slots -> Field]
  BY NullIsField DEF Init
<1>3. value \in Window
  BY AutomationAssumption DEF Init, Window
<1>4. <<>> \in Seq(Field)
  OBVIOUS
<1>5. /\ program \in {"injector", "predecessor"} /\ tail \in Tails
      /\ stop_while = 0 /\ thread_is_live = 0 /\ b_die = 0
      /\ toggles = [script |-> "main", reference |-> "main"]
      /\ armed = FALSE /\ sent = <<>> /\ fresh = FALSE
  BY DEF Init
<1>6. [script |-> "main", reference |-> "main"]
        \in [script : {"main", "backup"}, reference : {"main", "backup"}]
  OBVIOUS
<1> QED
  BY <1>1, <1>2, <1>3, <1>4, <1>5, <1>6 DEF TextInv

(* Every variable of both programs keeps its type: the text in the buffer  *)
(* is a text, however the datagrams overlay each other, and the window is  *)
(* two numbers, whatever fields start_sub finds (script, start_sub).       *)
THEOREM AutomationTyping == Spec => []TypeOK
<1>1. Init => TextInv /\ FileInv /\ OwnInv
  BY TextInit, FilesAssumption
     DEF Init, StartupInit, FileInv, OwnInv, LaunchAsConfigured
<1>2. (TextInv /\ FileInv /\ OwnInv) /\ [Next]_vars => (TextInv /\ FileInv /\ OwnInv)'
  BY TextInductive, FileInductive, OwnInductive
<1>3. TextInv /\ OwnInv /\ StartupTypeOK => TypeOK
  <2> SUFFICES ASSUME TextInv, OwnInv, StartupTypeOK PROVE TypeOK
    OBVIOUS
  <2>1. text \in Seq(Field)
    BY TokensAreFields DEF TextInv
  <2>2. \A i \in DOMAIN session : i \in 1 .. total
    BY DEF OwnInv
  <2> QED
    BY <2>1, <2>2 DEF TextInv, TypeOK
<1> QED
  BY <1>1, <1>2, <1>3, StartupTyping, PTL DEF Spec

-----------------------------------------------------------------------------
(* The three fields script copies with strcpy.                             *)
Copied == {Cmd, Clip, Type}

(* Who may be where: the injector never gets into the predecessor's loop,  *)
(* nothing is received before the threads start, and once something was    *)
(* launched no pointer that strcpy follows is null.                        *)
DeathInv ==
    /\ program = "injector" => phase \notin {"listen", "loop"}
    /\ program = "predecessor" => phase \in {"listen", "loop", "dead"}
    /\ phase \in {"open", "read"} => sent = <<>>
    /\ armed => phase = "run" /\ \A i \in Copied : fields[i] # Null
    /\ DiesOnlyOfShortCommand

(* A handler dies of a null pointer only, and installs nothing with one.   *)
LEMMA ObeyDies ==
    ASSUME NEW f, NEW die, Obey(f, die)
    PROVE  /\ phase' = IF \E i \in Copied : f[i] = Null THEN "dead" ELSE phase
           /\ armed' => armed \/ \A i \in Copied : f[i] # Null
<1>1. Null \in {f[Cmd], f[Clip], f[Type]} <=> \E i \in Copied : f[i] = Null
  BY DEF Copied
<1> QED
  BY <1>1 DEF Obey

LEMMA FieldsOfText ==
    ASSUME TextInv, NEW t \in Seq(Token)
    PROVE  /\ Len(t) >= 6 => \A i \in Slots : Read(t, fields)[i] = t[i] /\ t[i] # Null
           /\ \A i \in Slots : fields[i] # Null => Read(t, fields)[i] # Null
<1>1. /\ \A i \in Slots : i <= Len(t) => Read(t, fields)[i] = t[i] /\ t[i] \in Token
      /\ \A i \in Slots : fields[i] # Null => Read(t, fields)[i] # Null
  BY ReadTyped DEF TextInv
<1>2. Len(t) >= 6 => \A i \in Slots : i <= Len(t)
  BY DEF Slots
<1> QED
  BY <1>1, <1>2 DEF Token

LEMMA CopiedSlots == Copied \subseteq Slots
BY DEF Copied, Slots, Cmd, Clip, Type

LEMMA DeathInductive ==
    ASSUME TextInv, TextInv', SessionInv, DeathInv, [Next]_vars
    PROVE  DeathInv'
<1>1. CASE Start
  <2>1. /\ UNCHANGED <<program, fields, sent, armed, text>>
        /\ phase \in {"open", "read"} /\ phase' \notin {"listen", "loop"}
    BY <1>1 DEF Start, StartupNext, OpenConf, ReadLine, StartThreads, buffers
  <2>2. ~armed /\ sent = <<>> /\ program = "injector"
    BY <2>1 DEF SessionInv, DeathInv, TextInv
  <2> QED
    BY <2>1, <2>2 DEF DeathInv, DiesOnlyOfShortCommand
<1>2. ASSUME NEW m \in Messages, Datagram(m)
      PROVE  DeathInv'
  <2>1. /\ fields' = Read(text', fields) /\ Obey(fields', b_die)
        /\ UNCHANGED program /\ phase = "run"
    BY <1>2 DEF Datagram, Took, Reclaimed
  <2>2. /\ program = "injector" /\ program' = "injector"
    BY <2>1 DEF DeathInv, TextInv
  <2>3. /\ Len(text') >= 6 => \A i \in Copied : fields'[i] # Null
        /\ armed => \A i \in Copied : fields'[i] # Null
    BY <2>1, FieldsOfText, CopiedSlots DEF TextInv, DeathInv
  <2>4. /\ phase' = IF \E i \in Copied : fields'[i] = Null THEN "dead" ELSE phase
        /\ armed' => armed \/ \A i \in Copied : fields'[i] # Null
    BY <2>1, ObeyDies
  <2>5. Len(text') \in Nat
    BY DEF TextInv
  <2> QED
    BY <2>1, <2>2, <2>3, <2>4, <2>5 DEF DeathInv, DiesOnlyOfShortCommand
<1>3. CASE Interrupt
  <2>1. /\ fields' = Read(text, fields) /\ Obey(fields', 1) /\ sent' = <<>>
        /\ UNCHANGED program /\ phase = "run" /\ armed
    BY <1>3 DEF Interrupt, Took, Reclaimed
  <2>2. program = "injector" /\ program' = "injector"
    BY <2>1 DEF DeathInv, TextInv
  <2>3. \A i \in Copied : fields'[i] # Null
    BY <2>1, FieldsOfText, CopiedSlots DEF TextInv, DeathInv
  <2>4. phase' = "run"
    BY <2>1, <2>3, ObeyDies
  <2> QED
    BY <2>1, <2>2, <2>3, <2>4 DEF DeathInv, DiesOnlyOfShortCommand
<1>4. CASE Signal \/ SessionEnds \/ Toggle
  <2>1. UNCHANGED <<phase, program, text, fields, armed>> /\ phase = "run"
    BY <1>4 DEF Signal, SessionEnds, Toggle, buffers
  <2> QED
    BY <2>1 DEF DeathInv, DiesOnlyOfShortCommand
<1>5. ASSUME NEW m \in Messages, Receive(m)
      PROVE  DeathInv'
  BY <1>5 DEF Receive, DeathInv, DiesOnlyOfShortCommand, TextInv
<1>6. CASE Again
  <2>1. /\ fields' = Read(text, fields) /\ phase = "loop" /\ text' = text
        /\ UNCHANGED <<program, armed>>
    BY <1>6 DEF Again, Took, Reclaimed
  <2>2. /\ program = "predecessor" /\ ~armed
    BY <2>1 DEF DeathInv, TextInv
  <2>3. phase' \in {"dead", "loop"}
    BY <1>6 DEF Again
  <2>4. ASSUME phase' = "dead", ~(Len(text) < 6)
        PROVE  text[Type].word = "f" \/ text[Cmd].word \in Stops \cup {"START"}
    <3>1. Len(text) >= 6
      BY <2>4 DEF TextInv
    <3>2. /\ fields'[Cmd] = text[Cmd] /\ fields'[Type] = text[Type]
          /\ text[Cmd] # Null /\ text[Type] # Null
      BY <2>1, <3>1, FieldsOfText DEF TextInv, Slots, Cmd, Type
    <3> QED
      BY <1>6, <2>4, <3>2 DEF Again, StopAsked
  <2> QED
    BY <2>1, <2>2, <2>3, <2>4 DEF DeathInv, DiesOnlyOfShortCommand
<1>7. CASE UNCHANGED vars
  BY <1>7 DEF vars, buffers, DeathInv, DiesOnlyOfShortCommand
<1> QED
  BY <1>1, <1>2, <1>3, <1>4, <1>5, <1>6, <1>7, NextSplits DEF Running

(* The injector dies of a datagram only if the text it makes lacks one of  *)
(* the fields, and never again once it has launched; the predecessor only  *)
(* of a START, a stop or a short text: no stale pointer kills either.      *)
THEOREM DeathsAreOfShortTexts == Spec => []DiesOnlyOfShortCommand
<1>1. Init => DeathInv
  BY DEF Init, DeathInv, DiesOnlyOfShortCommand
<1>2. (TextInv /\ SessionInv /\ DeathInv) /\ [Next]_vars
        => (TextInv /\ SessionInv /\ DeathInv)'
  BY TextInductive, SessionInductive, DeathInductive
<1>3. DeathInv => DiesOnlyOfShortCommand
  BY DEF DeathInv
<1> QED
  BY <1>1, <1>2, <1>3, TextInit, SessionInit, PTL DEF Spec

-----------------------------------------------------------------------------
(* The first field of what a bare word of its length leaves in the buffer. *)
LEMMA BareOverlay ==
    ASSUME NEW m \in Seq(Token), NEW t \in Seq(Token),
           Len(m) = 1, t # <<>>, m[1].width = t[1].width
    PROVE  Overlay(m, t) # <<>> /\ Overlay(m, t)[1] = m[1]
<1>1. /\ m \in Seq(Field) /\ t \in Seq(Field) /\ m # <<>>
      /\ Len(t) \in Nat /\ Len(t) >= 1
  BY TokensAreFields
<1>2. Room(m) = Ends(t)[1] /\ Room(m) \in Nat /\ Room(t) \in Nat
  BY <1>1, EndsGrow DEF Room
<1>3. CASE Room(m) >= Room(t)
  BY <1>1, <1>3, OverlayLonger
<1>4. CASE ~(Room(m) >= Room(t))
  <2>1. PICK i \in 1 .. Len(t) :
          /\ Ends(t)[i - 1] < Room(m) /\ Room(m) <= Ends(t)[i]
          /\ Overlay(m, t) =
               SubSeq(m, 1, Len(m) - 1)
                 \o <<IF Room(m) = Ends(t)[i] THEN m[Len(m)]
                      ELSE Glued(m[Len(m)], Ends(t)[i] - Room(m))>>
                 \o SubSeq(t, i + 1, Len(t))
    BY <1>1, <1>4, OverlayShorter
  <2>2. i = 1
    <3>1. ASSUME i # 1 PROVE FALSE
      <4>1. i - 1 \in 1 .. Len(t) /\ i - 1 \in 0 .. Len(t)
        BY <3>1
      <4>2. Ends(t)[1] <= Ends(t)[i - 1] /\ Ends(t)[i - 1] \in Nat
        BY <1>1, <4>1, EndsGrow, EndsUnfold
      <4> QED
        BY <1>2, <2>1, <4>2
    <3> QED
      BY <3>1
  <2>3. /\ SubSeq(m, 1, Len(m) - 1) = <<>> /\ m[Len(m)] = m[1]
        /\ SubSeq(t, 2, Len(t)) \in Seq(Token)
    OBVIOUS
  <2>4. Overlay(m, t) = <<>> \o <<m[1]>> \o SubSeq(t, 2, Len(t))
    BY <1>2, <2>1, <2>2, <2>3
  <2> DEFINE r == SubSeq(t, 2, Len(t))
  <2> HIDE DEF r
  <2>5. m[1] \in Token /\ r \in Seq(Token)
    BY <1>1, <2>3, ElementTyped DEF r
  <2>6. <<m[1]>> \o r # <<>> /\ (<<m[1]>> \o r)[1] = m[1]
    BY <2>5
  <2>7. <<>> \o <<m[1]>> \o r = <<m[1]>> \o r
    BY <2>5
  <2> QED
    BY <2>4, <2>6, <2>7 DEF r
<1> QED
  BY <1>3, <1>4

(* A stop is no PLAY, and so it closes the session.                        *)
LEMMA StopObeyed ==
    ASSUME NEW f, NEW die, Obey(f, die), f[Cmd].word \in Stops,
           phase = "run", phase' = "run"
    PROVE  stop_while' = 0 /\ (stop_while = 1 => thread_is_live' = 0)
<1>1. ~PlayAsked(f) /\ StopAsked(f, die)
  BY DEF PlayAsked, StopAsked, Stops
<1>2. Null \notin {f[Cmd], f[Clip], f[Type]}
  BY DEF Obey
<1> QED
  BY <1>1, <1>2 DEF Obey, Launches, StopSession

(* A PLAY of a programme without a null pointer opens a session.           *)
LEMMA PlayObeyed ==
    ASSUME NEW f, NEW die, Obey(f, die), f[Cmd].word = "PLAY", f[Type].word = "p",
           \A i \in Copied : f[i] # Null, stop_while = 0
    PROVE  fresh' /\ stop_while' = 1
<1>1. Launches(f) /\ Null \notin {f[Cmd], f[Clip], f[Type]}
  BY DEF PlayAsked, Launches, Copied
<1> QED
  BY <1>1 DEF Obey, Launch

LEMMA DatagramObeyed ==
    ASSUME TextInv, NEW m \in Messages, Datagram(m)
    PROVE  /\ phase' = "run" /\ IsStop(m) /\ (Bare(m) \/ Room(m) >= Room(text))
                => stop_while' = 0 /\ (stop_while = 1 => thread_is_live' = 0)
           /\ IsPlay(m) /\ Room(m) >= Room(text) /\ stop_while = 0
                => fresh' /\ stop_while' = 1
<1>1. /\ text' = Overlay(m, text) /\ fields' = Read(text', fields)
      /\ Obey(fields', b_die) /\ phase = "run"
  BY DEF Datagram, Took, Reclaimed
<1>2. m \in Seq(Token) /\ m # <<>> /\ text \in Seq(Token)
  BY MessagesAreTokens, AutomationAssumption DEF TextInv
<1>3. text' \in Seq(Token) /\ text' # <<>> /\ fields \in [Slots -> Field]
  BY <1>1, <1>2, OverlayTyped DEF TextInv
<1>4. fields'[1] = text'[1]
  <2>1. 1 \in Slots /\ 1 <= Len(text')
    BY <1>3 DEF Slots
  <2> QED
    BY <1>1, <1>3, <2>1, ReadTyped
<1>5. ASSUME phase' = "run", IsStop(m), Bare(m) \/ Room(m) >= Room(text)
      PROVE  stop_while' = 0 /\ (stop_while = 1 => thread_is_live' = 0)
  <2>1. text'[1] = m[1]
    BY <1>1, <1>2, <1>5, OverlayLonger, BareOverlay DEF Bare
  <2>2. fields'[Cmd].word \in Stops
    BY <1>4, <1>5, <2>1 DEF IsStop, Cmd
  <2> QED
    BY <1>1, <1>5, <2>2, StopObeyed
<1>6. ASSUME IsPlay(m), Room(m) >= Room(text), stop_while = 0
      PROVE  fresh' /\ stop_while' = 1
  <2>1. text' = m /\ Len(m) = 6
    BY <1>1, <1>6, OverlayLonger DEF IsPlay
  <2>2. \A i \in Slots : fields'[i] = m[i] /\ m[i] # Null
    <3>1. \A i \in Slots : Read(m, fields)[i] = m[i] /\ m[i] # Null
      <4>1. Len(m) >= 6
        BY <2>1
      <4>2. Len(m) >= 6 => \A i \in Slots : Read(m, fields)[i] = m[i] /\ m[i] # Null
        BY <1>2, FieldsOfText, Zenon
      <4> QED
        BY <4>1, <4>2, Zenon
    <3>2. fields' = Read(m, fields)
      BY <1>1, <2>1
    <3> QED
      BY <3>1, <3>2
  <2>3. /\ fields'[Cmd].word = "PLAY" /\ fields'[Type].word = "p"
        /\ \A i \in Copied : fields'[i] # Null
    BY <1>6, <2>2, CopiedSlots DEF IsPlay, Copied
  <2> QED
    BY <1>1, <1>6, <2>3, PlayObeyed
<1> QED
  BY <1>5, <1>6

(* Whatever came before and whatever state the sessions are in: a stop at  *)
(* least as long as the text in the buffer, or a bare one in the place of  *)
(* a command of its length, leaves no session behind; and a PLAY of a      *)
(* programme that long opens one if none is open (script, 2617-2736).      *)
THEOREM CommandsAreObeyed == Spec => CommandsObeyed
<1> DEFINE A == /\ (/\ sent' # <<>> /\ phase = "run" /\ phase' = "run" /\ IsStop(sent')
                    /\ Bare(sent') \/ Room(sent') >= Room(text))
                     => stop_while' = 0 /\ (stop_while = 1 => thread_is_live' = 0)
                /\ (/\ sent' # <<>> /\ phase = "run" /\ IsPlay(sent')
                    /\ Room(sent') >= Room(text) /\ stop_while = 0)
                     => fresh' /\ stop_while' = 1
<1>1. TextInv /\ [Next]_vars => [A]_vars
  <2> SUFFICES ASSUME TextInv, [Next]_vars, vars' # vars, sent' # <<>>, phase = "run"
               PROVE  A
    BY Zenon
  <2>1. PICK m \in Messages : Datagram(m)
    <3>1. ~Start /\ ~Interrupt /\ ~Signal /\ ~SessionEnds /\ ~Toggle /\ ~Again
      BY DEF Start, StartupNext, OpenConf, ReadLine, StartThreads, Interrupt,
             Signal, SessionEnds, Toggle, Again
    <3>2. ~\E n \in Messages : Receive(n)
      BY DEF Receive
    <3> QED
      BY <3>1, <3>2 DEF Next
  <2>2. sent' = m
    BY <2>1 DEF Datagram
  <2>3. /\ IsStop(sent') <=> IsStop(m)
        /\ Bare(sent') <=> Bare(m)
        /\ Room(sent') = Room(m) /\ (IsPlay(sent') <=> IsPlay(m))
    BY <2>2
  <2> QED
    BY <2>1, <2>3, DatagramObeyed
<1>2. Spec => []TextInv
  BY TextInit, TextInductive, PTL DEF Spec
<1> QED
  BY <1>1, <1>2, PTL DEF Spec, CommandsObeyed
=============================================================================
