------------------------- MODULE CaptureRingProofs -------------------------
(***************************************************************************)
(* Proofs about the capture ring, for every size of ring and word, packet, *)
(* callback and set of rates: the HAL and the engine never work on the     *)
(* same slot, although either may be stalled between any two accesses      *)
(* (NoSlotRaceAlways); what a callback delivers was captured at the HAL's  *)
(* rate (NoForeignCaptureAlways); and where the engine flushes, it is      *)
(* recent (FreshWhenFlushingAlways).                                       *)
(*                                                                         *)
(* All follow from where the indices may be once the HAL is past its       *)
(* check.  The engine then moves readFrame no more (Roles), so the queue   *)
(* only grows by packets, and the one under way fits beside it (ReadOK).   *)
(* Behind every position readFrame has or is about to get the ring holds   *)
(* the engine's own frames only (Source), and behind a queue within the    *)
(* threshold an engine that flushes has dropped none (Recent).             *)
(***************************************************************************)
EXTENDS CaptureRing, TLAPS

(* Facts about remainders: the ring indexes its slots modulo a constant.    *)
LEMMA MultipleTooLarge == \A c \in Nat \ {0}, k \in Int : k >= 1 => c * k >= c
  BY SMT

(* What div and % are.                                                      *)
LEMMA Division ==
  \A c \in Nat \ {0}, x \in Int : /\ x \div c \in Int /\ x % c \in 0 .. c - 1
                                  /\ x = c * (x \div c) + (x % c)
  BY SMT

(* Numbers less than the modulus apart have different remainders.           *)
LEMMA RemaindersDistinct ==
  ASSUME NEW c \in Nat \ {0}, NEW p \in Int, NEW q \in Int, p < q, q - p < c
  PROVE  p % c # q % c
<1>1. p = c * (p \div c) + (p % c) BY Division
<1>2. q = c * (q \div c) + (q % c) BY Division
<1>3. SUFFICES ASSUME p % c = q % c PROVE FALSE OBVIOUS
<1> DEFINE k == (q \div c) - (p \div c)
<1>4. k \in Int BY Division, SMT
<1>5. q - p = c * k BY <1>1, <1>2, <1>3, SMT
<1>6. k >= 1 BY <1>4, <1>5, SMT
<1> QED BY <1>4, <1>5, <1>6, MultipleTooLarge, SMT

(* A remainder is determined by being one.                                  *)
LEMMA RemainderUnique ==
  ASSUME NEW c \in Nat \ {0}, NEW m \in Int, NEW d \in 0 .. c - 1
  PROVE  (c * m + d) % c = d
<1> DEFINE x == c * m + d
<1>1. x \in Int BY SMT
<1>2. x \div c \in Int /\ x % c \in 0 .. c - 1 /\ x = c * (x \div c) + (x % c)
  BY <1>1, Division
<1> DEFINE k == m - (x \div c)
           j == (x \div c) - m
<1>3. k \in Int /\ j \in Int BY <1>2, SMT
<1>4. c * k = (x % c) - d BY <1>2, SMT
<1>5. c * j = d - (x % c) BY <1>2, SMT
<1>6. ~(k >= 1) BY <1>2, <1>3, <1>4, MultipleTooLarge, SMT
<1>7. ~(j >= 1) BY <1>2, <1>3, <1>5, MultipleTooLarge, SMT
<1>8. k = 0 BY <1>2, <1>3, <1>6, <1>7, SMT
<1> QED BY <1>2, <1>4, <1>8, SMT

(* Arithmetic on the word.                                                  *)
Words == 0 .. Word - 1

(* What CaptureAssumption says of the constants, for arithmetic.            *)
LEMMA ConstantsOK ==
  /\ Capacity \in Nat /\ Capacity > 0 /\ Word \in Nat /\ Word > 2 * Capacity
  /\ Limit \in Nat /\ MaxLive \in Nat /\ Prefill \in Nat /\ MaxPacket \in Nat
  /\ 0 < Prefill /\ Prefill <= MaxLive /\ MaxLive <= Limit /\ Limit < Capacity
  /\ 0 < MaxPacket /\ Limit + MaxPacket <= Capacity
  /\ MaxRead \in Nat /\ MaxAge \in Nat /\ MaxAge = Limit + MaxPacket
BY CaptureAssumption DEF MaxAge

(* Remainders of numbers less than a turn away from the word.               *)
LEMMA Wrap ==
  ASSUME NEW x \in Int, -Word <= x, x < 2 * Word
  PROVE  /\ x < 0 => x % Word = x + Word
         /\ 0 <= x /\ x < Word => x % Word = x
         /\ Word <= x => x % Word = x - Word
<1>1. Word \in Nat \ {0}
  BY ConstantsOK
<1>2. ASSUME x < 0 PROVE x % Word = x + Word
  <2>1. x + Word \in 0 .. Word - 1 /\ x = Word * (-1) + (x + Word) /\ -1 \in Int
    BY <1>1, <1>2
  <2>2. (Word * (-1) + (x + Word)) % Word = x + Word
    BY <1>1, <2>1, RemainderUnique
  <2> QED
    BY <2>1, <2>2, Zenon
<1>3. ASSUME 0 <= x, x < Word PROVE x % Word = x
  <2>1. x \in 0 .. Word - 1 /\ x = Word * 0 + x /\ 0 \in Int
    BY <1>1, <1>3
  <2>2. (Word * 0 + x) % Word = x
    BY <1>1, <2>1, RemainderUnique
  <2> QED
    BY <2>1, <2>2, Zenon
<1>4. ASSUME Word <= x PROVE x % Word = x - Word
  <2>1. x - Word \in 0 .. Word - 1 /\ x = Word * 1 + (x - Word) /\ 1 \in Int
    BY <1>1, <1>4
  <2>2. (Word * 1 + (x - Word)) % Word = x - Word
    BY <1>1, <2>1, RemainderUnique
  <2> QED
    BY <2>1, <2>2, Zenon
<1> QED
  BY <1>2, <1>3, <1>4

(* The distance from r to w, without remainders.                            *)
LEMMA UsedIs ==
  ASSUME NEW w \in Words, NEW r \in Words
  PROVE  /\ Used(w, r) \in Words
         /\ r <= w => Used(w, r) = w - r
         /\ w < r => Used(w, r) = w - r + Word
<1>1. PICK x \in Int : x = w - r /\ -Word <= x /\ x < Word /\ x < 2 * Word
  BY ConstantsOK DEF Words
<1>2. Used(w, r) = x % Word
  BY <1>1 DEF Used
<1>3. /\ x < 0 => Used(w, r) = x + Word
      /\ 0 <= x => Used(w, r) = x
  BY <1>1, <1>2, Wrap
<1> HIDE DEF Used
<1> QED
  BY <1>1, <1>3, ConstantsOK DEF Words

(* A position advanced by n, without remainders.                            *)
LEMMA PlusIs ==
  ASSUME NEW p \in Words, NEW n \in Words
  PROVE  /\ Plus(p, n) \in Words
         /\ p + n < Word => Plus(p, n) = p + n
         /\ Word <= p + n => Plus(p, n) = p + n - Word
<1>1. PICK x \in Int : x = p + n /\ -Word <= x /\ 0 <= x /\ x < 2 * Word
  BY ConstantsOK DEF Words
<1>2. Plus(p, n) = x % Word
  BY <1>1 DEF Plus
<1>3. /\ x < Word => Plus(p, n) = x
      /\ Word <= x => Plus(p, n) = x - Word
  BY <1>1, <1>2, Wrap
<1> QED
  BY <1>1, <1>3, ConstantsOK DEF Words

(* The position a prefill behind w.                                         *)
LEMMA RewindIs ==
  ASSUME NEW w \in Words
  PROVE  /\ (w - Prefill) % Word \in Words
         /\ Plus((w - Prefill) % Word, Prefill) = w
<1>1. PICK x \in Int : x = w - Prefill /\ -Word <= x /\ x < Word /\ x < 2 * Word
  BY ConstantsOK DEF Words
<1>2. PICK y : y = (w - Prefill) % Word
  OBVIOUS
<1>3. /\ x < 0 => y = x + Word
      /\ 0 <= x => y = x
  BY <1>1, <1>2, Wrap
<1>4. y \in Words /\ Prefill \in Words
  BY <1>1, <1>3, ConstantsOK DEF Words
<1>5. PICK z \in Words : z = Plus(y, Prefill)
  BY <1>4, PlusIs
<1>6. /\ y + Prefill < Word => z = y + Prefill
      /\ Word <= y + Prefill => z = y + Prefill - Word
  BY <1>4, <1>5, PlusIs
<1>7. z = w
  BY <1>1, <1>3, <1>4, <1>6, ConstantsOK DEF Words
<1> QED
  BY <1>2, <1>4, <1>5, <1>7

(* Distances along the word.                                                *)
LEMMA Here ==
  ASSUME NEW p \in Words
  PROVE  0 \in Words /\ Plus(p, 0) = p /\ Used(p, p) = 0
<1>1. 0 \in Words
  BY ConstantsOK DEF Words
<1> QED
  BY <1>1, UsedIs, PlusIs, ConstantsOK DEF Words

(* Distances to and from a position that advances.                          *)
LEMMA Advanced ==
  ASSUME NEW p \in Words, NEW n \in Words, NEW q \in Words
  PROVE  /\ Plus(p, n) \in Words
         /\ Used(p, q) + n < Word => Used(Plus(p, n), q) = Used(p, q) + n
         /\ n <= Used(q, p) => Used(q, Plus(p, n)) = Used(q, p) - n
<1>1. PICK x \in Words : x = Plus(p, n)
  BY PlusIs
<1>2. PICK u \in Words : u = Used(p, q)
  BY UsedIs
<1>3. PICK v \in Words : v = Used(q, p)
  BY UsedIs
<1>4. PICK a \in Words : a = Used(x, q)
  BY UsedIs
<1>5. PICK b \in Words : b = Used(q, x)
  BY UsedIs
<1>6. /\ p + n < Word => x = p + n
      /\ Word <= p + n => x = p + n - Word
  BY <1>1, PlusIs
<1>7. /\ q <= p => u = p - q
      /\ p < q => u = p - q + Word
      /\ p <= q => v = q - p
      /\ q < p => v = q - p + Word
  BY <1>2, <1>3, UsedIs
<1>8. /\ q <= x => a = x - q
      /\ x < q => a = x - q + Word
      /\ x <= q => b = q - x
      /\ q < x => b = q - x + Word
  BY <1>4, <1>5, UsedIs
<1>9. u + n < Word => a = u + n
  BY <1>6, <1>7, <1>8, ConstantsOK DEF Words
<1>10. n <= v => b = v - n
  BY <1>6, <1>7, <1>8, ConstantsOK DEF Words
<1> QED
  BY <1>1, <1>2, <1>3, <1>4, <1>5, <1>9, <1>10

(* Two advances are one.                                                    *)
LEMMA TwoSteps ==
  ASSUME NEW p \in Words, NEW n \in Words, NEW m \in Words, n + m < Word
  PROVE  n + m \in Words /\ Plus(Plus(p, n), m) = Plus(p, n + m)
<1>1. n + m \in Words
  BY ConstantsOK DEF Words
<1>2. PICK x \in Words : x = Plus(p, n)
  BY PlusIs
<1>3. PICK y \in Words : y = Plus(x, m)
  BY PlusIs
<1>4. PICK k \in Words : k = n + m
  BY <1>1
<1>5. PICK z \in Words : z = Plus(p, k)
  BY PlusIs
<1>6. /\ p + n < Word => x = p + n
      /\ Word <= p + n => x = p + n - Word
      /\ x + m < Word => y = x + m
      /\ Word <= x + m => y = x + m - Word
      /\ p + k < Word => z = p + k
      /\ Word <= p + k => z = p + k - Word
  BY <1>2, <1>3, <1>5, PlusIs
<1>7. y = z
  BY <1>4, <1>6, ConstantsOK DEF Words
<1> QED
  BY <1>1, <1>2, <1>3, <1>4, <1>5, <1>7

(* A position is as far as the distance to it says.                         *)
LEMMA Between ==
  ASSUME NEW p \in Words, NEW q \in Words
  PROVE  Used(q, p) \in Words /\ Plus(p, Used(q, p)) = q
<1>1. PICK v \in Words : v = Used(q, p)
  BY UsedIs
<1>2. /\ p <= q => v = q - p
      /\ q < p => v = q - p + Word
  BY <1>1, UsedIs
<1>3. PICK z \in Words : z = Plus(p, v)
  BY PlusIs
<1>4. /\ p + v < Word => z = p + v
      /\ Word <= p + v => z = p + v - Word
  BY <1>3, PlusIs
<1>5. z = q
  BY <1>2, <1>4, ConstantsOK DEF Words
<1> QED
  BY <1>1, <1>3, <1>5

(* A position advanced by n is n ahead.                                     *)
LEMMA Ahead ==
  ASSUME NEW p \in Words, NEW n \in Words
  PROVE  Plus(p, n) \in Words /\ Used(Plus(p, n), p) = n
<1>1. PICK x \in Words : x = Plus(p, n)
  BY PlusIs
<1>2. PICK a \in Words : a = Used(x, p)
  BY UsedIs
<1>3. /\ p + n < Word => x = p + n
      /\ Word <= p + n => x = p + n - Word
      /\ p <= x => a = x - p
      /\ x < p => a = x - p + Word
  BY <1>1, <1>2, PlusIs, UsedIs
<1>4. a = n
  BY <1>3, ConstantsOK DEF Words
<1> QED
  BY <1>1, <1>2, <1>4

(* The word is a multiple of the ring: positions keep their slots as they   *)
(* wrap, and positions less than a ring apart have different ones.          *)
LEMMA SlotWrap ==
  ASSUME NEW x \in Int
  PROVE  (x % Word) % Capacity = x % Capacity
<1>1. /\ Capacity \in Nat \ {0} /\ Word \in Nat \ {0} /\ Word % Capacity = 0
  BY ConstantsOK, CaptureAssumption
<1>2. /\ x \div Word \in Int /\ x % Word \in 0 .. Word - 1
      /\ x = Word * (x \div Word) + (x % Word)
  BY <1>1, Division
<1>3. PICK m \in Int : Word = Capacity * m
  <2>1. Word \div Capacity \in Int /\ Word = Capacity * (Word \div Capacity)
    BY <1>1, Division
  <2> QED
    BY <2>1
<1>4. PICK d \in 0 .. Capacity - 1, k \in Int :
        x % Word = Capacity * k + d /\ d = (x % Word) % Capacity
  <2>1. x % Word \in Int
    BY <1>1, <1>2
  <2> QED
    BY <1>1, <2>1, Division
<1>5. PICK j \in Int : j = m * (x \div Word) + k
  BY <1>2, <1>3, <1>4
<1>6. x = Capacity * j + d
  <2>1. PICK n \in Int : n = x \div Word
    BY <1>2
  <2>2. PICK y \in Int : y = x % Word
    BY <1>2
  <2>3. x = Word * n + y /\ y = Capacity * k + d /\ j = m * n + k
    BY <1>2, <1>4, <1>5, <2>1, <2>2
  <2>4. Word * n = Capacity * (m * n)
    <3>1. \A a, b, c \in Int : (a * b) * c = a * (b * c)
      OBVIOUS
    <3>2. (Capacity * m) * n = Capacity * (m * n)
      BY <1>1, <3>1
    <3> QED
      BY <1>3, <3>2, Zenon
  <2>5. Capacity * j = Capacity * (m * n) + Capacity * k
    <3>1. \A a, b, c \in Int : a * (b + c) = a * b + a * c
      OBVIOUS
    <3>2. Capacity * (m * n + k) = Capacity * (m * n) + Capacity * k
      BY <1>1, <3>1
    <3> QED
      BY <2>3, <3>2, Zenon
  <2>6. PICK a \in Int : a = Word * n
    BY <1>1, <2>1
  <2>7. PICK c \in Int : c = Capacity * k
    BY <1>1, <1>4
  <2>8. x = a + (c + d)
    BY <2>3, <2>6, <2>7
  <2>9. Capacity * j = a + c
    BY <2>4, <2>5, <2>6, <2>7
  <2> QED
    BY <2>6, <2>7, <2>8, <2>9
<1>7. x % Capacity = d
  <2>1. (Capacity * j + d) % Capacity = d
    BY <1>1, RemainderUnique
  <2> QED
    BY <1>6, <2>1, Zenon
<1> QED
  BY <1>4, <1>7, Zenon

(* Every position has a slot.                                               *)
LEMMA SlotPlace ==
  ASSUME NEW p \in Words
  PROVE  SlotOf(p) \in 0 .. Capacity - 1
<1>1. p \in Int /\ Capacity \in Nat \ {0}
  BY ConstantsOK DEF Words
<1>2. p % Capacity \in 0 .. Capacity - 1
  BY <1>1, Division
<1> QED
  BY <1>2 DEF SlotOf

(* Positions less than a ring apart have different slots.                   *)
LEMMA SlotsApart ==
  ASSUME NEW p \in Words, NEW a \in Nat, NEW b \in Nat, a < b, b - a < Capacity
  PROVE  SlotOf(Plus(p, a)) # SlotOf(Plus(p, b))
<1>1. /\ p + a \in Int /\ p + b \in Int
      /\ p + a < p + b /\ (p + b) - (p + a) < Capacity
  BY DEF Words
<1>2. (p + a) % Capacity # (p + b) % Capacity
  BY <1>1, ConstantsOK, RemaindersDistinct
<1> QED
  BY <1>1, <1>2, SlotWrap DEF SlotOf, Plus

-----------------------------------------------------------------------------
(* Types, and who may be where.                                             *)
Up == engPc \in {"run", "copy", "try", "flush", "rewind", "activate"}
Past == ioPc \in {"trim", "trimStore", "load", "reserve", "copy"}
Admitted == ioPc \in {"check", "suspend"} \/ Past

Roles ==
  /\ ~running => ioPc = "idle"
  /\ ctlPc # "idle" => ~running
  /\ engPc \in {"initDemand", "startup", "flush", "rewind", "activate"} =>
       active = 0
  /\ engPc \in {"flush", "rewind", "activate"} => qualified
  /\ Up /\ ~qualified => active = 0
  /\ Up /\ Admitted => active = 1

(* The type invariant in three parts: indices, slots, the rest.             *)
WordsOK ==
  /\ writeFrame \in Words /\ readFrame \in Words
  /\ ioNext \in Words /\ ioEnd \in Words /\ ctlFrame \in Words
  /\ engNext \in Words /\ engEnd \in Words

SlotsOK == slots \in [0 .. Capacity - 1 -> [age : 0 .. MaxAge, rate : Rates]]

FlagsOK ==
  /\ sampleRate \in Rates /\ active \in {0, 1} /\ demand \in BOOLEAN
  /\ halRate \in Rates /\ running \in BOOLEAN
  /\ ioPc \in {"idle", "admit", "check", "suspend", "flush", "trim",
               "trimStore", "load", "reserve", "copy"}
  /\ ctlPc \in {"idle", "startLoad", "startStore", "changeLoad",
                "changeStore", "changeClear"}
  /\ engPc \in {"none", "initRead", "initRate", "initActive", "initDemand",
                "startup", "run", "copy", "try", "flush", "rewind", "activate"}
  /\ engRate \in Rates /\ qualified \in BOOLEAN

(* The type invariant, split.                                               *)
LEMMA TypeParts == TypeOK <=> WordsOK /\ SlotsOK /\ FlagsOK
BY DEF TypeOK, WordsOK, SlotsOK, FlagsOK, Words

(* The smaller of two numbers.                                              *)
LEMMA Least ==
  \A a, b \in Nat : /\ Minimum(a, b) \in Nat
                    /\ Minimum(a, b) <= a /\ Minimum(a, b) <= b
                    /\ Minimum(a, b) = a \/ Minimum(a, b) = b
BY DEF Minimum

(* What is free and what is queued make up the ring.                        *)
LEMMA Room ==
  ASSUME NEW u \in Words
  PROVE  FreeIn(u) \in Words /\ (u <= Capacity => FreeIn(u) + u = Capacity)
BY ConstantsOK DEF FreeIn, Words

(* What the reader takes and the writer reserves are words.                 *)
LEMMA Amounts ==
  /\ \A n \in 1 .. MaxRead : \A u \in Words : Minimum(n, u) \in Words
  /\ \A u \in Words : FreeIn(u) \in Words
  /\ \A n \in 1 .. MaxPacket : n \in Words
  /\ \A n \in 1 .. MaxPacket, u \in Words : /\ Minimum(n, FreeIn(u)) \in Words
                                            /\ Minimum(n, FreeIn(u)) <= MaxPacket
                                            /\ Minimum(n, FreeIn(u)) <= FreeIn(u)
<1>1. \A u \in Words : FreeIn(u) \in Words
  BY Room
<1>2. \A n \in 1 .. MaxRead : \A u \in Words : Minimum(n, u) \in Words
  BY ConstantsOK, Least DEF Words
<1>3. \A n \in 1 .. MaxPacket : n \in Words
  BY ConstantsOK DEF Words
<1>4. ASSUME NEW n \in 1 .. MaxPacket, NEW u \in Words
      PROVE  /\ Minimum(n, FreeIn(u)) \in Words
             /\ Minimum(n, FreeIn(u)) <= MaxPacket
             /\ Minimum(n, FreeIn(u)) <= FreeIn(u)
  <2>1. PICK f \in Words : f = FreeIn(u)
    BY <1>1
  <2>2. f \in Nat /\ n \in Nat /\ n <= MaxPacket /\ MaxPacket < Word
    BY <2>1, ConstantsOK DEF Words
  <2>3. Minimum(n, f) \in Nat /\ Minimum(n, f) <= n /\ Minimum(n, f) <= f
    BY <2>2, Least
  <2> QED
    BY <2>1, <2>2, <2>3, ConstantsOK DEF Words
<1> QED
  BY <1>1, <1>2, <1>3, <1>4

(* Slots grow older and keep their rates.                                   *)
LEMMA AgedTyped ==
  ASSUME SlotsOK, NEW n \in Nat
  PROVE  /\ Aged(n) \in [0 .. Capacity - 1 -> [age : 0 .. MaxAge, rate : Rates]]
         /\ \A i \in 0 .. Capacity - 1 : /\ Aged(n)[i].rate = slots[i].rate
                                         /\ Aged(n)[i].age <= slots[i].age + n
<1> SUFFICES ASSUME NEW i \in 0 .. Capacity - 1
             PROVE  /\ [slots[i] EXCEPT !.age = Minimum(@ + n, MaxAge)]
                         \in [age : 0 .. MaxAge, rate : Rates]
                    /\ [slots[i] EXCEPT !.age = Minimum(@ + n, MaxAge)].rate
                         = slots[i].rate
                    /\ [slots[i] EXCEPT !.age = Minimum(@ + n, MaxAge)].age
                         <= slots[i].age + n
  BY DEF Aged
<1>1. slots[i] \in [age : 0 .. MaxAge, rate : Rates]
  BY DEF SlotsOK
<1>2. /\ Minimum(slots[i].age + n, MaxAge) \in 0 .. MaxAge
      /\ Minimum(slots[i].age + n, MaxAge) <= slots[i].age + n
  <2>1. PICK a \in Nat : a = slots[i].age + n
    BY <1>1, ConstantsOK
  <2>2. MaxAge \in Nat
    BY ConstantsOK
  <2>3. /\ Minimum(a, MaxAge) \in Nat
        /\ Minimum(a, MaxAge) <= MaxAge /\ Minimum(a, MaxAge) <= a
    BY <2>1, <2>2, Least
  <2> QED
    BY <2>1, <2>2, <2>3
<1> QED
  BY <1>1, <1>2

(* A written slot is a slot.                                                *)
LEMMA SlotWritten ==
  ASSUME SlotsOK, NEW p \in Words, NEW r \in Rates
  PROVE  /\ SlotOf(p) \in 0 .. Capacity - 1
         /\ [slots EXCEPT ![SlotOf(p)] = [age |-> 0, rate |-> r]]
              \in [0 .. Capacity - 1 -> [age : 0 .. MaxAge, rate : Rates]]
<1>1. SlotOf(p) \in 0 .. Capacity - 1
  BY SlotPlace
<1>2. [age |-> 0, rate |-> r] \in [age : 0 .. MaxAge, rate : Rates]
  BY ConstantsOK
<1> QED
  BY <1>1, <1>2 DEF SlotsOK

(* The ring at the start.                                                   *)
LEMMA TypeInit == Init => TypeOK /\ Roles
<1> SUFFICES ASSUME Init PROVE TypeOK /\ Roles
  OBVIOUS
<1>1. WordsOK
  BY ConstantsOK DEF Init, WordsOK, Words
<1>2. SlotsOK
  BY ConstantsOK DEF Init, SlotsOK
<1>3. FlagsOK
  BY DEF Init, FlagsOK
<1>4. Roles
  BY DEF Init, Roles, Up, Admitted, Past
<1> QED
  BY <1>1, <1>2, <1>3, <1>4, TypeParts

(* Every stored index stays a word.                                         *)
LEMMA WordsStep ==
  ASSUME TypeOK, [Next]_vars
  PROVE  WordsOK'
<1> USE DEF WordsOK, ringVars, halVars, ioVars, ctlVars, engVars
<1>0. WordsOK /\ 0 \in Words /\ 1 \in Words
  BY TypeParts, ConstantsOK DEF Words
<1>1. CASE ReadInput
  <2>1. CASE ReadAnnounce \/ ReadAdmit \/ CheckStale \/ SuspendClear
    BY <1>0, <2>1 DEF ReadAnnounce, ReadAdmit, CheckStale, SuspendClear
  <2>2. CASE SuspendFlush \/ TrimStore \/ ReadLoad \/ ReadCommit
    BY <1>0, <2>2 DEF SuspendFlush, TrimStore, ReadLoad, ReadCommit
  <2>3. CASE TrimLoad
    BY <1>0, <2>3, RewindIs DEF TrimLoad
  <2>4. CASE ReadReserve
    BY <1>0, <2>4, UsedIs, PlusIs, Amounts DEF ReadReserve
  <2>5. CASE ReadCopy
    BY <1>0, <2>5, PlusIs DEF ReadCopy
  <2> QED
    BY <1>1, <2>1, <2>2, <2>3, <2>4, <2>5 DEF ReadInput
<1>2. CASE Control
  BY <1>0, <1>2 DEF Control, StartIO, StopIO, ChangeRate, ControlLoad,
    ControlStore, ChangeClear, HalRestart
<1>3. CASE Packet
  <2>1. CASE PacketReserve
    BY <1>0, <2>1, UsedIs, PlusIs, Amounts DEF PacketReserve, Queued
  <2>2. CASE PacketCopy \/ PacketPublish
    BY <1>0, <2>2, PlusIs DEF PacketCopy, PacketPublish
  <2> QED
    BY <1>3, <2>1, <2>2 DEF Packet
<1>4. CASE Activation
  BY <1>0, <1>4, RewindIs DEF Activation, TryActivate, ActivateStore, ActivateSet
<1>5. CASE Startup
  BY <1>0, <1>5 DEF Startup, LaunchEngine, InitRead, InitRate, InitActive,
    InitDemand, StartCapture, Qualify
<1>6. CASE StopEngine \/ CrashEngine \/ UNCHANGED vars
  BY <1>0, <1>6 DEF StopEngine, CrashEngine, vars
<1> QED
  BY <1>1, <1>2, <1>3, <1>4, <1>5, <1>6 DEF Next

(* Slots stay slots.                                                        *)
LEMMA SlotsStep ==
  ASSUME TypeOK, [Next]_vars
  PROVE  SlotsOK'
<1> USE DEF ringVars, halVars, ioVars, ctlVars, engVars
<1>0. SlotsOK /\ WordsOK /\ engRate \in Rates
  BY TypeParts DEF FlagsOK
<1>1. CASE PacketReserve
  <2>1. PICK n \in Nat : slots' = Aged(n)
    BY <1>1, ConstantsOK DEF PacketReserve
  <2> QED
    BY <1>0, <2>1, AgedTyped DEF SlotsOK
<1>2. CASE LaunchEngine
  BY <1>0, <1>2, AgedTyped, ConstantsOK DEF LaunchEngine, SlotsOK
<1>3. CASE PacketCopy
  BY <1>0, <1>3, SlotWritten DEF PacketCopy, SlotsOK, WordsOK
<1>4. CASE slots' = slots
  BY <1>0, <1>4 DEF SlotsOK
<1>5. ReadInput \/ Control \/ StopEngine \/ CrashEngine \/ UNCHANGED vars =>
        slots' = slots
  BY DEF ReadInput, ReadAnnounce, ReadAdmit, CheckStale, SuspendClear,
    SuspendFlush, TrimLoad, TrimStore, ReadLoad, ReadReserve, ReadCopy,
    ReadCommit, Control, StartIO, StopIO, ChangeRate, ControlLoad,
    ControlStore, ChangeClear, HalRestart, StopEngine, CrashEngine, vars
<1>6. Activation \/ PacketPublish \/ (Startup /\ ~LaunchEngine) => slots' = slots
  BY DEF Activation, TryActivate, ActivateStore, ActivateSet, PacketPublish,
    Startup, InitRead, InitRate, InitActive, InitDemand, StartCapture, Qualify
<1> QED
  BY <1>1, <1>2, <1>3, <1>4, <1>5, <1>6 DEF Next, Packet, Startup

(* Program counters, flags and rates keep their types.                      *)
LEMMA FlagsStep ==
  ASSUME TypeOK, [Next]_vars
  PROVE  FlagsOK'
<1> USE DEF FlagsOK, ringVars, halVars, ioVars, ctlVars, engVars
<1>0. FlagsOK
  BY TypeParts
<1>1. CASE ReadInput
  BY <1>0, <1>1 DEF ReadInput, ReadAnnounce, ReadAdmit, CheckStale,
    SuspendClear, SuspendFlush, TrimLoad, TrimStore, ReadLoad, ReadReserve,
    ReadCopy, ReadCommit
<1>2. CASE Control
  BY <1>0, <1>2 DEF Control, StartIO, StopIO, ChangeRate, ControlLoad,
    ControlStore, ChangeClear, HalRestart
<1>3. CASE Packet
  BY <1>0, <1>3 DEF Packet, PacketReserve, PacketCopy, PacketPublish
<1>4. CASE Activation
  BY <1>0, <1>4 DEF Activation, TryActivate, ActivateStore, ActivateSet
<1>5. CASE Startup
  BY <1>0, <1>5 DEF Startup, LaunchEngine, InitRead, InitRate, InitActive,
    InitDemand, StartCapture, Qualify
<1>6. CASE StopEngine \/ CrashEngine \/ UNCHANGED vars
  BY <1>0, <1>6 DEF StopEngine, CrashEngine, vars
<1> QED
  BY <1>1, <1>2, <1>3, <1>4, <1>5, <1>6 DEF Next

(* The type invariant is inductive.                                         *)
LEMMA TypeStep ==
  ASSUME TypeOK, [Next]_vars
  PROVE  TypeOK'
<1>1. WordsOK' /\ SlotsOK' /\ FlagsOK'
  BY WordsStep, SlotsStep, FlagsStep
<1> QED
  BY <1>1 DEF TypeOK, WordsOK, SlotsOK, FlagsOK, Words

(* So is Roles: nobody is past the check while the engine rewinds.          *)
LEMMA RolesStep ==
  ASSUME TypeOK, Roles, [Next]_vars
  PROVE  Roles'
<1> USE DEF Roles, Up, Admitted, Past, ringVars, halVars, ioVars, ctlVars, engVars
<1>0. active \in {0, 1} /\ running \in BOOLEAN /\ qualified \in BOOLEAN
  BY DEF TypeOK
<1>1. CASE ReadInput
  <2>1. CASE ReadAnnounce \/ ReadAdmit \/ CheckStale \/ SuspendClear
    BY <1>0, <2>1 DEF ReadAnnounce, ReadAdmit, CheckStale, SuspendClear
  <2>2. CASE SuspendFlush \/ TrimLoad \/ TrimStore \/ ReadLoad
    BY <2>2 DEF SuspendFlush, TrimLoad, TrimStore, ReadLoad
  <2>3. CASE ReadReserve \/ ReadCopy \/ ReadCommit
    BY <2>3 DEF ReadReserve, ReadCopy, ReadCommit
  <2> QED
    BY <1>1, <2>1, <2>2, <2>3 DEF ReadInput
<1>2. CASE Control
  <2>1. CASE StartIO \/ StopIO \/ \E r \in Rates : ChangeRate(r)
    BY <2>1 DEF StartIO, StopIO, ChangeRate
  <2>2. CASE ControlLoad \/ ControlStore
    BY <2>2 DEF ControlLoad, ControlStore
  <2>3. CASE ChangeClear \/ HalRestart
    BY <2>3 DEF ChangeClear, HalRestart
  <2> QED
    BY <1>2, <2>1, <2>2, <2>3 DEF Control
<1>3. CASE Packet
  BY <1>3 DEF Packet, PacketReserve, PacketCopy, PacketPublish
<1>4. CASE Activation
  BY <1>0, <1>4 DEF Activation, TryActivate, ActivateStore, ActivateSet, MayActivate
<1>5. CASE Startup
  <2>1. CASE LaunchEngine \/ InitRead \/ InitRate
    BY <2>1 DEF LaunchEngine, InitRead, InitRate
  <2>2. CASE InitActive \/ InitDemand
    BY <2>2 DEF InitActive, InitDemand
  <2>3. CASE StartCapture \/ Qualify
    BY <1>0, <2>3 DEF StartCapture, Qualify
  <2> QED
    BY <1>5, <2>1, <2>2, <2>3 DEF Startup
<1>6. CASE StopEngine \/ CrashEngine
  BY <1>6 DEF StopEngine, CrashEngine
<1>7. CASE UNCHANGED vars
  BY <1>7 DEF vars
<1> QED
  BY <1>1, <1>2, <1>3, <1>4, <1>5, <1>6, <1>7 DEF Next

-----------------------------------------------------------------------------
(* The indices of a reader and of a packet.                                 *)
(* What the packet under way will add, and how much of it is written.       *)
Pending == IF engPc = "copy" THEN Used(engEnd, writeFrame) ELSE 0

PacketOK ==
  engPc = "copy" => /\ Used(engNext, writeFrame) + Used(engEnd, engNext) = Pending
                    /\ Pending <= MaxPacket

(* What the HAL goes on to read lies in the queue, and the queue with the   *)
(* packet under way in the ring.                                            *)
ReadOK ==
  /\ Queued + Pending <= Capacity
  /\ ioPc = "trimStore" => Used(writeFrame, ioEnd) <= Queued
  /\ ioPc = "reserve" => ioNext = readFrame
  /\ ioPc = "copy" => Used(ioNext, readFrame) + Used(ioEnd, ioNext) <= Queued

Racing == Up /\ Past => ReadOK

(* Every distance the invariants speak of is a word.                        *)
LEMMA Distances ==
  ASSUME TypeOK
  PROVE  /\ Queued \in Words /\ Pending \in Words
         /\ Used(engNext, writeFrame) \in Words /\ Used(engEnd, engNext) \in Words
         /\ Used(writeFrame, ioEnd) \in Words
         /\ Used(ioNext, readFrame) \in Words /\ Used(ioEnd, ioNext) \in Words
BY TypeParts, UsedIs, Here DEF WordsOK, Queued, Pending

(* A frame copied is one less to copy.                                      *)
LEMMA CopyAdvance ==
  ASSUME TypeOK, PacketOK, engPc = "copy", engNext # engEnd
  PROVE  /\ Used(Plus(engNext, 1), writeFrame) = Used(engNext, writeFrame) + 1
         /\ Used(engEnd, Plus(engNext, 1)) = Used(engEnd, engNext) - 1
<1>0. WordsOK /\ 1 \in Words
  BY TypeParts, ConstantsOK DEF Words
<1>1. PICK a \in Words : a = Used(engNext, writeFrame)
  BY Distances
<1>2. PICK b \in Words : b = Used(engEnd, engNext)
  BY Distances
<1>3. a + b = Pending /\ Pending <= MaxPacket
  BY <1>1, <1>2 DEF PacketOK
<1>4. 1 <= b
  <2>1. b # 0
    BY <1>0, <1>2, Between, Here DEF WordsOK
  <2> QED
    BY <2>1 DEF Words
<1>5. a + 1 < Word
  BY <1>3, <1>4, ConstantsOK DEF Words
<1> QED
  BY <1>0, <1>1, <1>2, <1>4, <1>5, Advanced DEF WordsOK

(* A packet under way keeps its length.                                     *)
LEMMA PacketStep ==
  ASSUME TypeOK, PacketOK, [Next]_vars
  PROVE  PacketOK'
<1>0. WordsOK
  BY TypeParts
<1>1. CASE PacketReserve
  <2>1. PICK n \in Words :
          /\ n <= MaxPacket /\ engNext' = writeFrame
          /\ engEnd' = Plus(writeFrame, n)
          /\ writeFrame' = writeFrame /\ engPc' = "copy"
    BY <1>0, <1>1, UsedIs, Amounts DEF PacketReserve, Queued, WordsOK
  <2>2. Used(Plus(writeFrame, n), writeFrame) = n
    BY <1>0, <2>1, Ahead DEF WordsOK
  <2>3. Used(writeFrame, writeFrame) = 0
    BY <1>0, Here DEF WordsOK
  <2> QED
    BY <2>1, <2>2, <2>3 DEF PacketOK, Pending, Words
<1>2. CASE PacketCopy
  <2>1. /\ engPc = "copy" /\ engPc' = "copy" /\ UNCHANGED <<engEnd, writeFrame>>
        /\ engNext # engEnd /\ engNext' = Plus(engNext, 1) /\ 1 \in Words
    BY <1>2, ConstantsOK DEF PacketCopy, Words
  <2>2. /\ Used(engNext', writeFrame) = Used(engNext, writeFrame) + 1
        /\ Used(engEnd, engNext') = Used(engEnd, engNext) - 1
    BY <2>1, CopyAdvance
  <2>3. Pending' = Pending
    BY <2>1 DEF Pending
  <2> QED
    BY <2>1, <2>2, <2>3, Distances DEF PacketOK, Words
<1>3. CASE ~PacketReserve /\ ~PacketCopy
  <2>1. \/ engPc' # "copy"
        \/ engPc = "copy" /\ UNCHANGED <<engNext, engEnd, writeFrame, engPc>>
    <3> USE DEF ringVars, halVars, ioVars, ctlVars, engVars
    <3>1. CASE ReadInput
      BY <3>1 DEF ReadInput, ReadAnnounce, ReadAdmit, CheckStale,
        SuspendClear, SuspendFlush, TrimLoad, TrimStore, ReadLoad,
        ReadReserve, ReadCopy, ReadCommit
    <3>2. CASE Control
      BY <3>2 DEF Control, StartIO, StopIO, ChangeRate, ControlLoad,
        ControlStore, ChangeClear, HalRestart
    <3>3. CASE PacketPublish \/ Activation
      BY <3>3 DEF PacketPublish, Activation, TryActivate, ActivateStore,
        ActivateSet
    <3>4. CASE Startup \/ StopEngine \/ CrashEngine
      BY <3>4 DEF Startup, LaunchEngine, InitRead, InitRate, InitActive,
        InitDemand, StartCapture, Qualify, StopEngine, CrashEngine
    <3>5. CASE UNCHANGED vars
      BY <3>5 DEF vars
    <3> QED
      BY <1>3, <3>1, <3>2, <3>3, <3>4, <3>5 DEF Next, Packet
  <2>2. CASE engPc' # "copy"
    BY <2>2 DEF PacketOK
  <2>3. CASE engPc = "copy" /\ UNCHANGED <<engNext, engEnd, writeFrame, engPc>>
    BY <2>3 DEF PacketOK, Pending
  <2> QED
    BY <2>1, <2>2, <2>3
<1> QED
  BY <1>1, <1>2, <1>3

(* The HAL past its check, the queue moves only by its own steps and by the *)
(* packets of the engine.                                                   *)
LEMMA ReaderAlone ==
  ASSUME TypeOK, Roles, Up, Past
  PROVE  /\ ctlPc = "idle" /\ running /\ active = 1 /\ qualified
         /\ engPc \in {"run", "copy", "try"}
BY TypeParts DEF FlagsOK, Roles, Up, Past, Admitted

(* CheckStale lets a callback go on only if the queue leaves room.          *)
LEMMA CheckStep ==
  ASSUME TypeOK, PacketOK, CheckStale
  PROVE  Past' => ReadOK'
<1> SUFFICES ASSUME Past' PROVE ReadOK'
  OBVIOUS
<1>1. /\ Queued <= Limit /\ ioPc' \in {"trim", "load"}
      /\ UNCHANGED <<writeFrame, readFrame, engPc, engEnd>>
  <2>1. ioPc' # "suspend"
    BY DEF Past
  <2>2. Queued <= Limit
    <3>1. ~(Queued > Limit)
      BY <2>1 DEF CheckStale
    <3> QED
      BY <3>1, Distances, ConstantsOK DEF Words
  <2>3. UNCHANGED <<writeFrame, readFrame, engPc, engEnd>>
    BY DEF CheckStale, ringVars, engVars
  <2>4. ioPc' \in {"trim", "load"}
    BY <2>1 DEF CheckStale
  <2> QED
    BY <2>2, <2>3, <2>4
<1>2. Queued' = Queued /\ Pending' = Pending
  BY <1>1 DEF Queued, Pending
<1>3. Queued + Pending <= Capacity
  <2>1. Pending <= MaxPacket
    BY ConstantsOK DEF PacketOK, Pending
  <2> QED
    BY <1>1, <2>1, Distances, ConstantsOK DEF Words
<1> QED
  BY <1>1, <1>2, <1>3 DEF ReadOK

(* A trim moves readFrame on within the queue.                              *)
LEMMA TrimStep ==
  ASSUME TypeOK, Past, ReadOK, TrimLoad \/ TrimStore
  PROVE  ReadOK'
<1>0. WordsOK
  BY TypeParts
<1>1. CASE TrimLoad
  <2>1. /\ UNCHANGED <<writeFrame, readFrame, engPc, engEnd>>
        /\ \/ ioPc' = "load"
           \/ /\ ioPc' = "trimStore" /\ ~(Prefill >= Queued)
              /\ ioEnd' = (writeFrame - Prefill) % Word
    BY <1>1 DEF TrimLoad, ringVars, engVars
  <2>2. Queued' = Queued /\ Pending' = Pending
    BY <2>1 DEF Queued, Pending
  <2>3. ASSUME ioPc' = "trimStore" PROVE Used(writeFrame, ioEnd') <= Queued
    <3>1. PICK e \in Words : e = ioEnd' /\ Plus(e, Prefill) = writeFrame
      BY <1>0, <2>1, <2>3, RewindIs DEF WordsOK
    <3>2. Prefill \in Words /\ Prefill < Word
      BY ConstantsOK DEF Words
    <3>3. Used(e, e) = 0 /\ Used(e, e) + Prefill < Word
      BY <3>1, <3>2, Here DEF Words
    <3>4. Used(writeFrame, e) = Used(e, e) + Prefill
      BY <3>1, <3>2, <3>3, Advanced
    <3> QED
      BY <2>1, <2>3, <3>1, <3>3, <3>4, Distances, ConstantsOK DEF Words
  <2> QED
    BY <2>1, <2>2, <2>3 DEF ReadOK
<1>2. CASE TrimStore
  <2>1. /\ UNCHANGED <<writeFrame, engPc, engEnd>> /\ ioPc = "trimStore"
        /\ ioPc' = "load" /\ readFrame' = ioEnd
    BY <1>2 DEF TrimStore, engVars
  <2>2. Queued' = Used(writeFrame, ioEnd) /\ Pending' = Pending
    BY <2>1 DEF Queued, Pending
  <2>3. Queued' <= Queued /\ Queued' \in Words
    BY <2>1, <2>2, Distances DEF ReadOK
  <2>4. Queued' + Pending' <= Capacity
    BY <2>2, <2>3, Distances, ConstantsOK DEF ReadOK, Words
  <2> QED
    BY <2>1, <2>4 DEF ReadOK
<1> QED
  BY <1>1, <1>2

(* A read reserves no more than the queue and copies that.                  *)
LEMMA LoadStep ==
  ASSUME TypeOK, Past, ReadOK, ReadLoad \/ ReadReserve \/ ReadCopy
  PROVE  ReadOK'
<1>0. WordsOK
  BY TypeParts
<1>1. UNCHANGED <<writeFrame, readFrame, engPc, engEnd>>
  BY DEF ReadLoad, ReadReserve, ReadCopy, ringVars, engVars
<1>2. Queued' = Queued /\ Pending' = Pending
  BY <1>1 DEF Queued, Pending
<1>3. CASE ReadLoad
  BY <1>1, <1>2, <1>3 DEF ReadLoad, ReadOK
<1>4. CASE ReadReserve
  <2>1. PICK n \in 1 .. MaxRead :
          /\ ioEnd' = Plus(ioNext, Minimum(n, Used(writeFrame, ioNext)))
          /\ ioNext' = ioNext /\ ioPc = "reserve" /\ ioPc' = "copy"
    BY <1>4 DEF ReadReserve
  <2>2. ioNext = readFrame /\ Used(writeFrame, ioNext) = Queued
    BY <2>1 DEF ReadOK, Queued
  <2>3. PICK m \in Words : m = Minimum(n, Queued) /\ m <= Queued
    <3>1. n \in Nat /\ Queued \in Nat /\ Queued \in Words
      BY Distances, ConstantsOK DEF Words
    <3> QED
      BY <3>1, Least, Amounts
  <2>4. Used(ioNext, readFrame) = 0 /\ Used(ioNext, ioNext) = 0
    BY <1>0, <2>2, Here DEF WordsOK
  <2>5. Used(ioEnd', ioNext) = m
    <3>1. Used(Plus(ioNext, m), ioNext) = m
      BY <1>0, <2>3, Ahead DEF WordsOK
    <3> QED
      BY <2>1, <2>2, <2>3, <3>1
  <2>6. Used(ioNext', readFrame') + Used(ioEnd', ioNext') <= Queued'
    BY <1>1, <1>2, <2>1, <2>3, <2>4, <2>5 DEF Words
  <2> QED
    BY <1>2, <2>1, <2>6 DEF ReadOK
<1>5. CASE ReadCopy
  <2>1. /\ ioNext' = Plus(ioNext, 1) /\ ioEnd' = ioEnd /\ ioNext # ioEnd
        /\ ioPc = "copy" /\ ioPc' = "copy" /\ 1 \in Words
    BY <1>5, ConstantsOK DEF ReadCopy, Words
  <2>2. PICK a \in Words : a = Used(ioNext, readFrame)
    BY Distances
  <2>3. PICK b \in Words : b = Used(ioEnd, ioNext)
    BY Distances
  <2>4. a + b <= Queued /\ Queued \in Words
    BY <2>1, <2>2, <2>3, Distances DEF ReadOK
  <2>5. 1 <= b
    <3>1. b # 0
      BY <1>0, <2>1, <2>3, Between, Here DEF WordsOK
    <3> QED
      BY <3>1 DEF Words
  <2>6. a + 1 < Word
    BY <2>4, <2>5, ConstantsOK DEF Words
  <2>7. Used(ioNext', readFrame) = a + 1 /\ Used(ioEnd, ioNext') = b - 1
    BY <1>0, <2>1, <2>2, <2>3, <2>5, <2>6, Advanced DEF WordsOK
  <2>8. Used(ioNext', readFrame') + Used(ioEnd', ioNext') <= Queued'
    BY <1>1, <1>2, <2>1, <2>4, <2>7 DEF Words
  <2> QED
    BY <1>2, <2>1, <2>8 DEF ReadOK
<1> QED
  BY <1>3, <1>4, <1>5

(* A packet fits beside the queue that is being read.                       *)
LEMMA PacketRead ==
  ASSUME TypeOK, PacketOK, Past, ReadOK, Packet
  PROVE  ReadOK'
<1>0. WordsOK
  BY TypeParts
<1>1. UNCHANGED <<readFrame, ioPc, ioNext, ioEnd>>
  BY DEF Packet, PacketReserve, PacketCopy, PacketPublish, halVars, ioVars
<1>2. CASE PacketReserve
  <2>1. PICK n \in 1 .. MaxPacket :
          /\ engEnd' = Plus(writeFrame, Minimum(n, FreeIn(Queued)))
          /\ writeFrame' = writeFrame /\ engPc = "run" /\ engPc' = "copy"
    BY <1>2 DEF PacketReserve
  <2>2. PICK m \in Words : m = Minimum(n, FreeIn(Queued)) /\ m <= FreeIn(Queued)
    BY Amounts, Distances
  <2>4. Used(Plus(writeFrame, m), writeFrame) = m
    BY <1>0, <2>2, Ahead DEF WordsOK
  <2>5. Queued' = Queued /\ Pending' = m
    BY <1>1, <2>1, <2>2, <2>4 DEF Queued, Pending
  <2>6. Queued + m <= Capacity
    <3>1. Pending = 0 /\ Queued <= Capacity
      BY <2>1, Distances, ConstantsOK DEF Pending, ReadOK, Words
    <3>2. FreeIn(Queued) + Queued = Capacity /\ FreeIn(Queued) \in Words
      <4>1. PICK u \in Words : u = Queued
        BY Distances
      <4> QED
        BY <3>1, <4>1, Room
    <3> QED
      BY <2>2, <3>2, Distances, ConstantsOK DEF Words
  <2> QED
    BY <1>1, <2>1, <2>5, <2>6 DEF ReadOK
<1>3. CASE PacketCopy
  <2>1. UNCHANGED <<writeFrame, engPc, engEnd>>
    BY <1>3 DEF PacketCopy
  <2>2. Queued' = Queued /\ Pending' = Pending
    BY <1>1, <2>1 DEF Queued, Pending
  <2> QED
    BY <1>1, <2>1, <2>2 DEF ReadOK
<1>4. CASE PacketPublish
  <2>1. writeFrame' = engEnd /\ engPc = "copy" /\ engPc' = "try" /\ engNext = engEnd
    BY <1>4 DEF PacketPublish
  <2>2. PICK n \in Words : n = Used(engEnd, writeFrame) /\ n = Pending
    BY <2>1, Distances DEF Pending
  <2>3. engEnd = Plus(writeFrame, n)
    <3>1. Plus(writeFrame, Used(engEnd, writeFrame)) = engEnd
      BY <1>0, Between DEF WordsOK
    <3> QED
      BY <2>2, <3>1
  <2>4. Queued + n <= Capacity /\ Queued \in Words
    BY <2>2, Distances DEF ReadOK
  <2>5. \A h \in Words : Used(writeFrame, h) <= Queued =>
          Used(engEnd, h) = Used(writeFrame, h) + n
    <3> SUFFICES ASSUME NEW h \in Words, Used(writeFrame, h) <= Queued
                 PROVE  Used(engEnd, h) = Used(writeFrame, h) + n
      OBVIOUS
    <3>1. Used(writeFrame, h) \in Words
      BY <1>0, UsedIs DEF WordsOK
    <3>2. Used(writeFrame, h) + n < Word
      BY <2>4, <3>1, ConstantsOK DEF Words
    <3> QED
      BY <1>0, <2>3, <3>2, Advanced DEF WordsOK
  <2>6. Queued' = Queued + n /\ Pending' = 0
    BY <1>0, <1>1, <2>1, <2>4, <2>5 DEF Queued, Pending, WordsOK, Words
  <2>7. ioPc = "trimStore" => Used(writeFrame', ioEnd) <= Queued'
    BY <1>0, <2>1, <2>4, <2>5, <2>6, Distances DEF ReadOK, WordsOK, Words
  <2>8. ioPc = "copy" =>
          Used(ioNext, readFrame) + Used(ioEnd, ioNext) <= Queued'
    BY <2>4, <2>6, Distances DEF ReadOK, Words
  <2> QED
    BY <1>1, <2>4, <2>6, <2>7, <2>8 DEF ReadOK, Words
<1> QED
  BY <1>2, <1>3, <1>4 DEF Packet

(* A step that touches no index disturbs no read.                           *)
LEMMA ReadUnchanged ==
  ASSUME ReadOK, UNCHANGED <<writeFrame, readFrame, ioPc, ioNext, ioEnd>>,
         Pending' = Pending
  PROVE  ReadOK'
BY DEF ReadOK, Queued

(* Racing is inductive: no step lets the queue outgrow the ring.            *)
LEMMA RacingStep ==
  ASSUME TypeOK, Roles, PacketOK, Racing, [Next]_vars
  PROVE  Racing'
<1> SUFFICES ASSUME Up', Past' PROVE ReadOK'
  BY DEF Racing
<1> USE DEF ringVars, halVars, ioVars, ctlVars, engVars
<1>1. CASE ReadInput
  <2>1. Up
    BY <1>1 DEF Up, ReadInput, ReadAnnounce, ReadAdmit, CheckStale,
      SuspendClear, SuspendFlush, TrimLoad, TrimStore, ReadLoad, ReadReserve,
      ReadCopy, ReadCommit
  <2>2. CASE ReadAnnounce \/ ReadAdmit \/ SuspendClear \/ SuspendFlush \/ ReadCommit
    BY <2>2 DEF Past, ReadAnnounce, ReadAdmit, SuspendClear, SuspendFlush,
      ReadCommit
  <2>3. CASE CheckStale
    BY <2>3, CheckStep
  <2>4. CASE TrimLoad \/ TrimStore
    <3>1. Past
      BY <2>4 DEF TrimLoad, TrimStore, Past
    <3> QED
      BY <2>1, <2>4, <3>1, TrimStep DEF Racing
  <2>5. CASE ReadLoad \/ ReadReserve \/ ReadCopy
    <3>1. Past
      BY <2>5 DEF ReadLoad, ReadReserve, ReadCopy, Past
    <3> QED
      BY <2>1, <2>5, <3>1, LoadStep DEF Racing
  <2> QED
    BY <1>1, <2>2, <2>3, <2>4, <2>5 DEF ReadInput
<1>2. CASE Control
  <2>1. ~Past'
    BY <1>2 DEF Roles, Past, Control, StartIO, StopIO, ChangeRate,
      ControlLoad, ControlStore, ChangeClear, HalRestart
  <2> QED
    BY <2>1
<1>3. CASE Packet
  <2>1. Up /\ Past
    BY <1>3 DEF Up, Past, Packet, PacketReserve, PacketCopy, PacketPublish
  <2> QED
    BY <1>3, <2>1, PacketRead DEF Racing
<1>4. CASE Activation
  <2>1. Up /\ Past
    BY <1>4 DEF Up, Past, Activation, TryActivate, ActivateStore, ActivateSet
  <2>2. active = 1 /\ engPc \notin {"flush", "rewind", "activate"}
    BY <2>1, ReaderAlone
  <2>3. UNCHANGED <<writeFrame, readFrame, ioPc, ioNext, ioEnd>> /\ engPc = "try"
        /\ engPc' = "run"
    BY <1>4, <2>2 DEF Activation, TryActivate, ActivateStore, ActivateSet,
      MayActivate
  <2>4. Pending' = Pending
    BY <2>3 DEF Pending
  <2> QED
    BY <2>1, <2>3, <2>4, ReadUnchanged DEF Racing
<1>5. CASE Startup
  <2>1. CASE Qualify
    <3>1. Up /\ Past /\ ~qualified
      BY <2>1 DEF Qualify, Up, Past
    <3> QED
      BY <3>1, ReaderAlone
  <2>2. CASE StartCapture
    BY <2>2 DEF StartCapture, Past
  <2>3. CASE LaunchEngine \/ InitRead \/ InitRate \/ InitActive \/ InitDemand
    BY <2>3 DEF LaunchEngine, InitRead, InitRate, InitActive, InitDemand, Up
  <2> QED
    BY <1>5, <2>1, <2>2, <2>3 DEF Startup
<1>6. CASE StopEngine \/ CrashEngine
  BY <1>6 DEF StopEngine, CrashEngine, Up
<1>7. CASE UNCHANGED vars
  <2>1. Up /\ Past /\ UNCHANGED <<writeFrame, readFrame, ioPc, ioNext, ioEnd>>
    BY <1>7 DEF vars, Up, Past
  <2>2. Pending' = Pending
    BY <1>7 DEF vars, Pending
  <2> QED
    BY <2>1, <2>2, ReadUnchanged DEF Racing
<1> QED
  BY <1>1, <1>2, <1>3, <1>4, <1>5, <1>6, <1>7 DEF Next

(* Positions of a stretch of the word, counted from where a longer one      *)
(* begins.                                                                  *)
LEMMA InStretch ==
  ASSUME NEW r \in Words, NEW p \in Words, NEW q \in Words, NEW x \in From(p, q)
  PROVE  \E k \in Words : /\ k < Used(q, p) /\ x = Plus(p, k)
<1>1. PICK k \in 0 .. Used(q, p) - 1 : x = Plus(p, k)
  BY DEF From
<1>2. Used(q, p) \in Words
  BY UsedIs
<1>3. k \in Words /\ k < Used(q, p)
  BY <1>1, <1>2, ConstantsOK DEF Words
<1> QED
  BY <1>1, <1>3

(* A queue and a packet that fit the ring share no slot.                    *)
LEMMA RaceFree ==
  ASSUME TypeOK, PacketOK, Racing
  PROVE  NoSlotRace
<1> SUFFICES ASSUME ioPc = "copy", engPc = "copy",
                    NEW x \in From(ioNext, ioEnd), NEW y \in From(engNext, engEnd)
             PROVE  SlotOf(x) # SlotOf(y)
  BY DEF NoSlotRace
<1>0. WordsOK /\ ReadOK
  BY TypeParts DEF Racing, Up, Past
<1>1. PICK i \in Words : i < Used(ioEnd, ioNext) /\ x = Plus(ioNext, i)
  BY <1>0, InStretch DEF WordsOK
<1>2. PICK j \in Words : j < Used(engEnd, engNext) /\ y = Plus(engNext, j)
  BY <1>0, InStretch DEF WordsOK
<1>3. PICK d \in Words : d = Used(ioNext, readFrame)
  BY Distances
<1>4. PICK e \in Words : e = Used(ioEnd, ioNext)
  BY Distances
<1>5. PICK m \in Words : m = Used(engNext, writeFrame)
  BY Distances
<1>6. PICK f \in Words : f = Used(engEnd, engNext)
  BY Distances
<1>7. PICK u \in Words : u = Queued
  BY Distances
<1>8. d + e <= u /\ u + m + f <= Capacity
  BY <1>0, <1>3, <1>4, <1>5, <1>6, <1>7 DEF ReadOK, PacketOK, Pending, Words
<1>9. x = Plus(readFrame, d + i)
  <2>1. d + i < Word
    BY <1>1, <1>4, <1>8, ConstantsOK DEF Words
  <2>2. ioNext = Plus(readFrame, d)
    BY <1>0, <1>3, Between DEF WordsOK
  <2> QED
    BY <1>0, <1>1, <2>1, <2>2, TwoSteps DEF WordsOK
<1>10. y = Plus(readFrame, u + (m + j))
  <2>1. m + j < Word /\ u + (m + j) < Word /\ m + j \in Words
    BY <1>2, <1>6, <1>8, ConstantsOK DEF Words
  <2>2. engNext = Plus(writeFrame, m) /\ writeFrame = Plus(readFrame, u)
    BY <1>0, <1>5, <1>7, Between DEF WordsOK, Queued
  <2>3. y = Plus(writeFrame, m + j)
    BY <1>0, <1>2, <2>1, <2>2, TwoSteps DEF WordsOK
  <2> QED
    BY <1>0, <2>1, <2>2, <2>3, TwoSteps DEF WordsOK
<1>11. /\ d + i \in Nat /\ u + (m + j) \in Nat /\ d + i < u + (m + j)
       /\ (u + (m + j)) - (d + i) < Capacity
  BY <1>1, <1>2, <1>4, <1>6, <1>8, ConstantsOK DEF Words
<1> QED
  BY <1>0, <1>9, <1>10, <1>11, SlotsApart DEF WordsOK

(* The slots the HAL has still to read (ReadInput) and those the engine has *)
(* still to write (SharedCaptureWriter::write) are always different slots,  *)
(* wherever the two threads are stalled.                                    *)
THEOREM NoSlotRaceAlways == Spec => []NoSlotRace
<1> DEFINE Inv == TypeOK /\ Roles /\ PacketOK /\ Racing
<1>1. Init => Inv
  <2>1. Init => PacketOK /\ Racing
    BY DEF Init, PacketOK, Racing, Up
  <2> QED
    BY <2>1, TypeInit
<1>2. Inv /\ [Next]_vars => Inv'
  BY TypeStep, RolesStep, PacketStep, RacingStep
<1>3. Inv => NoSlotRace
  BY RaceFree
<1> QED
  BY <1>1, <1>2, <1>3, PTL DEF Spec

(* Every index is a word, every flag and program counter one of its values. *)
THEOREM TypeCorrect == Spec => []TypeOK
<1>1. Init => TypeOK
  BY TypeInit
<1>2. TypeOK /\ [Next]_vars => TypeOK'
  BY TypeStep
<1> QED
  BY <1>1, <1>2, PTL DEF Spec

-----------------------------------------------------------------------------
(* Whose frames the ring holds.                                             *)
(* Of the ring's frames up to w, those as far back as h were captured at    *)
(* rate e.                                                                  *)
OwnIn(w, s, e, h) ==
  \A p \in Words : Used(w, p) \in 1 .. Capacity /\ Used(w, p) <= Used(w, h)
                   => s[SlotOf(p)].rate = e

Own(h) == OwnIn(writeFrame, slots, engRate, h)

Starting ==
  engPc \in {"initRead", "initRate", "initActive", "initDemand", "startup"}

Far == Used(writeFrame, readFrame) > Capacity

(* Between an engine's launch and its first packet nothing is queued, or a  *)
(* stale readFrame makes the queue so long that no read goes through.       *)
Blank == /\ writeFrame = 0 /\ (readFrame = 0 \/ (Far /\ ~Past))
         /\ ioPc \in {"suspend", "flush"} => ioEnd = 0
         /\ ctlPc \in {"startStore", "changeStore"} => ctlFrame = 0

(* Every position that readFrame has or is about to get.                    *)
Queueing ==
  /\ Own(readFrame) \/ (Blank /\ ~Up)
  /\ ctlPc \in {"startStore", "changeStore"} => Own(ctlFrame)
  /\ ioPc \in {"suspend", "flush"} => Own(ioEnd)
  /\ engPc \in {"flush", "rewind"} => Own(engEnd)

Writing ==
  engPc = "copy" =>
    \A p \in Words : Used(p, writeFrame) < Used(engNext, writeFrame)
                     => slots[SlotOf(p)].rate = engRate

(* Where an engine that starts has got to.                                  *)
Launched ==
  /\ Starting => Blank
  /\ Starting /\ engPc # "initRead" => readFrame = 0
  /\ engPc \in {"initActive", "initDemand", "startup"} => sampleRate = engRate

(* Rates disagree only while there is nothing to read.                      *)
Agreeing ==
  /\ sampleRate # engRate => Blank /\ ~Up
  /\ Admitted /\ sampleRate # halRate => Blank /\ ~Up

Source == Queueing /\ Writing /\ Launched /\ Agreeing /\ (Past => ReadOK)

(* An empty stretch holds nobody else's frames.                             *)
LEMMA OwnHere ==
  ASSUME NEW w \in Words, NEW s, NEW e
  PROVE  OwnIn(w, s, e, w)
BY Here, UsedIs DEF OwnIn, Words

(* Nor does a shorter one than one that does not.                           *)
LEMMA OwnNear ==
  ASSUME NEW w \in Words, NEW s, NEW e, NEW g \in Words, NEW h \in Words,
         Used(w, h) <= Used(w, g), OwnIn(w, s, e, g)
  PROVE  OwnIn(w, s, e, h)
<1> SUFFICES ASSUME NEW p \in Words, Used(w, p) \in 1 .. Capacity,
                    Used(w, p) <= Used(w, h)
             PROVE  s[SlotOf(p)].rate = e
  BY DEF OwnIn
<1>1. Used(w, p) <= Used(w, g)
  BY UsedIs, ConstantsOK DEF Words
<1> QED
  BY <1>1 DEF OwnIn

(* Nor after a step that writes slots at the engine's rate only.            *)
LEMMA OwnKept ==
  ASSUME NEW w \in Words, NEW s, NEW t, NEW e, NEW h \in Words,
         \A i \in 0 .. Capacity - 1 : t[i].rate = s[i].rate \/ t[i].rate = e,
         OwnIn(w, s, e, h)
  PROVE  OwnIn(w, t, e, h)
<1> SUFFICES ASSUME NEW p \in Words, Used(w, p) \in 1 .. Capacity,
                    Used(w, p) <= Used(w, h)
             PROVE  t[SlotOf(p)].rate = e
  BY DEF OwnIn
<1>1. s[SlotOf(p)].rate = e
  BY DEF OwnIn
<1>2. SlotOf(p) \in 0 .. Capacity - 1
  BY SlotPlace
<1> QED
  BY <1>1, <1>2

(* What lies within a published packet and what lies behind it.             *)
LEMMA Behind ==
  ASSUME NEW w \in Words, NEW h \in Words, NEW n \in Words, NEW x \in Words,
         x = Plus(w, n), n <= Capacity,
         NEW p \in Words, Used(x, p) \in 1 .. Capacity, Used(x, p) <= Used(x, h)
  PROVE  /\ Used(x, p) <= n => Used(p, w) < n
         /\ n < Used(x, p) => /\ Used(w, p) = Used(x, p) - n
                              /\ Used(w, p) \in 1 .. Capacity
                              /\ Used(w, p) <= Used(w, h)
<1>2. PICK a \in Words : a = Used(x, p)
  BY UsedIs
<1>3. PICK b \in Words : b = Used(x, h)
  BY UsedIs
<1>4. PICK c \in Words : c = Used(w, p)
  BY UsedIs
<1>5. PICK d \in Words : d = Used(w, h)
  BY UsedIs
<1>6. PICK f \in Words : f = Used(p, w)
  BY UsedIs
<1>7. 1 <= a /\ a <= Capacity /\ a <= b
  BY <1>2, <1>3, ConstantsOK
<1>8. /\ w + n < Word => x = w + n
      /\ Word <= w + n => x = w + n - Word
  BY PlusIs
<1>9. /\ p <= x => a = x - p
      /\ x < p => a = x - p + Word
      /\ h <= x => b = x - h
      /\ x < h => b = x - h + Word
  BY <1>2, <1>3, UsedIs
<1>10. /\ p <= w => c = w - p
       /\ w < p => c = w - p + Word
       /\ h <= w => d = w - h
       /\ w < h => d = w - h + Word
       /\ w <= p => f = p - w
       /\ p < w => f = p - w + Word
  BY <1>4, <1>5, <1>6, UsedIs
<1>11. a <= n => f < n
  BY <1>7, <1>8, <1>9, <1>10, ConstantsOK DEF Words
<1>12. n < a => c = a - n /\ c \in 1 .. Capacity /\ c <= d
  BY <1>7, <1>8, <1>9, <1>10, ConstantsOK DEF Words
<1> QED
  BY <1>2, <1>4, <1>5, <1>6, <1>11, <1>12

(* Nor after the packet is published that was written behind it.            *)
LEMMA OwnPublished ==
  ASSUME NEW w \in Words, NEW s, NEW e, NEW h \in Words, NEW n \in Words,
         n <= Capacity,
         \A p \in Words : Used(p, w) < n => s[SlotOf(p)].rate = e,
         OwnIn(w, s, e, h)
  PROVE  OwnIn(Plus(w, n), s, e, h)
<1>1. PICK x \in Words : x = Plus(w, n)
  BY PlusIs
<1> SUFFICES ASSUME NEW p \in Words, Used(x, p) \in 1 .. Capacity,
                    Used(x, p) <= Used(x, h)
             PROVE  s[SlotOf(p)].rate = e
  BY <1>1 DEF OwnIn
<1>2. /\ Used(x, p) <= n => Used(p, w) < n
      /\ n < Used(x, p) => /\ Used(w, p) \in 1 .. Capacity
                           /\ Used(w, p) <= Used(w, h)
  BY <1>1, Behind
<1>3. Used(x, p) <= n \/ n < Used(x, p)
  BY UsedIs, ConstantsOK DEF Words
<1> QED
  BY <1>2, <1>3 DEF OwnIn

(* At the start the ring is empty.                                          *)
LEMMA SourceInit == Init => Source
<1> SUFFICES ASSUME Init PROVE Source
  OBVIOUS
<1>1. writeFrame \in Words /\ readFrame = writeFrame /\ writeFrame = 0
  BY ConstantsOK DEF Init, Words
<1>2. Own(readFrame)
  BY <1>1, OwnHere DEF Own
<1> QED
  BY <1>1, <1>2 DEF Init, Source, Queueing, Writing, Launched, Agreeing,
    Starting, Up, Past, Admitted

(* What the reader, past its check, may move readFrame to.                  *)
LEMMA Onward ==
  ASSUME TypeOK, Past, ReadOK, Queueing, NEW h \in Words,
         Used(writeFrame, h) <= Queued
  PROVE  /\ Own(readFrame) => Own(h)
         /\ Blank => h = 0
<1>0. WordsOK
  BY TypeParts
<1>1. Own(readFrame) => Own(h)
  BY <1>0, OwnNear DEF Own, Queued, WordsOK
<1>2. ASSUME Blank PROVE h = 0
  <2>1. writeFrame = 0 /\ readFrame = 0
    BY <1>2 DEF Blank
  <2>2. Used(writeFrame, h) = 0
    <3>1. Queued = 0 /\ Used(writeFrame, h) \in Words
      BY <1>0, <2>1, Here, UsedIs DEF Queued, WordsOK
    <3> QED
      BY <3>1 DEF Words
  <2>3. Plus(h, 0) = writeFrame
    BY <1>0, <2>2, Between DEF WordsOK
  <2> QED
    BY <2>1, <2>3, Here
<1> QED
  BY <1>1, <1>2

(* A step of the HAL leaves the frames where they came from, if the         *)
(* positions it stores or remembers are in order.                           *)
LEMMA HalStep ==
  ASSUME TypeOK, Source, UNCHANGED engVars,
         UNCHANGED <<writeFrame, slots, sampleRate>>,
         Own(readFrame) => Own(readFrame'),
         Blank => Blank',
         Blank /\ readFrame = 0 => readFrame' = 0,
         ctlPc' \in {"startStore", "changeStore"} => Own(ctlFrame'),
         ioPc' \in {"suspend", "flush"} => Own(ioEnd'),
         Admitted' /\ sampleRate # halRate' => Blank /\ ~Up,
         Past' => ReadOK'
  PROVE  Source'
<1>1. UNCHANGED <<writeFrame, slots, sampleRate, engPc, engRate, engNext, engEnd>>
  BY DEF engVars
<1>2. (Up' <=> Up) /\ (Starting' <=> Starting)
  BY <1>1 DEF Up, Starting
<1>3. Queueing'
  <2>1. Own(readFrame)' \/ (Blank' /\ ~Up')
    BY <1>1, <1>2 DEF Source, Queueing, Own
  <2>2. ctlPc' \in {"startStore", "changeStore"} => Own(ctlFrame)'
    BY <1>1 DEF Own
  <2>3. ioPc' \in {"suspend", "flush"} => Own(ioEnd)'
    BY <1>1 DEF Own
  <2>4. engPc' \in {"flush", "rewind"} => Own(engEnd)'
    BY <1>1 DEF Source, Queueing, Own
  <2> QED
    BY <2>1, <2>2, <2>3, <2>4 DEF Queueing
<1>4. Writing'
  BY <1>1 DEF Source, Writing
<1>5. Launched'
  BY <1>1, <1>2 DEF Source, Launched
<1>6. Agreeing'
  BY <1>1, <1>2 DEF Source, Agreeing
<1> QED
  BY <1>3, <1>4, <1>5, <1>6 DEF Source

(* A trim or a commit moves readFrame on within the queue.                  *)
LEMMA ReadForward ==
  ASSUME TypeOK, ReadOK, TrimStore \/ ReadCommit
  PROVE  Past /\ readFrame' = ioEnd /\ Used(writeFrame, ioEnd) <= Queued
<1>0. WordsOK
  BY TypeParts
<1>1. CASE TrimStore
  BY <1>1 DEF TrimStore, ReadOK, Past
<1>2. CASE ReadCommit
  <2>1. /\ ioPc = "copy" /\ ioNext = ioEnd /\ readFrame' = ioEnd
        /\ Used(ioNext, readFrame) + Used(ioEnd, ioNext) <= Queued
    BY <1>2 DEF ReadCommit, ReadOK
  <2>2. PICK k \in Words : k = Used(ioEnd, readFrame)
    BY <2>1, Distances
  <2>3. k <= Queued
    BY <2>1, <2>2, Distances DEF Words
  <2>4. Used(writeFrame, Plus(readFrame, k)) = Queued - k
    BY <1>0, <2>3, Advanced DEF WordsOK, Queued
  <2>5. Plus(readFrame, k) = ioEnd
    BY <1>0, <2>2, Between DEF WordsOK
  <2>6. Used(writeFrame, ioEnd) <= Queued
    BY <2>4, <2>5, Distances DEF Words
  <2> QED
    BY <2>1, <2>6 DEF Past
<1> QED
  BY <1>1, <1>2

(* ReadInput stores only readFrames whose frames are the engine's.          *)
LEMMA ReadSource ==
  ASSUME TypeOK, Roles, PacketOK, Source, ReadInput
  PROVE  Source'
<1> USE DEF ringVars, halVars, ioVars, ctlVars
<1>0. /\ WordsOK
      /\ UNCHANGED <<writeFrame, slots, sampleRate, engVars, ctlPc, ctlFrame,
                     halRate>>
  BY TypeParts DEF ReadInput, ReadAnnounce, ReadAdmit, CheckStale,
    SuspendClear, SuspendFlush, TrimLoad, TrimStore, ReadLoad, ReadReserve,
    ReadCopy, ReadCommit
<1>1. ctlPc' \in {"startStore", "changeStore"} => Own(ctlFrame')
  BY <1>0 DEF Source, Queueing
<1>2. Admitted' /\ sampleRate # halRate' => Blank /\ ~Up
  <2>1. CASE ReadAdmit
    BY <1>0, <2>1 DEF ReadAdmit, Admitted, Past
  <2>2. CASE ~ReadAdmit
    <3>1. Admitted' => Admitted
      BY <2>2 DEF Admitted, Past, ReadInput, ReadAnnounce, CheckStale,
        SuspendClear, SuspendFlush, TrimLoad, TrimStore, ReadLoad, ReadReserve,
        ReadCopy, ReadCommit
    <3> QED
      BY <1>0, <3>1 DEF Source, Agreeing
  <2> QED
    BY <2>1, <2>2
<1>3. CASE ReadAnnounce \/ ReadAdmit \/ SuspendClear
  <2>1. /\ readFrame' = readFrame /\ ioEnd' = ioEnd /\ ~Past /\ ~Past'
        /\ ioPc' \in {"suspend", "flush"} => ioPc \in {"suspend", "flush"}
    BY <1>3 DEF ReadAnnounce, ReadAdmit, SuspendClear, Past
  <2>2. Blank => Blank'
    BY <1>0, <2>1 DEF Blank, Far
  <2>3. ioPc' \in {"suspend", "flush"} => Own(ioEnd')
    BY <2>1 DEF Source, Queueing
  <2> QED
    BY <1>0, <1>1, <1>2, <2>1, <2>2, <2>3, HalStep
<1>4. CASE CheckStale
  <2>1. readFrame' = readFrame /\ ~Past
    BY <1>4 DEF CheckStale, Past
  <2>2. ioPc' \in {"suspend", "flush"} => ioEnd' = writeFrame
    BY <1>4 DEF CheckStale
  <2>3. Past' => ~Far
    <3>1. Past' => ~(Queued > Limit)
      BY <1>4 DEF CheckStale, Past
    <3> QED
      BY <3>1, Distances, ConstantsOK, TypeParts DEF Far, Queued, Words
  <2>4. Blank => Blank'
    BY <1>0, <2>1, <2>2, <2>3 DEF Blank, Far
  <2>5. Own(writeFrame)
    BY <1>0, OwnHere DEF Own, WordsOK
  <2>6. Past' => ReadOK'
    BY <1>4, CheckStep
  <2> QED
    BY <1>0, <1>1, <1>2, <2>1, <2>2, <2>4, <2>5, <2>6, HalStep
<1>5. CASE SuspendFlush
  <2>1. readFrame' = ioEnd /\ ioPc = "flush" /\ ioPc' = "idle" /\ ~Past'
    BY <1>5 DEF SuspendFlush, Past
  <2>2. Own(readFrame')
    BY <2>1 DEF Source, Queueing
  <2>3. Blank => Blank' /\ readFrame' = 0
    BY <1>0, <2>1 DEF Blank
  <2> QED
    BY <1>0, <1>1, <1>2, <2>1, <2>2, <2>3, HalStep
<1>6. CASE TrimLoad \/ ReadLoad \/ ReadReserve \/ ReadCopy
  <2>1. readFrame' = readFrame /\ Past /\ Past'
    BY <1>6 DEF TrimLoad, ReadLoad, ReadReserve, ReadCopy, Past
  <2>2. Blank => Blank'
    BY <1>0, <2>1 DEF Blank, Past
  <2>3. Past' => ReadOK'
    BY <1>6, <2>1, TrimStep, LoadStep DEF Source
  <2>4. ioPc' \notin {"suspend", "flush"}
    BY <2>1 DEF Past
  <2> QED
    BY <1>0, <1>1, <1>2, <2>1, <2>2, <2>3, <2>4, HalStep
<1>7. CASE TrimStore \/ ReadCommit
  <2>1. /\ readFrame' = ioEnd /\ Past /\ ioPc' \notin {"suspend", "flush"}
        /\ ioEnd \in Words
    BY <1>0, <1>7 DEF TrimStore, ReadCommit, Past, WordsOK
  <2>2. Used(writeFrame, ioEnd) <= Queued
    BY <1>7, ReadForward DEF Source, Past, TrimStore, ReadCommit
  <2>3. (Own(readFrame) => Own(readFrame')) /\ (Blank => readFrame' = 0)
    BY <2>1, <2>2, Onward DEF Source
  <2>4. Blank => Blank'
    BY <1>0, <2>1, <2>3 DEF Blank
  <2>5. Past' => ReadOK'
    <3>1. CASE TrimStore
      BY <2>1, <3>1, TrimStep DEF Source
    <3>2. CASE ReadCommit
      BY <3>2 DEF ReadCommit, Past
    <3> QED
      BY <1>7, <3>1, <3>2
  <2> QED
    BY <1>0, <1>1, <1>2, <2>1, <2>3, <2>4, <2>5, HalStep
<1> QED
  BY <1>3, <1>4, <1>5, <1>6, <1>7 DEF ReadInput

(* So does the control thread.                                              *)
LEMMA ControlSource ==
  ASSUME TypeOK, Roles, Source, Control
  PROVE  Source'
<1> USE DEF ringVars, halVars, ioVars, ctlVars
<1>0. WordsOK /\ UNCHANGED <<writeFrame, slots, sampleRate, engVars>>
  BY TypeParts DEF Control, StartIO, StopIO, ChangeRate, ControlLoad,
    ControlStore, ChangeClear, HalRestart
<1>1. CASE StartIO \/ StopIO \/ ChangeClear
  <2>1. /\ UNCHANGED <<readFrame, ioPc, ioNext, ioEnd, halRate>>
        /\ ctlPc' \in {"startStore", "changeStore"} =>
             ctlPc' = ctlPc /\ ctlFrame' = ctlFrame
    BY <1>1 DEF StartIO, StopIO, ChangeClear
  <2>2. Past' = Past /\ Admitted' = Admitted
    BY <2>1 DEF Past, Admitted
  <2>3. Blank => Blank'
    BY <1>0, <2>1, <2>2 DEF Blank, Far
  <2>4. Past' => ReadOK'
    BY <1>0, <2>1, <2>2 DEF Source, ReadOK, Queued, Pending, engVars
  <2> QED
    BY <1>0, <2>1, <2>2, <2>3, <2>4, HalStep DEF Source, Queueing, Agreeing
<1>2. CASE \E r \in Rates : ChangeRate(r)
  <2>1. /\ readFrame' = readFrame /\ ioPc' = "idle"
        /\ ctlPc' \notin {"startStore", "changeStore"}
    BY <1>2 DEF ChangeRate, Roles
  <2>2. ~Past' /\ ~Admitted'
    BY <2>1 DEF Past, Admitted
  <2>3. Blank => Blank'
    BY <1>0, <2>1, <2>2 DEF Blank, Far
  <2> QED
    BY <1>0, <2>1, <2>2, <2>3, HalStep
<1>3. CASE ControlLoad
  <2>1. /\ readFrame' = readFrame /\ ioPc' = ioPc /\ ioPc = "idle"
        /\ ctlFrame' = writeFrame
    BY <1>3 DEF ControlLoad, Roles
  <2>2. ~Past' /\ ~Admitted' /\ Own(writeFrame)
    BY <1>0, <2>1, OwnHere DEF Past, Admitted, Own, WordsOK
  <2>3. Blank => Blank'
    BY <1>0, <2>1, <2>2 DEF Blank, Far
  <2> QED
    BY <1>0, <2>1, <2>2, <2>3, HalStep
<1>4. CASE ControlStore
  <2>1. /\ readFrame' = ctlFrame /\ ioPc' = ioPc /\ ioPc = "idle"
        /\ ctlPc \in {"startStore", "changeStore"}
        /\ ctlPc' \notin {"startStore", "changeStore"}
    BY <1>4 DEF ControlStore, Roles
  <2>2. ~Past' /\ ~Admitted' /\ Own(readFrame')
    BY <2>1 DEF Past, Admitted, Source, Queueing
  <2>3. Blank => Blank' /\ readFrame' = 0
    BY <1>0, <2>1 DEF Blank
  <2> QED
    BY <1>0, <2>1, <2>2, <2>3, HalStep
<1>5. CASE HalRestart
  <2>1. /\ readFrame' = readFrame /\ ioPc' = "idle"
        /\ ctlPc' \notin {"startStore", "changeStore"}
    BY <1>5 DEF HalRestart
  <2>2. ~Past' /\ ~Admitted'
    BY <2>1 DEF Past, Admitted
  <2>3. Blank => Blank'
    BY <1>0, <2>1, <2>2 DEF Blank, Far
  <2> QED
    BY <1>0, <2>1, <2>2, <2>3, HalStep
<1> QED
  BY <1>1, <1>2, <1>3, <1>4, <1>5 DEF Control

(* The engine writes and publishes frames at its own rate.                  *)
LEMMA PacketSource ==
  ASSUME TypeOK, PacketOK, Source, Packet
  PROVE  Source'
<1>0. /\ WordsOK /\ SlotsOK /\ Up /\ ~Starting
      /\ UNCHANGED <<readFrame, sampleRate, engRate, ioVars, ctlVars, halRate>>
  BY TypeParts DEF Packet, PacketReserve, PacketCopy, PacketPublish, halVars,
    Up, Starting
<1>1. Up' /\ ~Starting' /\ engPc' \notin {"flush", "rewind"}
  BY DEF Packet, PacketReserve, PacketCopy, PacketPublish, Up, Starting
<1>2. Past' = Past /\ Admitted' = Admitted
  BY <1>0 DEF Past, Admitted, ioVars
<1>3. Past' => ReadOK'
  BY <1>2, PacketRead DEF Source
<1>4. Launched' /\ Agreeing'
  BY <1>0, <1>1, <1>2 DEF Source, Launched, Agreeing, Starting
<1>5. \A h \in Words : Own(h) => OwnIn(writeFrame', slots', engRate', h)
  <2> SUFFICES ASSUME NEW h \in Words, Own(h)
               PROVE  OwnIn(writeFrame', slots', engRate', h)
    OBVIOUS
  <2>1. CASE PacketReserve
    <3>1. PICK n \in Nat : slots' = Aged(n) /\ writeFrame' = writeFrame
      BY <2>1, ConstantsOK DEF PacketReserve
    <3>2. \A i \in 0 .. Capacity - 1 :
            slots'[i].rate = slots[i].rate \/ slots'[i].rate = engRate
      BY <1>0, <3>1, AgedTyped
    <3> QED
      BY <1>0, <3>1, <3>2, OwnKept DEF Own, WordsOK
  <2>2. CASE PacketCopy
    <3>1. /\ slots' = [slots EXCEPT ![SlotOf(engNext)] =
                                 [age |-> 0, rate |-> engRate]]
          /\ writeFrame' = writeFrame
      BY <2>2 DEF PacketCopy
    <3>2. \A i \in 0 .. Capacity - 1 :
            slots'[i].rate = slots[i].rate \/ slots'[i].rate = engRate
      BY <1>0, <3>1 DEF SlotsOK
    <3>3. writeFrame' = writeFrame
      BY <3>1
    <3>4. OwnIn(writeFrame, slots', engRate, h)
      BY <1>0, <3>2, OwnKept DEF Own, WordsOK
    <3> QED
      BY <1>0, <3>3, <3>4
  <2>3. CASE PacketPublish
    <3>1. /\ writeFrame' = engEnd /\ slots' = slots /\ engNext = engEnd
          /\ engPc = "copy"
      BY <2>3 DEF PacketPublish
    <3>2. PICK n \in Words : n = Used(engEnd, writeFrame) /\ n = Pending
      BY <3>1, Distances DEF Pending
    <3>3. n <= Capacity
      BY <3>1, <3>2, ConstantsOK DEF PacketOK, Words
    <3>4. \A p \in Words : Used(p, writeFrame) < n =>
                             slots[SlotOf(p)].rate = engRate
      BY <3>1, <3>2 DEF Source, Writing
    <3>5. OwnIn(Plus(writeFrame, n), slots, engRate, h)
      BY <1>0, <3>3, <3>4, OwnPublished DEF Own, WordsOK
    <3>6. Plus(writeFrame, Used(engEnd, writeFrame)) = engEnd
      BY <1>0, Between DEF WordsOK
    <3> QED
      BY <1>0, <3>1, <3>2, <3>5, <3>6
  <2> QED
    BY <2>1, <2>2, <2>3 DEF Packet
<1>6. Queueing'
  <2>1. Own(readFrame)'
    BY <1>0, <1>5 DEF Source, Queueing, Own, WordsOK
  <2>2. ctlPc' \in {"startStore", "changeStore"} => Own(ctlFrame)'
    BY <1>0, <1>5 DEF Source, Queueing, Own, WordsOK, ctlVars
  <2>3. ioPc' \in {"suspend", "flush"} => Own(ioEnd)'
    BY <1>0, <1>5 DEF Source, Queueing, Own, WordsOK, ioVars
  <2> QED
    BY <1>1, <2>1, <2>2, <2>3 DEF Queueing
<1>7. Writing'
  <2>1. CASE PacketReserve
    <3>1. engNext' = writeFrame /\ writeFrame' = writeFrame
      BY <2>1 DEF PacketReserve
    <3>2. Used(engNext', writeFrame') = 0
      BY <1>0, <3>1, Here DEF WordsOK
    <3>3. \A p \in Words : ~(Used(p, writeFrame') < Used(engNext', writeFrame'))
      BY <1>0, <3>1, <3>2, UsedIs DEF WordsOK, Words
    <3> QED
      BY <3>3 DEF Writing
  <2>2. CASE PacketCopy
    <3>1. /\ slots' = [slots EXCEPT ![SlotOf(engNext)] =
                                 [age |-> 0, rate |-> engRate]]
          /\ writeFrame' = writeFrame /\ engPc = "copy" /\ 1 \in Words
          /\ engNext' = Plus(engNext, 1) /\ engNext # engEnd
      BY <2>2, ConstantsOK DEF PacketCopy, Words
    <3>2. PICK a \in Words : a = Used(engNext, writeFrame)
      BY Distances
    <3>5. Used(engNext', writeFrame) = a + 1
      BY <3>1, <3>2, CopyAdvance
    <3>6. ASSUME NEW p \in Words, Used(p, writeFrame) < a + 1
          PROVE  slots'[SlotOf(p)].rate = engRate
      <4>1. SlotOf(p) \in 0 .. Capacity - 1
        BY SlotPlace
      <4>2. CASE Used(p, writeFrame) = a
        <5>1. Plus(writeFrame, a) = p /\ Plus(writeFrame, a) = engNext
          BY <1>0, <3>2, <4>2, Between DEF WordsOK
        <5>2. p = engNext
          BY <5>1
        <5> QED
          BY <1>0, <3>1, <4>1, <5>2 DEF SlotsOK
      <4>3. CASE Used(p, writeFrame) # a
        <5>1. Used(p, writeFrame) < a
          <6>1. Used(p, writeFrame) \in Words
            BY <1>0, UsedIs DEF WordsOK
          <6> QED
            BY <3>6, <4>3, <6>1 DEF Words
        <5>2. slots[SlotOf(p)].rate = engRate
          BY <3>1, <3>2, <5>1 DEF Source, Writing
        <5> QED
          BY <1>0, <3>1, <4>1, <5>2 DEF SlotsOK
      <4> QED
        BY <4>2, <4>3
    <3> QED
      BY <1>0, <3>1, <3>5, <3>6 DEF Writing
  <2>3. CASE PacketPublish
    BY <2>3 DEF PacketPublish, Writing
  <2> QED
    BY <2>1, <2>2, <2>3 DEF Packet
<1> QED
  BY <1>3, <1>4, <1>6, <1>7 DEF Source

(* A step of the engine that leaves the frames and what the HAL remembers,   *)
(* and stores no readFrame but one whose frames are its own.                 *)
LEMMA EngineStep ==
  ASSUME TypeOK, Source, Up, Up',
         UNCHANGED <<writeFrame, slots, engRate, sampleRate, ioVars, ctlVars,
                     halRate>>,
         Own(readFrame'),
         engPc' \in {"flush", "rewind"} => Own(engEnd'),
         engPc' # "copy", Past' => ReadOK'
  PROVE  Source'
<1>1. UNCHANGED <<ioPc, ioEnd, ctlPc, ctlFrame>>
  BY DEF ioVars, ctlVars
<1>2. Queueing'
  <2>1. Own(readFrame)' /\ (engPc' \in {"flush", "rewind"} => Own(engEnd)')
    BY DEF Own
  <2>2. ctlPc' \in {"startStore", "changeStore"} => Own(ctlFrame)'
    BY <1>1 DEF Source, Queueing, Own
  <2>3. ioPc' \in {"suspend", "flush"} => Own(ioEnd)'
    BY <1>1 DEF Source, Queueing, Own
  <2> QED
    BY <2>1, <2>2, <2>3 DEF Queueing
<1>3. Writing'
  BY DEF Writing
<1>4. Launched'
  BY DEF Launched, Starting, Up
<1>5. Agreeing'
  BY <1>1 DEF Source, Agreeing, Admitted, Past
<1> QED
  BY <1>2, <1>3, <1>4, <1>5 DEF Source

(* Activation and qualification move readFrame within them.                 *)
LEMMA ActivationSource ==
  ASSUME TypeOK, Roles, Source, Activation \/ Qualify
  PROVE  Source'
<1>0. /\ WordsOK /\ Up /\ Up' /\ engPc' # "copy" /\ Own(readFrame)
      /\ UNCHANGED <<writeFrame, slots, engRate, sampleRate, ioVars, ctlVars,
                     halRate>>
  <2>1. /\ Up /\ Up' /\ engPc' # "copy"
        /\ UNCHANGED <<writeFrame, slots, engRate, sampleRate, ioVars,
                       ctlVars, halRate>>
    BY DEF Activation, TryActivate, ActivateStore, ActivateSet, Qualify, Up,
      ringVars, halVars
  <2> QED
    BY <2>1, TypeParts DEF Source, Queueing
<1>1. Past => engPc = "try" /\ TryActivate /\ engPc' = "run"
  <2> SUFFICES ASSUME Past PROVE engPc = "try" /\ TryActivate /\ engPc' = "run"
    OBVIOUS
  <2>1. active = 1 /\ qualified /\ engPc \in {"run", "copy", "try"}
    BY <1>0, ReaderAlone
  <2>2. ~Qualify /\ ~ActivateStore /\ ~ActivateSet
    BY <2>1 DEF ActivateStore, ActivateSet, Qualify
  <2>3. TryActivate
    BY <2>2 DEF Activation
  <2>4. ~MayActivate
    BY <2>1 DEF MayActivate
  <2> QED
    BY <2>3, <2>4 DEF TryActivate
<1>2. Past' => ReadOK'
  <2> SUFFICES ASSUME Past' PROVE ReadOK'
    OBVIOUS
  <2>1. Past
    BY <1>0 DEF Past, ioVars
  <2>2. readFrame' = readFrame /\ engPc = "try" /\ engPc' = "run"
    BY <1>1, <2>1 DEF TryActivate, ringVars
  <2>3. Pending' = Pending
    BY <2>2 DEF Pending
  <2> QED
    BY <1>0, <2>1, <2>2, <2>3, ReadUnchanged DEF Source, ioVars
<1>3. CASE TryActivate
  <2>1. readFrame' = readFrame
    BY <1>3 DEF TryActivate, ringVars
  <2>2. engPc' = "flush" => Own(engEnd')
    <3>1. engPc' = "flush" => engEnd' = writeFrame
      BY <1>3 DEF TryActivate
    <3>2. Own(writeFrame)
      BY <1>0, OwnHere DEF Own, WordsOK
    <3> QED
      BY <3>1, <3>2
  <2>3. ASSUME engPc' = "rewind" PROVE Own(engEnd')
    <3>1. engEnd' = (writeFrame - Prefill) % Word /\ Queued >= Prefill
      BY <1>3, <2>3 DEF TryActivate
    <3>2. PICK e \in Words : e = engEnd' /\ Plus(e, Prefill) = writeFrame
      BY <1>0, <3>1, RewindIs DEF WordsOK
    <3>3. Prefill \in Words
      BY ConstantsOK DEF Words
    <3>4. Used(writeFrame, e) = Prefill
      BY <3>2, <3>3, Ahead
    <3>5. Used(writeFrame, e) <= Used(writeFrame, readFrame)
      BY <3>1, <3>4, Distances, ConstantsOK DEF Queued, Words
    <3> QED
      BY <1>0, <3>2, <3>5, OwnNear DEF Own, WordsOK
  <2> QED
    BY <1>0, <1>2, <2>1, <2>2, <2>3, EngineStep
<1>4. CASE ActivateStore
  <2>1. Own(readFrame') /\ engPc' \notin {"flush", "rewind"}
    BY <1>4 DEF ActivateStore, Source, Queueing
  <2> QED
    BY <1>0, <1>2, <2>1, EngineStep
<1>5. CASE ActivateSet
  <2>1. readFrame' = readFrame /\ engPc' \notin {"flush", "rewind"}
    BY <1>5 DEF ActivateSet
  <2> QED
    BY <1>0, <1>2, <2>1, EngineStep
<1>6. CASE Qualify
  <2>1. readFrame' = writeFrame /\ engPc' \notin {"flush", "rewind"}
    BY <1>6 DEF Qualify
  <2>2. Own(writeFrame)
    BY <1>0, OwnHere DEF Own, WordsOK
  <2> QED
    BY <1>0, <1>2, <2>1, <2>2, EngineStep
<1> QED
  BY <1>3, <1>4, <1>5, <1>6 DEF Activation

(* A launch leaves nothing of the old engine's in the queue: writeFrame is   *)
(* zero, and readFrame was behind the old one.                               *)
LEMMA LaunchSource ==
  ASSUME TypeOK, LaunchEngine, ~InitOverlaps
  PROVE  Source'
<1>1. /\ writeFrame' = 0 /\ readFrame' = readFrame /\ engPc' = "initRead"
      /\ readFrame <= writeFrame /\ writeFrame < Word - Capacity
      /\ ioPc' \in {"idle", "admit"} /\ ctlPc' = "idle"
  BY DEF LaunchEngine, halVars, ioVars, ctlVars
<1>2. ~Past' /\ ~Admitted' /\ ~Up'
  BY <1>1 DEF Past, Admitted, Up
<1>3. readFrame = 0 \/ Used(0, readFrame) > Capacity
  <2>0. 0 \in Words /\ readFrame \in Words /\ writeFrame \in Words
    BY ConstantsOK, TypeParts DEF WordsOK, Words
  <2>1. PICK u \in Words : u = Used(0, readFrame)
    BY <2>0, UsedIs
  <2>2. 0 < readFrame => u = 0 - readFrame + Word
    BY <2>0, <2>1, UsedIs
  <2> QED
    BY <1>1, <2>0, <2>1, <2>2, ConstantsOK DEF Words
<1>4. Blank'
  BY <1>1, <1>2, <1>3 DEF Blank, Far
<1> QED
  BY <1>1, <1>2, <1>4 DEF Source, Queueing, Writing, Launched, Agreeing

(* The stores of initialize().                                               *)
LEMMA InitSource ==
  ASSUME TypeOK, Source, InitRead \/ InitRate \/ InitActive \/ InitDemand
  PROVE  Source'
<1>1. /\ Starting /\ Starting' /\ ~Up /\ ~Up' /\ Blank
      /\ UNCHANGED <<writeFrame, slots, engRate, ioVars, ctlVars, halRate, engEnd>>
  BY DEF InitRead, InitRate, InitActive, InitDemand, Starting, Up, Source,
    Launched, halVars
<1>2. UNCHANGED <<ioPc, ioNext, ioEnd, ctlPc, ctlFrame>>
  BY <1>1 DEF ioVars, ctlVars
<1>3. Past' = Past /\ Admitted' = Admitted
  BY <1>2 DEF Past, Admitted
<1>4. readFrame' = readFrame \/ readFrame' = 0
  BY DEF InitRead, InitRate, InitActive, InitDemand
<1>5. Past => readFrame' = readFrame
  BY <1>1, <1>4 DEF Blank
<1>6. Blank'
  BY <1>1, <1>2, <1>3, <1>4 DEF Blank, Far
<1>7. Queueing'
  <2>1. ctlPc' \in {"startStore", "changeStore"} => Own(ctlFrame)'
    BY <1>1, <1>2 DEF Source, Queueing, Own
  <2>2. ioPc' \in {"suspend", "flush"} => Own(ioEnd)'
    BY <1>1, <1>2 DEF Source, Queueing, Own
  <2>3. engPc' \notin {"flush", "rewind"}
    BY <1>1 DEF Starting
  <2> QED
    BY <1>1, <1>6, <2>1, <2>2, <2>3 DEF Queueing
<1>8. Writing'
  BY <1>1 DEF Writing, Starting
<1>9. Launched'
  <2>1. Starting' /\ engPc' # "initRead" => readFrame' = 0
    BY <1>1 DEF Source, Launched, InitRead, InitRate, InitActive, InitDemand,
      Starting
  <2>2. engPc' \in {"initActive", "initDemand", "startup"} => sampleRate' = engRate'
    BY DEF Source, Launched, InitRead, InitRate, InitActive, InitDemand
  <2> QED
    BY <1>6, <2>1, <2>2 DEF Launched
<1>10. Agreeing'
  BY <1>1, <1>6 DEF Agreeing
<1>11. Past' => ReadOK'
  <2>1. engPc # "copy" /\ engPc' # "copy"
    BY <1>1 DEF Starting
  <2>2. Pending' = Pending
    BY <2>1 DEF Pending
  <2> QED
    BY <1>1, <1>2, <1>3, <1>5, <2>2, ReadUnchanged DEF Source
<1> QED
  BY <1>7, <1>8, <1>9, <1>10, <1>11 DEF Source

(* The engine captures from an empty ring, and may stop or die anywhere.    *)
LEMMA LifeSource ==
  ASSUME TypeOK, Source, StartCapture \/ StopEngine \/ CrashEngine
  PROVE  Source'
<1>0. /\ WordsOK
      /\ UNCHANGED <<writeFrame, readFrame, sampleRate, slots, engRate, halVars>>
      /\ engPc' \in {"run", "none"} /\ (engPc' = "run" => StartCapture)
  BY TypeParts DEF StartCapture, StopEngine, CrashEngine, ringVars
<1>1. UNCHANGED <<ioPc, ioNext, ioEnd, ctlPc, ctlFrame, halRate>>
  BY <1>0 DEF halVars, ioVars, ctlVars
<1>2. (Past' <=> Past) /\ (Admitted' <=> Admitted) /\ (Blank' <=> Blank)
  BY <1>0, <1>1 DEF Past, Admitted, Blank, Far
<1>3. CASE StartCapture
  <2>1. /\ readFrame = 0 /\ writeFrame = 0 /\ sampleRate = engRate
        /\ engPc' = "run" /\ ioPc \in {"idle", "admit"} /\ ctlPc = "idle"
    BY <1>3 DEF StartCapture, Source, Launched, Starting, Blank
  <2>2. Own(readFrame)'
    <3>1. OwnIn(writeFrame', slots', engRate', readFrame')
      BY <1>0, <2>1, OwnHere DEF WordsOK
    <3> QED
      BY <3>1 DEF Own
  <2>3. ~Past' /\ ~Admitted'
    BY <1>1, <2>1 DEF Past, Admitted
  <2> QED
    BY <1>0, <1>1, <2>1, <2>2, <2>3 DEF Source, Queueing, Writing, Launched,
      Agreeing, Starting
<1>4. CASE StopEngine \/ CrashEngine
  <2>1. engPc' = "none"
    BY <1>4 DEF StopEngine, CrashEngine
  <2>2. ~Up' /\ ~Starting'
    BY <2>1 DEF Up, Starting
  <2>3. Queueing'
    <3>1. Own(readFrame)' \/ (Blank' /\ ~Up')
      BY <1>0, <1>2, <2>2 DEF Source, Queueing, Own
    <3>2. ctlPc' \in {"startStore", "changeStore"} => Own(ctlFrame)'
      BY <1>0, <1>1 DEF Source, Queueing, Own
    <3>3. ioPc' \in {"suspend", "flush"} => Own(ioEnd)'
      BY <1>0, <1>1 DEF Source, Queueing, Own
    <3> QED
      BY <2>1, <3>1, <3>2, <3>3 DEF Queueing
  <2>4. Past' => ReadOK'
    <3>1. Pending' = 0 /\ 0 <= Pending /\ Pending \in Words /\ Queued \in Words
      BY <2>1, Distances DEF Pending, Words
    <3>2. Queued' = Queued
      BY <1>0 DEF Queued
    <3>3. Past' => Queued' + Pending' <= Capacity
      BY <1>2, <3>1, <3>2, ConstantsOK DEF Source, ReadOK, Words
    <3> QED
      BY <1>0, <1>1, <1>2, <3>2, <3>3 DEF Source, ReadOK
  <2> QED
    BY <1>0, <1>1, <1>2, <2>1, <2>2, <2>3, <2>4 DEF Source, Writing, Launched,
      Agreeing
<1> QED
  BY <1>3, <1>4

(* Source is inductive where no callback overlaps initialize().             *)
LEMMA SourceStep ==
  ASSUME TypeOK, Roles, PacketOK, Source, ~InitOverlaps, [Next]_vars
  PROVE  Source'
<1>1. CASE UNCHANGED vars
  <2>1. UNCHANGED <<engVars, writeFrame, slots, sampleRate, readFrame>>
    BY <1>1 DEF vars, ringVars
  <2>2. UNCHANGED <<ioPc, ioNext, ioEnd, ctlPc, ctlFrame, halRate, engPc, engEnd>>
    BY <1>1 DEF vars, halVars, ioVars, ctlVars, engVars
  <2>3. (Past' <=> Past) /\ (Admitted' <=> Admitted) /\ (Blank' <=> Blank)
    BY <2>1, <2>2 DEF Past, Admitted, Blank, Far
  <2>4. Past' => ReadOK'
    <3>1. Pending' = Pending
      BY <2>1, <2>2 DEF Pending
    <3> QED
      BY <2>1, <2>2, <2>3, <3>1, ReadUnchanged DEF Source
  <2> QED
    BY <2>1, <2>2, <2>3, <2>4, HalStep DEF Source, Queueing, Agreeing
<1> QED
  BY <1>1, ReadSource, ControlSource, PacketSource, ActivationSource,
    LaunchSource, InitSource, LifeSource DEF Next, Startup

(* What a callback delivers was captured by the engine of the ring's rate,  *)
(* and that is the rate the HAL runs at.                                    *)
LEMMA DeliveredOwn ==
  ASSUME TypeOK, Source, ReadCopy
  PROVE  slots[SlotOf(ioNext)].rate = halRate
<1>0. WordsOK /\ Past /\ Admitted /\ ioPc = "copy" /\ ioNext # ioEnd
  BY TypeParts DEF ReadCopy, Past, Admitted
<1>1. PICK u \in Words : u = Queued
  BY Distances
<1>2. PICK a \in Words : a = Used(ioNext, readFrame)
  BY Distances
<1>3. PICK b \in Words : b = Used(ioEnd, ioNext)
  BY Distances
<1>4. b # 0
  BY <1>0, <1>3, Between, Here DEF WordsOK
<1>5. a + b <= u /\ u <= Capacity
  <2>1. ReadOK /\ Pending \in Words
    BY <1>0, Distances DEF Source
  <2> QED
    BY <1>0, <1>1, <1>2, <1>3, <2>1, ConstantsOK DEF ReadOK, Words
<1>6. a <= u /\ u - a \in 1 .. Capacity /\ 0 < u
  BY <1>4, <1>5, ConstantsOK DEF Words
<1>7. Used(writeFrame, ioNext) = u - a
  <2>1. Used(writeFrame, Plus(readFrame, a)) = u - a
    BY <1>0, <1>1, <1>6, Advanced DEF WordsOK, Queued
  <2>2. Plus(readFrame, a) = ioNext
    BY <1>0, <1>2, Between DEF WordsOK
  <2> QED
    BY <2>1, <2>2
<1>8. ~Blank
  <2>1. ASSUME Blank PROVE FALSE
    <3>1. readFrame = writeFrame
      BY <1>0, <2>1 DEF Blank
    <3>2. Queued = 0
      BY <1>0, <3>1, Here DEF Queued, WordsOK
    <3> QED
      BY <1>1, <1>6, <3>2
  <2> QED
    BY <2>1
<1>9. Own(readFrame) /\ sampleRate = engRate /\ sampleRate = halRate
  BY <1>0, <1>8 DEF Source, Queueing, Agreeing
<1>10. Used(writeFrame, ioNext) <= Used(writeFrame, readFrame)
  BY <1>1, <1>2, <1>6, <1>7 DEF Queued, Words
<1> QED
  BY <1>0, <1>6, <1>7, <1>9, <1>10 DEF Own, OwnIn, WordsOK

(* ReadInput delivers only frames captured at the rate the HAL runs at, if no *)
(* callback or control operation overlaps an engine's initialize() (the     *)
(* constant InitOverlaps), whatever stalls, dies or restarts otherwise.     *)
THEOREM NoForeignCaptureAlways ==
  ASSUME ~InitOverlaps
  PROVE  Spec => NoForeignCapture
<1> DEFINE Inv == TypeOK /\ Roles /\ PacketOK /\ Source
<1>1. Init => Inv
  <2>1. Init => PacketOK
    BY DEF Init, PacketOK
  <2> QED
    BY <2>1, TypeInit, SourceInit
<1>2. Inv /\ [Next]_vars => Inv'
  BY TypeStep, RolesStep, PacketStep, SourceStep
<1>3. Inv /\ [Next]_vars =>
        [ReadCopy => slots[SlotOf(ioNext)].rate = halRate]_vars
  BY DeliveredOwn
<1> QED
  BY <1>1, <1>2, <1>3, PTL DEF Spec, NoForeignCapture

-----------------------------------------------------------------------------
(* How old the frames are.                                                  *)
(* Of the ring's frames up to w, those as far back as h are no older than    *)
(* their distance: behind them nothing was dropped.  k is the length of a    *)
(* packet that has aged them and is not published.                           *)
DenseIn(w, s, k, h) ==
  \A p \in Words : Used(w, p) \in 1 .. Capacity /\ Used(w, p) <= Used(w, h)
                   => s[SlotOf(p)].age < Used(w, p) + k

Slack == IF Up THEN Pending ELSE MaxPacket

Dense(h) == DenseIn(writeFrame, slots, Slack, h)

(* An engine that flushes has dropped nothing behind a queue within the      *)
(* threshold, nor behind any position that readFrame is about to get.        *)
Thick ==
  engRate \in Flushing =>
    /\ Dense(readFrame) \/ (Limit < Queued /\ ~Past)
    /\ ctlPc \in {"startStore", "changeStore"} => Dense(ctlFrame)
    /\ ioPc \in {"suspend", "flush"} => Dense(ioEnd)
    /\ engPc \in {"flush", "rewind"} => Dense(engEnd)

(* The queue fits the ring, and no more than the packet under way is         *)
(* published between the two accesses of an operation of the HAL.            *)
Roomy ==
  Up =>
    /\ Queued + Pending <= Capacity
    /\ ctlPc \in {"startStore", "changeStore"} =>
         Used(writeFrame, ctlFrame) + Pending <= MaxPacket
    /\ ioPc \in {"suspend", "flush"} =>
         Used(writeFrame, ioEnd) + Pending <= MaxPacket
    /\ engPc \in {"flush", "rewind"} => Used(writeFrame, engEnd) <= Prefill

Youngest ==
  engPc = "copy" =>
    \A p \in Words : Used(p, writeFrame) < Used(engNext, writeFrame)
                     => slots[SlotOf(p)].age = 0

Recent == Thick /\ Roomy /\ Youngest

(* There is nothing up to w itself.                                         *)
LEMMA DenseHere ==
  ASSUME NEW w \in Words, NEW s, NEW k
  PROVE  DenseIn(w, s, k, w)
BY Here, UsedIs DEF DenseIn, Words

(* What holds as far back as g holds nearer.                                *)
LEMMA DenseNear ==
  ASSUME NEW w \in Words, NEW s, NEW k, NEW g \in Words, NEW h \in Words,
         Used(w, h) <= Used(w, g), DenseIn(w, s, k, g)
  PROVE  DenseIn(w, s, k, h)
<1> SUFFICES ASSUME NEW p \in Words, Used(w, p) \in 1 .. Capacity,
                    Used(w, p) <= Used(w, h)
             PROVE  s[SlotOf(p)].age < Used(w, p) + k
  BY DEF DenseIn
<1>1. Used(w, p) <= Used(w, g)
  BY UsedIs, ConstantsOK DEF Words
<1> QED
  BY <1>1 DEF DenseIn

(* n frames more make the others n older.                                   *)
LEMMA DenseAged ==
  ASSUME NEW w \in Words, NEW k \in Nat, NEW n \in Nat, NEW h \in Words,
         NEW s \in [0 .. Capacity - 1 -> [age : 0 .. MaxAge, rate : Rates]],
         NEW t \in [0 .. Capacity - 1 -> [age : 0 .. MaxAge, rate : Rates]],
         \A i \in 0 .. Capacity - 1 : t[i].age <= s[i].age + n \/ t[i].age = 0,
         DenseIn(w, s, k, h)
  PROVE  DenseIn(w, t, k + n, h)
<1> SUFFICES ASSUME NEW p \in Words, Used(w, p) \in 1 .. Capacity,
                    Used(w, p) <= Used(w, h)
             PROVE  t[SlotOf(p)].age < Used(w, p) + (k + n)
  BY DEF DenseIn
<1>1. PICK u \in Words : u = Used(w, p) /\ 1 <= u
  BY UsedIs, ConstantsOK
<1>2. PICK i \in 0 .. Capacity - 1 : i = SlotOf(p)
  BY SlotPlace
<1>3. PICK a \in Nat : a = s[i].age
  BY ConstantsOK
<1>4. PICK b \in Nat : b = t[i].age
  BY ConstantsOK
<1>5. a < u + k
  BY <1>1, <1>2, <1>3 DEF DenseIn
<1>6. b <= a + n \/ b = 0
  BY <1>3, <1>4
<1>7. b < u + (k + n)
  BY <1>1, <1>5, <1>6 DEF Words
<1> QED
  BY <1>1, <1>2, <1>4, <1>7

(* Frames that a packet aged are as far off once it is published.           *)
LEMMA DensePublished ==
  ASSUME NEW w \in Words, NEW h \in Words, NEW n \in Words, n <= Capacity,
         NEW s \in [0 .. Capacity - 1 -> [age : 0 .. MaxAge, rate : Rates]],
         \A p \in Words : Used(p, w) < n => s[SlotOf(p)].age = 0,
         DenseIn(w, s, n, h)
  PROVE  DenseIn(Plus(w, n), s, 0, h)
<1>1. PICK x \in Words : x = Plus(w, n)
  BY PlusIs
<1> SUFFICES ASSUME NEW p \in Words, Used(x, p) \in 1 .. Capacity,
                    Used(x, p) <= Used(x, h)
             PROVE  s[SlotOf(p)].age < Used(x, p) + 0
  BY <1>1 DEF DenseIn
<1>2. PICK a \in Words : a = Used(x, p) /\ 1 <= a /\ a <= Capacity
  BY UsedIs, ConstantsOK
<1>3. /\ a <= n => Used(p, w) < n
      /\ n < a => /\ Used(w, p) = a - n
                  /\ Used(w, p) \in 1 .. Capacity /\ Used(w, p) <= Used(w, h)
  BY <1>1, <1>2, Behind
<1>4. PICK c \in Nat : c = s[SlotOf(p)].age
  BY SlotPlace, ConstantsOK
<1>5. CASE a <= n
  <2>1. c = 0
    BY <1>3, <1>4, <1>5
  <2> QED
    BY <1>2, <1>4, <2>1 DEF Words
<1>6. CASE n < a
  <2>1. c < (a - n) + n
    BY <1>3, <1>4, <1>6 DEF DenseIn
  <2> QED
    BY <1>2, <1>4, <2>1 DEF Words
<1> QED
  BY <1>2, <1>5, <1>6 DEF Words

(* A packet under way is at most a packet.                                  *)
LEMMA Slacks ==
  ASSUME TypeOK, PacketOK
  PROVE  /\ Pending \in Nat /\ Pending <= MaxPacket /\ MaxPacket <= Capacity
         /\ Slack \in Nat /\ Slack <= MaxPacket
         /\ (Up => Slack = Pending) /\ (~Up => Slack = MaxPacket)
         /\ engPc # "copy" => Pending = 0
<1>1. Pending \in Nat /\ Pending <= MaxPacket /\ (engPc # "copy" => Pending = 0)
  BY Distances, ConstantsOK DEF PacketOK, Pending, Words
<1> QED
  BY <1>1, ConstantsOK DEF Slack

(* A step of the HAL.                                                       *)
LEMMA HalRecent ==
  ASSUME TypeOK, PacketOK, Recent, UNCHANGED <<writeFrame, slots, engVars>>,
         engRate \in Flushing => Dense(readFrame') \/ (Limit < Queued' /\ ~Past'),
         Up => Queued' + Pending <= Capacity,
         ctlPc' \in {"startStore", "changeStore"} =>
           \/ ctlPc \in {"startStore", "changeStore"} /\ ctlFrame' = ctlFrame
           \/ ctlFrame' = writeFrame,
         ioPc' \in {"suspend", "flush"} =>
           \/ ioPc \in {"suspend", "flush"} /\ ioEnd' = ioEnd
           \/ ioEnd' = writeFrame
  PROVE  Recent'
<1>0. WordsOK
  BY TypeParts
<1>1. UNCHANGED <<writeFrame, slots, engPc, engRate, engNext, engEnd>>
  BY DEF engVars
<1>2. (Up' <=> Up) /\ Pending' = Pending
  BY <1>1 DEF Up, Pending
<1>3. Slack' = Slack
  BY <1>1, <1>2 DEF Slack, Up
<1>4. Dense(writeFrame) /\ Used(writeFrame, writeFrame) + Pending <= MaxPacket
  BY <1>0, DenseHere, Here, Slacks DEF Dense, WordsOK
<1>5. Thick'
  <2> SUFFICES ASSUME engRate \in Flushing
               PROVE  /\ Dense(readFrame)' \/ (Limit < Queued' /\ ~Past')
                      /\ ctlPc' \in {"startStore", "changeStore"} => Dense(ctlFrame)'
                      /\ ioPc' \in {"suspend", "flush"} => Dense(ioEnd)'
                      /\ engPc' \in {"flush", "rewind"} => Dense(engEnd)'
    BY <1>1 DEF Thick
  <2>1. Dense(readFrame)' \/ (Limit < Queued' /\ ~Past')
    BY <1>1, <1>3 DEF Dense
  <2>2. ctlPc' \in {"startStore", "changeStore"} => Dense(ctlFrame)'
    BY <1>1, <1>3, <1>4 DEF Recent, Thick, Dense
  <2>3. ioPc' \in {"suspend", "flush"} => Dense(ioEnd)'
    BY <1>1, <1>3, <1>4 DEF Recent, Thick, Dense
  <2>4. engPc' \in {"flush", "rewind"} => Dense(engEnd)'
    BY <1>1, <1>3 DEF Recent, Thick, Dense
  <2> QED
    BY <2>1, <2>2, <2>3, <2>4
<1>6. Roomy'
  <2> SUFFICES ASSUME Up
               PROVE  /\ Queued' + Pending' <= Capacity
                      /\ ctlPc' \in {"startStore", "changeStore"} =>
                           Used(writeFrame', ctlFrame') + Pending' <= MaxPacket
                      /\ ioPc' \in {"suspend", "flush"} =>
                           Used(writeFrame', ioEnd') + Pending' <= MaxPacket
                      /\ engPc' \in {"flush", "rewind"} =>
                           Used(writeFrame', engEnd') <= Prefill
    BY <1>2 DEF Roomy
  <2> QED
    BY <1>1, <1>2, <1>4 DEF Recent, Roomy
<1>7. Youngest'
  BY <1>1 DEF Recent, Youngest
<1> QED
  BY <1>5, <1>6, <1>7 DEF Recent

(* ReadInput moves readFrame only to where Dense holds.                     *)
LEMMA ReadRecent ==
  ASSUME TypeOK, PacketOK, Source, Recent, ReadInput
  PROVE  Recent'
<1> USE DEF ringVars, halVars, ioVars, ctlVars
<1>0. WordsOK /\ UNCHANGED <<writeFrame, slots, engVars, ctlPc, ctlFrame>>
  BY TypeParts DEF ReadInput, ReadAnnounce, ReadAdmit, CheckStale,
    SuspendClear, SuspendFlush, TrimLoad, TrimStore, ReadLoad, ReadReserve,
    ReadCopy, ReadCommit
<1>1. CASE ReadAnnounce \/ ReadAdmit \/ SuspendClear \/ TrimLoad \/ ReadLoad
           \/ ReadReserve \/ ReadCopy
  <2>1. /\ readFrame' = readFrame /\ (Past' => Past)
        /\ ioPc' \in {"suspend", "flush"} =>
             ioPc \in {"suspend", "flush"} /\ ioEnd' = ioEnd
    BY <1>1 DEF ReadAnnounce, ReadAdmit, SuspendClear, TrimLoad, ReadLoad,
      ReadReserve, ReadCopy, Past
  <2>2. Queued' = Queued
    BY <1>0, <2>1 DEF Queued
  <2> QED
    BY <1>0, <2>1, <2>2, HalRecent DEF Recent, Thick, Roomy
<1>2. CASE CheckStale
  <2>1. /\ readFrame' = readFrame
        /\ ioPc' \in {"suspend", "flush"} => ioEnd' = writeFrame
        /\ Past' => ~(Queued > Limit)
    BY <1>2 DEF CheckStale, Past
  <2>2. Queued' = Queued /\ (Past' => ~(Limit < Queued))
    BY <1>0, <2>1, Distances, ConstantsOK DEF Queued, Words
  <2> QED
    BY <1>0, <2>1, <2>2, HalRecent DEF Recent, Thick, Roomy
<1>3. CASE SuspendFlush
  <2>1. readFrame' = ioEnd /\ ioPc = "flush" /\ ioPc' = "idle"
    BY <1>3 DEF SuspendFlush
  <2>2. engRate \in Flushing => Dense(readFrame')
    BY <2>1 DEF Recent, Thick
  <2>3. Up => Queued' + Pending <= Capacity
    <3>1. Queued' = Used(writeFrame, ioEnd)
      BY <1>0, <2>1 DEF Queued
    <3>2. Up => Used(writeFrame, ioEnd) + Pending <= MaxPacket
      BY <2>1 DEF Recent, Roomy
    <3> QED
      BY <3>1, <3>2, Slacks, Distances, ConstantsOK DEF Words
  <2> QED
    BY <1>0, <2>1, <2>2, <2>3, HalRecent
<1>4. CASE TrimStore \/ ReadCommit
  <2>1. ReadOK /\ Past
    BY <1>4 DEF Source, TrimStore, ReadCommit, Past
  <2>2. readFrame' = ioEnd /\ Used(writeFrame, ioEnd) <= Queued
    BY <1>4, <2>1, ReadForward
  <2>3. ioPc' \notin {"suspend", "flush"}
    BY <1>4 DEF TrimStore, ReadCommit
  <2>4. engRate \in Flushing => Dense(readFrame')
    <3>1. engRate \in Flushing => Dense(readFrame)
      BY <2>1 DEF Recent, Thick
    <3> QED
      BY <1>0, <2>2, <3>1, DenseNear DEF Dense, Queued, WordsOK
  <2>5. Up => Queued' + Pending <= Capacity
    <3>1. Queued' = Used(writeFrame, ioEnd)
      BY <1>0, <2>2 DEF Queued
    <3>2. Queued + Pending <= Capacity
      BY <2>1 DEF ReadOK
    <3> QED
      BY <2>2, <3>1, <3>2, Slacks, Distances, ConstantsOK DEF Words
  <2> QED
    BY <1>0, <2>3, <2>4, <2>5, HalRecent
<1> QED
  BY <1>1, <1>2, <1>3, <1>4 DEF ReadInput

(* So does the control thread.                                              *)
LEMMA ControlRecent ==
  ASSUME TypeOK, Roles, PacketOK, Recent, Control
  PROVE  Recent'
<1> USE DEF ringVars, halVars, ioVars, ctlVars
<1>0. WordsOK /\ UNCHANGED <<writeFrame, slots, engVars>>
  BY TypeParts DEF Control, StartIO, StopIO, ChangeRate, ControlLoad,
    ControlStore, ChangeClear, HalRestart
<1>1. CASE ~ControlStore
  <2>1. /\ readFrame' = readFrame
        /\ (ioPc' = ioPc /\ ioEnd' = ioEnd) \/ ioPc' = "idle"
        /\ ctlPc' \in {"startStore", "changeStore"} =>
             \/ ctlPc \in {"startStore", "changeStore"} /\ ctlFrame' = ctlFrame
             \/ ctlFrame' = writeFrame
    BY <1>1 DEF Control, StartIO, StopIO, ChangeRate, ControlLoad, ChangeClear,
      HalRestart
  <2>2. Queued' = Queued /\ (Past' => Past)
    BY <1>0, <2>1 DEF Queued, Past
  <2> QED
    BY <1>0, <2>1, <2>2, HalRecent DEF Recent, Thick, Roomy
<1>2. CASE ControlStore
  <2>1. /\ readFrame' = ctlFrame /\ ioPc' = ioPc /\ ioEnd' = ioEnd
        /\ ctlPc \in {"startStore", "changeStore"}
        /\ ctlPc' \notin {"startStore", "changeStore"}
    BY <1>2 DEF ControlStore
  <2>2. engRate \in Flushing => Dense(readFrame')
    BY <2>1 DEF Recent, Thick
  <2>3. Up => Queued' + Pending <= Capacity
    <3>1. Queued' = Used(writeFrame, ctlFrame) /\ Queued' \in Words
      BY <1>0, <2>1, UsedIs DEF Queued, WordsOK
    <3>2. Up => Used(writeFrame, ctlFrame) + Pending <= MaxPacket
      BY <2>1 DEF Recent, Roomy
    <3> QED
      BY <3>1, <3>2, Slacks, ConstantsOK DEF Words
  <2> QED
    BY <1>0, <2>1, <2>2, <2>3, HalRecent
<1> QED
  BY <1>1, <1>2

(* A packet that a queue within the threshold leaves room for ages the      *)
(* frames by its whole length.                                              *)
LEMMA ReserveRecent ==
  ASSUME TypeOK, PacketOK, Recent, PacketReserve, ~HalStalls
  PROVE  Recent'
<1>0. WordsOK /\ SlotsOK /\ SlotsOK'
  <2>1. [Next]_vars
    BY DEF Next, Packet
  <2> QED
    BY <2>1, TypeParts, SlotsStep
<1>1. PICK n \in 1 .. MaxPacket :
        /\ slots' = Aged(n) /\ engNext' = writeFrame
        /\ engEnd' = Plus(writeFrame, Minimum(n, FreeIn(Queued)))
        /\ engPc = "run" /\ engPc' = "copy"
        /\ UNCHANGED <<writeFrame, readFrame, engRate, halVars>>
  BY DEF PacketReserve
<1>2. /\ ioPc' \in {"idle", "admit"} /\ ctlPc' = "idle" /\ ~Past /\ ~Past'
      /\ Up /\ Up'
  BY <1>1 DEF PacketReserve, HalInside, halVars, ioVars, ctlVars, Past, Up
<1> n \in Nat /\ n <= MaxPacket
  BY ConstantsOK
<1>3. PICK m \in Words : /\ m = Minimum(n, FreeIn(Queued)) /\ m <= n
                         /\ m <= FreeIn(Queued) /\ (m = n \/ m = FreeIn(Queued))
  <2>1. PICK f \in Words : f = FreeIn(Queued)
    BY Amounts, Distances
  <2>2. f \in Nat
    BY <2>1 DEF Words
  <2>3. /\ Minimum(n, f) <= n /\ Minimum(n, f) <= f
        /\ Minimum(n, f) = n \/ Minimum(n, f) = f
    BY <2>2, Least
  <2>4. Minimum(n, f) \in Words
    BY <2>1, Amounts, Distances
  <2> QED
    BY <2>1, <2>3, <2>4
<1>4. Queued' = Queued /\ Pending' = m
  <2>1. Used(Plus(writeFrame, m), writeFrame) = m
    BY <1>0, Ahead DEF WordsOK
  <2> QED
    BY <1>1, <1>3, <2>1 DEF Queued, Pending
<1>5. PICK u \in Words : u = Queued /\ u <= Capacity
  <2>1. Queued + Pending <= Capacity
    BY <1>2 DEF Recent, Roomy
  <2>2. PICK u \in Words : u = Queued
    BY Distances
  <2>3. PICK k \in Nat : k = Pending
    BY Slacks
  <2>4. u <= Capacity
    BY <2>1, <2>2, <2>3, ConstantsOK DEF Words
  <2> QED
    BY <2>2, <2>4
<1>6. m + u <= Capacity /\ (m = n \/ m + u = Capacity)
  <2>1. PICK f \in Words : f = FreeIn(u) /\ f + u = Capacity
    BY <1>5, Room
  <2> QED
    BY <1>3, <1>5, <2>1, ConstantsOK DEF Words
<1>7. Thick'
  <2> SUFFICES ASSUME engRate \in Flushing
               PROVE  Dense(readFrame)' \/ (Limit < Queued' /\ ~Past')
    BY <1>1, <1>2 DEF Thick
  <2>1. CASE Limit < Queued
    BY <1>2, <1>4, <2>1
  <2>2. CASE ~(Limit < Queued)
    <3>1. m = n
      BY <1>3, <1>5, <1>6, <2>2, ConstantsOK DEF Words
    <3>2. DenseIn(writeFrame, slots, 0, readFrame)
      <4>1. Slack = 0
        BY <1>1, <1>2, Slacks
      <4> QED
        BY <2>2, <4>1 DEF Recent, Thick, Dense
    <3>3. \A i \in 0 .. Capacity - 1 :
            slots'[i].age <= slots[i].age + n \/ slots'[i].age = 0
      BY <1>0, <1>1, AgedTyped, ConstantsOK
    <3>4. DenseIn(writeFrame, slots', 0 + n, readFrame)
      BY <1>0, <3>2, <3>3, DenseAged DEF SlotsOK, WordsOK
    <3>5. Slack' = 0 + n
      BY <1>2, <1>4, <3>1 DEF Slack, Words
    <3> QED
      BY <1>1, <3>4, <3>5 DEF Dense
  <2> QED
    BY <2>1, <2>2
<1>8. Roomy'
  <2>1. Queued' + Pending' <= Capacity
    BY <1>4, <1>5, <1>6 DEF Words
  <2> QED
    BY <1>1, <1>2, <2>1 DEF Roomy
<1>9. Youngest'
  <2>1. Used(engNext', writeFrame') = 0
    BY <1>0, <1>1, Here DEF WordsOK
  <2>2. \A p \in Words : ~(Used(p, writeFrame') < Used(engNext', writeFrame'))
    BY <1>0, <1>1, <2>1, UsedIs DEF WordsOK, Words
  <2> QED
    BY <2>2 DEF Youngest
<1> QED
  BY <1>7, <1>8, <1>9 DEF Recent

(* The engine writes frames of age 0 ahead of the queue.                    *)
LEMMA CopyRecent ==
  ASSUME TypeOK, PacketOK, Recent, PacketCopy
  PROVE  Recent'
<1>0. WordsOK /\ SlotsOK /\ SlotsOK'
  <2>1. [Next]_vars
    BY DEF Next, Packet
  <2> QED
    BY <2>1, TypeParts, SlotsStep
<1>1. /\ slots' = [slots EXCEPT ![SlotOf(engNext)] =
                              [age |-> 0, rate |-> engRate]]
      /\ engPc = "copy" /\ engPc' = "copy" /\ engNext # engEnd
      /\ engNext' = Plus(engNext, 1) /\ 1 \in Words
      /\ UNCHANGED <<writeFrame, readFrame, engEnd, engRate, ioPc, ioEnd,
                     ctlPc, ctlFrame>>
  BY ConstantsOK DEF PacketCopy, halVars, ioVars, ctlVars, Words
<1>2. Up /\ Up' /\ Past' = Past /\ Pending' = Pending /\ Queued' = Queued
  BY <1>1 DEF Up, Past, Pending, Queued
<1>3. Slack' = Slack /\ Slack \in Nat
  BY <1>2, Slacks DEF Slack
<1>4. \A h \in Words : Dense(h) => DenseIn(writeFrame', slots', Slack', h)
  <2> SUFFICES ASSUME NEW h \in Words, Dense(h)
               PROVE  DenseIn(writeFrame', slots', Slack', h)
    OBVIOUS
  <2>1. \A i \in 0 .. Capacity - 1 :
          slots'[i].age <= slots[i].age + 0 \/ slots'[i].age = 0
    <3> SUFFICES ASSUME NEW i \in 0 .. Capacity - 1
                 PROVE  slots'[i].age <= slots[i].age + 0 \/ slots'[i].age = 0
      OBVIOUS
    <3>1. slots'[i] = slots[i] \/ slots'[i].age = 0
      BY <1>0, <1>1 DEF SlotsOK
    <3>2. slots[i].age \in Int
      BY <1>0, ConstantsOK DEF SlotsOK
    <3> QED
      BY <3>1, <3>2
  <2>2. DenseIn(writeFrame, slots, Slack, h)
    BY DEF Dense
  <2>3. DenseIn(writeFrame, slots', Slack + 0, h)
    BY <1>0, <1>3, <2>1, <2>2, DenseAged DEF SlotsOK, WordsOK
  <2>4. Slack + 0 = Slack
    BY <1>3
  <2> QED
    BY <1>1, <1>3, <2>3, <2>4
<1>5. Thick'
  BY <1>0, <1>1, <1>2, <1>4 DEF Recent, Thick, Dense, WordsOK
<1>6. Roomy'
  BY <1>1, <1>2 DEF Recent, Roomy
<1>7. Youngest'
  <2>1. PICK a \in Words : a = Used(engNext, writeFrame)
    BY Distances
  <2>2. Used(engNext', writeFrame) = a + 1
    BY <1>1, <2>1, CopyAdvance
  <2>3. ASSUME NEW p \in Words, Used(p, writeFrame) < a + 1
        PROVE  slots'[SlotOf(p)].age = 0
    <3>1. SlotOf(p) \in 0 .. Capacity - 1
      BY SlotPlace
    <3>2. CASE Used(p, writeFrame) = a
      <4>1. Plus(writeFrame, a) = p /\ Plus(writeFrame, a) = engNext
        BY <1>0, <2>1, <3>2, Between DEF WordsOK
      <4>2. p = engNext
        BY <4>1
      <4> QED
        BY <1>0, <1>1, <3>1, <4>2 DEF SlotsOK
    <3>3. CASE Used(p, writeFrame) # a
      <4>1. Used(p, writeFrame) < a
        <5>1. Used(p, writeFrame) \in Words
          BY <1>0, UsedIs DEF WordsOK
        <5> QED
          BY <2>3, <3>3, <5>1 DEF Words
      <4>2. slots[SlotOf(p)].age = 0
        BY <1>1, <2>1, <4>1 DEF Recent, Youngest
      <4> QED
        BY <1>0, <1>1, <3>1, <4>2 DEF SlotsOK
    <3> QED
      BY <3>2, <3>3
  <2> QED
    BY <1>1, <2>2, <2>3 DEF Youngest
<1> QED
  BY <1>5, <1>6, <1>7 DEF Recent

(* And publishes them.                                                      *)
LEMMA PublishRecent ==
  ASSUME TypeOK, PacketOK, Recent, PacketPublish
  PROVE  Recent'
<1>0. WordsOK /\ SlotsOK
  BY TypeParts
<1>1. /\ writeFrame' = engEnd /\ engNext = engEnd /\ slots' = slots
      /\ engPc = "copy" /\ engPc' = "try"
      /\ UNCHANGED <<readFrame, engRate, ioPc, ioEnd, ctlPc, ctlFrame>>
  BY DEF PacketPublish, halVars, ioVars, ctlVars
<1>2. Up /\ Up' /\ (Past' <=> Past) /\ Pending' = 0
  BY <1>1 DEF Up, Past, Pending
<1>3. Slack' = 0
  BY <1>2 DEF Slack
<1>4. PICK n \in Words : /\ n = Used(engEnd, writeFrame) /\ n = Pending
                         /\ n = Slack /\ n <= MaxPacket /\ n <= Capacity
  BY <1>1, <1>2, Distances, Slacks, ConstantsOK DEF Pending
<1>5. engEnd = Plus(writeFrame, n)
  <2>1. Plus(writeFrame, Used(engEnd, writeFrame)) = engEnd
    BY <1>0, Between DEF WordsOK
  <2> QED
    BY <1>4, <2>1
<1>6. \A h \in Words : Dense(h) => DenseIn(writeFrame', slots', Slack', h)
  <2> SUFFICES ASSUME NEW h \in Words, Dense(h)
               PROVE  DenseIn(writeFrame', slots', Slack', h)
    OBVIOUS
  <2>1. \A p \in Words : Used(p, writeFrame) < n => slots[SlotOf(p)].age = 0
    BY <1>1, <1>4 DEF Recent, Youngest
  <2>2. DenseIn(writeFrame, slots, n, h)
    BY <1>4 DEF Dense
  <2>3. DenseIn(Plus(writeFrame, n), slots, 0, h)
    BY <1>0, <1>4, <2>1, <2>2, DensePublished DEF SlotsOK, WordsOK
  <2> QED
    BY <1>1, <1>3, <1>5, <2>3
<1>7. \A h \in Words : Used(writeFrame, h) + Pending <= Capacity
                       => Used(writeFrame', h) = Used(writeFrame, h) + Pending
  <2> SUFFICES ASSUME NEW h \in Words, Used(writeFrame, h) + Pending <= Capacity
               PROVE  Used(writeFrame', h) = Used(writeFrame, h) + Pending
    OBVIOUS
  <2>1. Used(writeFrame, h) + n < Word
    <3>1. PICK d \in Words : d = Used(writeFrame, h)
      BY <1>0, UsedIs DEF WordsOK
    <3> QED
      BY <1>4, <3>1, ConstantsOK DEF Words
  <2>2. Used(Plus(writeFrame, n), h) = Used(writeFrame, h) + n
    BY <1>0, <2>1, Advanced DEF WordsOK
  <2> QED
    BY <1>1, <1>4, <1>5, <2>2
<1>8. Queued' = Queued + Pending /\ Queued + Pending <= Capacity
  BY <1>0, <1>1, <1>2, <1>7 DEF Recent, Roomy, Queued, WordsOK
<1>9. Thick'
  <2> SUFFICES ASSUME engRate \in Flushing
               PROVE  /\ Dense(readFrame)' \/ (Limit < Queued' /\ ~Past')
                      /\ ctlPc' \in {"startStore", "changeStore"} => Dense(ctlFrame)'
                      /\ ioPc' \in {"suspend", "flush"} => Dense(ioEnd)'
    BY <1>1 DEF Thick
  <2>1. Limit < Queued => Limit < Queued'
    <3>1. PICK u \in Words : u = Queued
      BY Distances
    <3>2. Queued' = u + n
      BY <1>4, <1>8, <3>1
    <3> QED
      BY <3>1, <3>2, ConstantsOK DEF Words
  <2>2. Dense(readFrame)' \/ (Limit < Queued' /\ ~Past')
    BY <1>0, <1>1, <1>2, <1>6, <2>1 DEF Recent, Thick, Dense, WordsOK
  <2>3. ctlPc' \in {"startStore", "changeStore"} => Dense(ctlFrame)'
    BY <1>0, <1>1, <1>6 DEF Recent, Thick, Dense, WordsOK
  <2>4. ioPc' \in {"suspend", "flush"} => Dense(ioEnd)'
    BY <1>0, <1>1, <1>6 DEF Recent, Thick, Dense, WordsOK
  <2> QED
    BY <2>2, <2>3, <2>4
<1>10. Roomy'
  <2>0. \A h \in Words : Used(writeFrame, h) + Pending <= MaxPacket
          => Used(writeFrame', h) + Pending' <= MaxPacket
    <3> SUFFICES ASSUME NEW h \in Words, Used(writeFrame, h) + Pending <= MaxPacket
                 PROVE  Used(writeFrame', h) + Pending' <= MaxPacket
      OBVIOUS
    <3>1. PICK d \in Words : d = Used(writeFrame, h)
      BY <1>0, UsedIs DEF WordsOK
    <3>2. d + n <= MaxPacket /\ d + n <= Capacity
      BY <1>4, <3>1, ConstantsOK DEF Words
    <3>3. Used(writeFrame', h) = d + n
      BY <1>4, <1>7, <3>1, <3>2
    <3> QED
      BY <1>2, <3>2, <3>3, ConstantsOK DEF Words
  <2>1. Queued' + Pending' <= Capacity
    <3>1. PICK u \in Words : u = Queued
      BY Distances
    <3>2. Queued' = u + n /\ u + n <= Capacity
      BY <1>4, <1>8, <3>1
    <3> QED
      BY <1>2, <3>2, ConstantsOK DEF Words
  <2>2. ctlPc' \in {"startStore", "changeStore"} =>
          Used(writeFrame', ctlFrame') + Pending' <= MaxPacket
    BY <1>0, <1>1, <1>2, <2>0 DEF Recent, Roomy, WordsOK
  <2>3. ioPc' \in {"suspend", "flush"} =>
          Used(writeFrame', ioEnd') + Pending' <= MaxPacket
    BY <1>0, <1>1, <1>2, <2>0 DEF Recent, Roomy, WordsOK
  <2> QED
    BY <1>1, <2>1, <2>2, <2>3 DEF Roomy
<1>11. Youngest'
  BY <1>1 DEF Youngest
<1> QED
  BY <1>9, <1>10, <1>11 DEF Recent

(* A step of an engine that has no packet under way.                        *)
LEMMA EngineRecent ==
  ASSUME TypeOK, PacketOK, Recent, Up, Up', engPc # "copy", engPc' # "copy",
         UNCHANGED <<writeFrame, slots, engRate, ioVars, ctlVars>>,
         engRate \in Flushing => Dense(readFrame') \/ (Limit < Queued' /\ ~Past'),
         Queued' \in Words, Queued' <= Capacity,
         engPc' \in {"flush", "rewind"} =>
           /\ engRate \in Flushing => Dense(engEnd')
           /\ Used(writeFrame, engEnd') <= Prefill
  PROVE  Recent'
<1>1. UNCHANGED <<ioPc, ioEnd, ctlPc, ctlFrame>>
  BY DEF ioVars, ctlVars
<1>2. Pending = 0 /\ Pending' = 0 /\ Slack = 0 /\ Slack' = 0
  BY DEF Pending, Slack
<1>3. Thick'
  <2> SUFFICES ASSUME engRate \in Flushing
               PROVE  /\ Dense(readFrame)' \/ (Limit < Queued' /\ ~Past')
                      /\ ctlPc' \in {"startStore", "changeStore"} => Dense(ctlFrame)'
                      /\ ioPc' \in {"suspend", "flush"} => Dense(ioEnd)'
                      /\ engPc' \in {"flush", "rewind"} => Dense(engEnd)'
    BY DEF Thick
  <2>1. Dense(readFrame)' \/ (Limit < Queued' /\ ~Past')
    BY <1>2 DEF Dense
  <2>2. ctlPc' \in {"startStore", "changeStore"} => Dense(ctlFrame)'
    BY <1>1, <1>2 DEF Recent, Thick, Dense
  <2>3. ioPc' \in {"suspend", "flush"} => Dense(ioEnd)'
    BY <1>1, <1>2 DEF Recent, Thick, Dense
  <2>4. engPc' \in {"flush", "rewind"} => Dense(engEnd)'
    BY <1>2 DEF Dense
  <2> QED
    BY <2>1, <2>2, <2>3, <2>4
<1>4. Roomy'
  <2>1. Queued' + Pending' <= Capacity
    <3>1. Queued' \in Int
      BY ConstantsOK DEF Words
    <3>2. \A x \in Int : x + 0 = x
      OBVIOUS
    <3> QED
      BY <1>2, <3>1, <3>2, Zenon
  <2> QED
    BY <1>1, <1>2, <2>1 DEF Recent, Roomy
<1>5. Youngest'
  BY DEF Youngest
<1> QED
  BY <1>3, <1>4, <1>5 DEF Recent

(* Activation rewinds no further than the prefill.                          *)
LEMMA ActivationRecent ==
  ASSUME TypeOK, Roles, PacketOK, Source, Recent, Activation \/ Qualify
  PROVE  Recent'
<1>0. /\ WordsOK /\ Up /\ Up' /\ engPc # "copy" /\ engPc' # "copy"
      /\ UNCHANGED <<writeFrame, slots, engRate, ioVars, ctlVars>>
  <2>1. /\ Up /\ Up' /\ engPc # "copy" /\ engPc' # "copy"
        /\ UNCHANGED <<writeFrame, slots, engRate, ioVars, ctlVars>>
    BY DEF Activation, TryActivate, ActivateStore, ActivateSet, Qualify, Up,
      ringVars, halVars
  <2> QED
    BY <2>1, TypeParts
<1>1. Past' <=> Past
  BY <1>0 DEF Past, ioVars
<1>2. Queued \in Words /\ Queued <= Capacity
  <2>1. PICK u \in Words : u = Queued
    BY Distances
  <2>2. u + 0 <= Capacity
    BY <1>0, <2>1 DEF Recent, Roomy, Pending
  <2> QED
    BY <2>1, <2>2, ConstantsOK DEF Words
<1>3. Dense(writeFrame) /\ Used(writeFrame, writeFrame) = 0
  BY <1>0, DenseHere, Here DEF Dense, WordsOK
<1>4. 0 \in Words /\ 0 <= Capacity /\ 0 <= Prefill /\ Prefill <= Capacity
  BY ConstantsOK DEF Words
<1>5. CASE TryActivate
  <2>1. readFrame' = readFrame /\ Queued' = Queued
    BY <1>0, <1>5 DEF TryActivate, ringVars, Queued
  <2>2. engRate \in Flushing => Dense(readFrame') \/ (Limit < Queued' /\ ~Past')
    BY <1>1, <2>1 DEF Recent, Thick
  <2>3. engPc' = "flush" => engEnd' = writeFrame
    BY <1>5 DEF TryActivate
  <2>4. ASSUME engPc' = "rewind"
        PROVE  /\ engRate \in Flushing => Dense(engEnd')
               /\ Used(writeFrame, engEnd') <= Prefill
    <3>1. /\ engEnd' = (writeFrame - Prefill) % Word /\ Queued >= Prefill
          /\ ~(engRate \in Flushing /\ Queued > Limit)
      BY <1>5, <2>4 DEF TryActivate
    <3>2. PICK e \in Words : e = engEnd' /\ Plus(e, Prefill) = writeFrame
      BY <1>0, <3>1, RewindIs DEF WordsOK
    <3>3. Prefill \in Words
      BY ConstantsOK DEF Words
    <3>4. Used(writeFrame, e) = Prefill
      BY <3>2, <3>3, Ahead
    <3>5. Used(writeFrame, e) <= Used(writeFrame, readFrame)
      BY <3>1, <3>4, Distances, ConstantsOK DEF Queued, Words
    <3>6. engRate \in Flushing => Dense(readFrame)
      <4>1. engRate \in Flushing => ~(Limit < Queued)
        BY <1>2, <3>1, ConstantsOK DEF Words
      <4> QED
        BY <4>1 DEF Recent, Thick
    <3>7. engRate \in Flushing => Dense(e)
      BY <1>0, <3>5, <3>6, DenseNear DEF Dense, WordsOK
    <3> QED
      BY <3>2, <3>4, <3>7, ConstantsOK
  <2>5. engPc' \in {"flush", "rewind"} =>
          /\ engRate \in Flushing => Dense(engEnd')
          /\ Used(writeFrame, engEnd') <= Prefill
    BY <1>3, <1>4, <2>3, <2>4
  <2> QED
    BY <1>0, <1>2, <2>1, <2>2, <2>5, EngineRecent
<1>6. CASE ActivateStore
  <2>1. /\ readFrame' = engEnd /\ engPc \in {"flush", "rewind"}
        /\ engPc' \notin {"flush", "rewind"}
    BY <1>6 DEF ActivateStore
  <2>2. engRate \in Flushing => Dense(readFrame')
    BY <2>1 DEF Recent, Thick
  <2>3. Queued' \in Words /\ Queued' <= Capacity
    <3>1. PICK u \in Words : u = Used(writeFrame, engEnd)
      BY <1>0, UsedIs DEF WordsOK
    <3>2. u <= Prefill
      BY <1>0, <2>1, <3>1 DEF Recent, Roomy
    <3>3. Queued' = u
      BY <1>0, <2>1, <3>1 DEF Queued
    <3> QED
      BY <3>2, <3>3, ConstantsOK DEF Words
  <2> QED
    BY <1>0, <2>1, <2>2, <2>3, EngineRecent
<1>7. CASE ActivateSet
  <2>1. /\ readFrame' = readFrame /\ engPc' \notin {"flush", "rewind"}
        /\ Queued' = Queued
    BY <1>0, <1>7 DEF ActivateSet, Queued
  <2>2. engRate \in Flushing => Dense(readFrame') \/ (Limit < Queued' /\ ~Past')
    BY <1>1, <2>1 DEF Recent, Thick
  <2> QED
    BY <1>0, <1>2, <2>1, <2>2, EngineRecent
<1>8. CASE Qualify
  <2>1. /\ readFrame' = writeFrame /\ engPc' \notin {"flush", "rewind"}
        /\ Queued' = Used(writeFrame, writeFrame)
    BY <1>0, <1>8 DEF Qualify, Queued
  <2>2. Queued' \in Words /\ Queued' <= Capacity
    BY <1>3, <1>4, <2>1
  <2> QED
    BY <1>0, <1>3, <2>1, <2>2, EngineRecent
<1> QED
  BY <1>5, <1>6, <1>7, <1>8 DEF Activation

(* While no engine is up only the queue's frames matter.                    *)
LEMMA DownRecent ==
  ASSUME ~Up', ioPc' \notin {"suspend", "flush"}, ctlPc' = "idle",
         Dense(readFrame)' \/ (Limit < Queued' /\ ~Past')
  PROVE  Recent'
BY DEF Recent, Thick, Roomy, Youngest, Up

(* initialize() meets an empty ring or one beyond the threshold.            *)
LEMMA LaunchRecent ==
  ASSUME TypeOK, LaunchEngine, ~InitOverlaps
  PROVE  Recent'
<1>1. /\ writeFrame' = 0 /\ ioPc' \in {"idle", "admit"} /\ ctlPc' = "idle"
      /\ engPc' = "initRead" /\ readFrame' = readFrame
  BY DEF LaunchEngine, halVars, ioVars, ctlVars
<1>2. readFrame' = 0 \/ Far'
  <2>1. Source'
    BY LaunchSource
  <2>2. Starting'
    BY <1>1 DEF Starting
  <2> QED
    BY <2>1, <2>2 DEF Source, Launched, Blank
<1>3. ~Past' /\ ~Up'
  BY <1>1 DEF Past, Up
<1>4. CASE readFrame' = 0
  <2>1. Dense(readFrame)'
    <3>1. 0 \in Words
      BY ConstantsOK DEF Words
    <3>2. DenseIn(writeFrame', slots', Slack', readFrame')
      BY <1>1, <1>4, <3>1, DenseHere
    <3> QED
      BY <3>2 DEF Dense
  <2> QED
    BY <1>1, <1>3, <2>1, DownRecent
<1>5. CASE Far'
  <2>1. Limit < Queued'
    <3>1. Queued' \in Words
      <4>1. 0 \in Words /\ readFrame \in Words
        BY ConstantsOK, TypeParts DEF WordsOK, Words
      <4> QED
        BY <1>1, <4>1, UsedIs DEF Queued
    <3>2. Capacity < Queued'
      BY <1>5 DEF Far, Queued
    <3> QED
      BY <3>1, <3>2, ConstantsOK DEF Words
  <2> QED
    BY <1>1, <1>3, <2>1, DownRecent
<1> QED
  BY <1>2, <1>4, <1>5

(* Nothing is written while an engine starts.                               *)
LEMMA InitRecent ==
  ASSUME TypeOK, Source, Recent, InitRead \/ InitRate \/ InitActive \/ InitDemand
  PROVE  Recent'
<1>0. WordsOK
  BY TypeParts
<1>1. /\ Starting /\ Starting' /\ ~Up /\ ~Up' /\ writeFrame = 0
      /\ UNCHANGED <<writeFrame, slots, engRate, ioPc, ioEnd, ctlPc, ctlFrame>>
  BY DEF InitRead, InitRate, InitActive, InitDemand, Starting, Up, Source,
    Launched, Blank, halVars, ioVars, ctlVars
<1>2. Slack' = Slack /\ (Past' <=> Past)
  BY <1>1 DEF Slack, Past
<1>3. engRate \in Flushing => Dense(readFrame)' \/ (Limit < Queued' /\ ~Past')
  <2>1. CASE InitRead
    <3>1. readFrame' = writeFrame
      BY <1>1, <2>1 DEF InitRead
    <3> QED
      BY <1>0, <1>1, <1>2, <3>1, DenseHere DEF Dense, WordsOK
  <2>2. CASE InitRate \/ InitActive \/ InitDemand
    <3>1. readFrame' = readFrame
      BY <2>2 DEF InitRate, InitActive, InitDemand
    <3> QED
      BY <1>1, <1>2, <3>1 DEF Recent, Thick, Dense, Queued
  <2> QED
    BY <2>1, <2>2
<1>4. ctlPc' \in {"startStore", "changeStore"} /\ engRate \in Flushing
        => Dense(ctlFrame)'
  BY <1>1, <1>2 DEF Recent, Thick, Dense
<1>5. ioPc' \in {"suspend", "flush"} /\ engRate \in Flushing => Dense(ioEnd)'
  BY <1>1, <1>2 DEF Recent, Thick, Dense
<1>6. engPc' \notin {"copy", "flush", "rewind"}
  BY <1>1 DEF Up
<1> QED
  BY <1>1, <1>3, <1>4, <1>5, <1>6 DEF Recent, Thick, Roomy, Youngest

(* A session starts empty; an engine that ends leaves what it had written.  *)
LEMMA LifeRecent ==
  ASSUME TypeOK, PacketOK, Source, Recent,
         StartCapture \/ StopEngine \/ CrashEngine
  PROVE  Recent'
<1>0. /\ WordsOK /\ SlotsOK
      /\ UNCHANGED <<writeFrame, readFrame, slots, engRate, ioPc, ioEnd, ctlPc,
                     ctlFrame>>
  BY TypeParts DEF StartCapture, StopEngine, CrashEngine, ringVars, halVars,
    ioVars, ctlVars
<1>1. CASE StartCapture
  <2>1. /\ readFrame = 0 /\ writeFrame = 0 /\ engPc' = "run"
        /\ ioPc \in {"idle", "admit"} /\ ctlPc = "idle"
    BY <1>1 DEF StartCapture, Source, Launched, Starting, Blank
  <2>2. Dense(readFrame)'
    <3>1. DenseIn(writeFrame', slots', Slack', readFrame')
      BY <1>0, <2>1, DenseHere DEF WordsOK
    <3> QED
      BY <3>1 DEF Dense
  <2>3. Queued' = 0 /\ Pending' = 0 /\ 0 + 0 <= Capacity
    BY <1>0, <2>1, Here, ConstantsOK DEF Queued, Pending, WordsOK
  <2>4. Queued' + Pending' <= Capacity
    BY <2>3, Zenon
  <2> QED
    BY <1>0, <2>1, <2>2, <2>4 DEF Recent, Thick, Roomy, Youngest
<1>2. CASE StopEngine \/ CrashEngine
  <2>1. engPc' = "none"
    BY <1>2 DEF StopEngine, CrashEngine
  <2>2. ~Up' /\ (Past' <=> Past) /\ Queued' = Queued
    BY <1>0, <2>1 DEF Up, Past, Queued
  <2>3. Slack' = MaxPacket
    BY <2>2 DEF Slack
  <2>4. \A h \in Words : Dense(h) => DenseIn(writeFrame', slots', Slack', h)
    <3> SUFFICES ASSUME NEW h \in Words, Dense(h)
                 PROVE  DenseIn(writeFrame', slots', Slack', h)
      OBVIOUS
    <3>1. PICK n \in Nat : Slack + n = MaxPacket
      <4>1. Slack \in Nat /\ MaxPacket \in Nat /\ Slack <= MaxPacket
        BY Slacks, ConstantsOK
      <4>2. MaxPacket - Slack \in Nat /\ Slack + (MaxPacket - Slack) = MaxPacket
        BY <4>1
      <4> QED
        BY <4>2
    <3>2. \A i \in 0 .. Capacity - 1 :
            slots[i].age <= slots[i].age + n \/ slots[i].age = 0
      BY <1>0, ConstantsOK DEF SlotsOK
    <3>3. DenseIn(writeFrame, slots, Slack, h)
      BY DEF Dense
    <3>4. DenseIn(writeFrame, slots, Slack + n, h)
      BY <1>0, <3>2, <3>3, Slacks, DenseAged DEF SlotsOK, WordsOK
    <3> QED
      BY <1>0, <2>3, <3>1, <3>4
  <2>5. Thick'
    BY <1>0, <2>1, <2>2, <2>4 DEF Recent, Thick, Dense, WordsOK
  <2> QED
    BY <2>1, <2>2, <2>5 DEF Recent, Roomy, Youngest
<1> QED
  BY <1>1, <1>2

(* Recent is inductive where no callback overlaps initialize() and none is  *)
(* stalled between its accesses.                                            *)
LEMMA RecentStep ==
  ASSUME TypeOK, Roles, PacketOK, Source, Recent, ~InitOverlaps, ~HalStalls,
         [Next]_vars
  PROVE  Recent'
<1>1. CASE UNCHANGED vars
  <2>1. /\ UNCHANGED <<writeFrame, slots, engVars, readFrame>>
        /\ UNCHANGED <<ioPc, ioEnd, ctlPc, ctlFrame>>
    BY <1>1 DEF vars, ringVars, halVars, ioVars, ctlVars
  <2>2. Queued' = Queued /\ (Past' <=> Past)
    BY <2>1 DEF Queued, Past
  <2> QED
    BY <2>1, <2>2, HalRecent DEF Recent, Thick, Roomy
<1> QED
  BY <1>1, ReadRecent, ControlRecent, ReserveRecent, CopyRecent, PublishRecent,
    ActivationRecent, LaunchRecent, InitRecent, LifeRecent
    DEF Next, Packet, Startup

(* At the start the ring is empty.                                          *)
LEMMA RecentInit == Init => Recent
<1> SUFFICES ASSUME Init PROVE Recent
  OBVIOUS
<1>1. writeFrame \in Words /\ readFrame = writeFrame
  BY ConstantsOK DEF Init, Words
<1>2. Dense(readFrame)
  BY <1>1, DenseHere DEF Dense
<1> QED
  BY <1>1, <1>2 DEF Init, Recent, Thick, Roomy, Youngest, Up

(* What passes the check was not held back beyond the threshold.            *)
LEMMA PassedFresh ==
  ASSUME TypeOK, Roles, PacketOK, Source, Recent, CheckStale, Past',
         halRate \in Flushing
  PROVE  Fresh
<1>0. WordsOK /\ SlotsOK
  BY TypeParts
<1>1. ~(Queued > Limit)
  BY DEF CheckStale, Past
<1>2. PICK u \in Words : u = Queued /\ u <= Limit
  <2>1. PICK u \in Words : u = Queued
    BY Distances
  <2> QED
    BY <1>1, <2>1, ConstantsOK DEF Words
<1> SUFFICES ASSUME NEW x \in From(readFrame, writeFrame)
             PROVE  slots[SlotOf(x)].age < MaxAge
  BY DEF Fresh
<1>3. PICK i \in Words : i < Used(writeFrame, readFrame) /\ x = Plus(readFrame, i)
  BY <1>0, InStretch DEF WordsOK
<1>4. i < u
  BY <1>2, <1>3 DEF Queued
<1>5. ~Blank
  <2>1. ASSUME Blank PROVE FALSE
    <3>1. ~Far
      BY <1>2, ConstantsOK DEF Far, Queued, Words
    <3>2. readFrame = writeFrame
      BY <2>1, <3>1 DEF Blank
    <3>3. Queued = 0
      BY <1>0, <3>2, Here DEF Queued, WordsOK
    <3> QED
      BY <1>2, <1>4, <3>3, ConstantsOK DEF Words
  <2> QED
    BY <2>1
<1>6. Admitted
  BY DEF CheckStale, Admitted
<1>7. engRate \in Flushing
  BY <1>5, <1>6 DEF Source, Agreeing
<1>8. Dense(readFrame)
  <2>1. ~(Limit < Queued)
    BY <1>2, ConstantsOK DEF Words
  <2> QED
    BY <1>7, <2>1 DEF Recent, Thick
<1>9. Used(writeFrame, x) = u - i /\ x \in Words
  <2>1. i <= u /\ i <= Used(writeFrame, readFrame)
    BY <1>2, <1>4, ConstantsOK DEF Queued, Words
  <2> QED
    BY <1>0, <1>2, <1>3, <2>1, Advanced DEF WordsOK, Queued
<1>10. u - i \in 1 .. Capacity /\ u - i <= u /\ u - i <= Limit
  BY <1>2, <1>4, ConstantsOK DEF Words
<1>11. slots[SlotOf(x)].age < (u - i) + Slack
  <2>1. Used(writeFrame, x) \in 1 .. Capacity
    BY <1>9, <1>10
  <2>2. Used(writeFrame, x) <= Used(writeFrame, readFrame)
    BY <1>2, <1>9, <1>10 DEF Queued
  <2>3. slots[SlotOf(x)].age < Used(writeFrame, x) + Slack
    BY <1>8, <1>9, <2>1, <2>2 DEF Dense, DenseIn
  <2> QED
    BY <1>9, <2>3
<1>12. PICK a \in Nat : a = slots[SlotOf(x)].age
  BY <1>0, <1>9, SlotPlace, ConstantsOK DEF SlotsOK
<1>13. PICK k \in Nat : k = Slack /\ k <= MaxPacket
  BY Slacks
<1>14. a < MaxAge
  BY <1>10, <1>11, <1>12, <1>13, ConstantsOK DEF Words
<1> QED
  BY <1>12, <1>14

(* A callback that passes ReadInput's check at a rate whose engine flushes  *)
(* finds recent frames in the queue, if no callback or control operation    *)
(* overlaps initialize() and none is stalled past its accesses (InitOverlaps *)
(* and HalStalls; with a stall a discard may outlast the check it was for). *)
THEOREM FreshWhenFlushingAlways ==
  ASSUME ~InitOverlaps, ~HalStalls
  PROVE  Spec => FreshWhenFlushing
<1> DEFINE Inv == TypeOK /\ Roles /\ PacketOK /\ Source /\ Recent
<1>1. Init => Inv
  <2>1. Init => PacketOK
    BY DEF Init, PacketOK
  <2> QED
    BY <2>1, TypeInit, SourceInit, RecentInit
<1>2. Inv /\ [Next]_vars => Inv'
  BY TypeStep, RolesStep, PacketStep, SourceStep, RecentStep
<1>3. Inv /\ [Next]_vars => [Passes /\ halRate \in Flushing => Fresh]_vars
  <2> SUFFICES ASSUME Inv, Next, Passes, halRate \in Flushing PROVE Fresh
    BY DEF vars
  <2>1. CheckStale
    <3>1. ioPc = "check" /\ ioPc' \in {"trim", "load"}
      BY DEF Passes
    <3>2. ReadInput => CheckStale
      BY <3>1 DEF ReadInput, ReadAnnounce, ReadAdmit, SuspendClear,
        SuspendFlush, TrimLoad, TrimStore, ReadLoad, ReadReserve, ReadCopy,
        ReadCommit
    <3>3. ~Control
      BY <3>1 DEF Control, StartIO, StopIO, ChangeRate, ControlLoad,
        ControlStore, ChangeClear, HalRestart, ioVars
    <3>4. ~Packet /\ ~Activation
      BY <3>1 DEF Packet, PacketReserve, PacketCopy, PacketPublish, Activation,
        TryActivate, ActivateStore, ActivateSet, halVars, ioVars
    <3>5. ~Startup /\ ~StopEngine /\ ~CrashEngine
      BY <3>1 DEF Startup, LaunchEngine, InitRead, InitRate, InitActive,
        InitDemand, StartCapture, Qualify, StopEngine, CrashEngine, halVars,
        ioVars
    <3> QED
      BY <3>2, <3>3, <3>4, <3>5 DEF Next
  <2>2. Past'
    BY DEF Passes, Past
  <2> QED
    BY <2>1, <2>2, PassedFresh
<1> QED
  BY <1>1, <1>2, <1>3, PTL DEF Spec, FreshWhenFlushing
=============================================================================
