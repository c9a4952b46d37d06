--------------------------- MODULE FileStreamsProofs ---------------------------
(***************************************************************************)
(* Theorems about FileStreams, for every number of threads, files and      *)
(* descriptors, every size of array, buffer and file, and every width of   *)
(* the integers.                                                           *)
(***************************************************************************)
EXTENDS FileStreams, SequenceTheorems, TLAPS

-----------------------------------------------------------------------------
(* The inductive invariant.                                                 *)

(* A call is queued once, and only while it is posted. *)
QueuedCalls ==
    /\ \A i \in 1 .. Len(queue) : call[queue[i]] = "posted"
    /\ \A i, k \in 1 .. Len(queue) : queue[i] = queue[k] => i = k

(* A call that is posted is one its thread may still make: what the native  *)
(* has seen of the stream has not changed behind its back.                  *)
Fits(t) ==
    \/ /\ stream[t] = NoFd
       /\ request[t] \in OpenRequests \union PathRequests
    \/ /\ stream[t] # NoFd
       /\ request[t] \in IF descriptor[stream[t]].mode = "read"
                         THEN ReadRequests \union CloseRequests
                         ELSE WriteRequests \union CloseRequests

RequestsFit == \A t \in Threads : call[t] = "posted" => Fits(t)

(* The bytes of a call are copied between the array and the job's buffer.   *)
Copied(r) == r.op \in {"read", "write"} /\ ~r.immortal

(* What the native has put into the job p of a posted request r, when the   *)
(* array held g.                                                            *)
JobFits(r, p, g) ==
    /\ Copied(r) => p.length <= BufferSize
    /\ Copied(r) /\ r.op = "write" => \A i \in 1 .. p.length : p.buffer[i] = g[i]
    /\ r.op \in {"read_byte", "write_byte"} => p.length = 1
    /\ r.op = "write_byte" => p.buffer[1] \in Bytes
    /\ r.op = "skip" => p.n = ToInt32(r.n)

ParamsFit ==
    \A t \in Threads : call[t] = "posted" => JobFits(request[t], params[t], given[t])

(* What the action has put into the job p of a request r that is done.      *)
AnswerFits(r, p) ==
    /\ r.op = "open" => p.result \in Fds \union {NOK}
    /\ Copied(r) /\ r.op = "read" /\ p.result \notin {NOK, EOF} =>
          /\ p.result \in 1 .. ArrayLength
          /\ p.result <= BufferSize
          /\ \A i \in 1 .. p.result : p.buffer[i] \in Bytes

AnswersFit ==
    \A t \in Threads : call[t] = "done" => AnswerFits(request[t], params[t])

(* Only an open descriptor refers to a file; one that is not open for       *)
(* reading is moved by writes alone.                                        *)
DescriptorsFit ==
    \A fd \in OpenFds :
        /\ descriptor[fd].file \in Files
        /\ descriptor[fd].mode # "read" => descriptor[fd].position <= MaxSize

IInv ==
    /\ TypeOK
    /\ QueuedCalls
    /\ RequestsFit
    /\ ParamsFit
    /\ AnswersFit
    /\ DescriptorsFit
    /\ DescriptorsOwned

-----------------------------------------------------------------------------
(* Integers of limited width.                                               *)

LEMMA Widths ==
    /\ Narrow \in Nat \ {0} /\ Wide \in Nat \ {0} /\ Wide >= Narrow
    /\ Narrow \div 2 \in Nat /\ Wide \div 2 \in Nat
    /\ Narrow = 2 * (Narrow \div 2)
    /\ Int32Max = Narrow \div 2 - 1 /\ Int32Max \in Nat
    /\ MaxSize \in Nat \ {0} /\ MaxSize < Int32Max
    /\ ArrayLength \in Nat \ {0} /\ ArrayLength <= Int32Max
    /\ FdCount \in Nat \ {0} /\ FdCount <= Int32Max
    /\ BufferSize \in Nat \ {0}
BY FileStreamsAssumption DEF Int32Max

LEMMA Int32Is == Int32 = (- (Int32Max + 1)) .. Int32Max
<1>1. \A y \in (- (Int32Max + 1)) .. Int32Max : y \in Int32
  <2> SUFFICES ASSUME NEW y \in (- (Int32Max + 1)) .. Int32Max
               PROVE  y \in Int32
    OBVIOUS
  <2>1. y + Narrow \div 2 \in 0 .. Narrow - 1 /\ y = (y + Narrow \div 2) - Narrow \div 2
    BY Widths
  <2>2. QED
    BY <2>1 DEF Int32
<1>2. QED
  BY <1>1, Widths DEF Int32

LEMMA ToInt32Type ==
    ASSUME NEW x \in Int
    PROVE  ToInt32(x) \in Int32
<1>1. (x + Narrow \div 2) % Narrow \in 0 .. Narrow - 1
  BY Widths
<1>2. QED
  BY <1>1 DEF ToInt32, Int32

(* What fits is not changed by a conversion. *)
LEMMA ToInt32Same ==
    ASSUME NEW x \in 0 .. Int32Max
    PROVE  ToInt32(x) = x
BY Widths DEF ToInt32

LEMMA ToUint64Of ==
    /\ \A x \in 0 .. Int32Max : ToUint64(x) = x
    /\ \A x \in Int32 : x < 0 => ToUint64(x) = x + Wide
    /\ \A x \in Int : ToUint64(x) \in 0 .. Wide - 1
<1>1. ASSUME NEW x \in 0 .. Int32Max
      PROVE  ToUint64(x) = x
  <2>1. x \in 0 .. Wide - 1
    BY Widths
  <2>2. QED
    BY <2>1, Widths DEF ToUint64
<1>2. ASSUME NEW x \in Int32, x < 0
      PROVE  ToUint64(x) = x + Wide
  <2>1. x \in (- Wide) .. -1
    BY <1>2, Int32Is, Widths
  <2>2. QED
    BY <2>1, Widths DEF ToUint64
<1>3. ASSUME NEW x \in Int
      PROVE  ToUint64(x) \in 0 .. Wide - 1
  BY Widths DEF ToUint64
<1>4. QED
  BY <1>1, <1>2, <1>3

LEMMA ToInt64Same ==
    ASSUME NEW x \in 0 .. Int32Max
    PROVE  ToInt64(x) = x
<1>1. x + Wide \div 2 \in 0 .. Wide - 1
  BY Widths
<1>2. (x + Wide \div 2) % Wide = x + Wide \div 2
  BY <1>1, Widths
<1>3. QED
  BY <1>2, Widths DEF ToInt64

LEMMA ToInt64Type ==
    ASSUME NEW x \in Int
    PROVE  ToInt64(x) \in Int
BY Widths DEF ToInt64

(* An int64_t that is not negative does not grow when it becomes an         *)
(* int32_t, and if it becomes negative it was beyond all file sizes.        *)
LEMMA ToInt32NotMore ==
    ASSUME NEW x \in Nat
    PROVE  /\ ToInt32(x) <= x
           /\ ToInt32(x) < 0 => x > Int32Max
<1>1. (x + Narrow \div 2) % Narrow <= x + Narrow \div 2
  BY Widths
<1>2. ToInt32(x) <= x
  BY <1>1, Widths DEF ToInt32
<1>3. x <= Int32Max => ToInt32(x) = x
  BY ToInt32Same, Widths
<1>4. QED
  BY <1>2, <1>3, Widths

(* From within the file, the offset of a skip is its argument, unless this  *)
(* leads out of the file or is negative: then it is the rest of the file.   *)
LEMMA OffsetInFile ==
    ASSUME NEW n \in Int32, NEW size \in 0 .. MaxSize, NEW position \in 0 .. size
    PROVE  /\ Offset(n, size, position) \in 0 .. size - position
           /\ n < 0 => Offset(n, size, position) = size - position
           /\ n >= 0 => Offset(n, size, position) = Least(n, size - position)
<1> DEFINE rest == size - position
           limited == IF ToUint64(n) > ToUint64(rest) THEN ToInt64(ToUint64(rest)) ELSE n
<1>1. rest \in 0 .. Int32Max
  BY Widths
<1>2. ToUint64(rest) = rest /\ ToInt64(rest) = rest
  BY <1>1, ToUint64Of, ToInt64Same
<1>3. n < 0 => ToUint64(n) > rest
  <2>1. n < 0 => ToUint64(n) = n + Wide
    BY ToUint64Of
  <2>2. n + Wide > rest
    BY Int32Is, Widths
  <2>3. QED
    BY <2>1, <2>2
<1>4. n >= 0 => n \in 0 .. Int32Max /\ ToUint64(n) = n
  BY Int32Is, ToUint64Of, Widths
<1>5. limited = IF n < 0 THEN rest ELSE Least(n, rest)
  BY <1>1, <1>2, <1>3, <1>4, Int32Is, Widths DEF Least
<1>6. limited \in 0 .. Int32Max
  BY <1>1, <1>4, <1>5, Int32Is, Widths DEF Least
<1>7. Offset(n, size, position) = limited
  BY <1>6, ToInt32Same, Widths DEF Offset
<1>8. QED
  BY <1>1, <1>4, <1>5, <1>7, Int32Is, Widths DEF Least

LEMMA OffsetType ==
    ASSUME NEW n \in Int32, NEW size \in Int, NEW position \in Int
    PROVE  Offset(n, size, position) \in 0 .. Int32Max
<1>1. n \in Int
  BY Int32Is, Widths
<1>2. ToUint64(size - position) \in Int
  BY ToUint64Of, Widths
<1>3. ToInt64(ToUint64(size - position)) \in Int
  BY <1>2, ToInt64Type
<1>4. \A x \in Int : ToInt32(x) \in Int /\ ToInt32(x) <= Int32Max
  BY ToInt32Type, Int32Is, Widths
<1>5. QED
  BY <1>1, <1>3, <1>4, Widths DEF Offset

-----------------------------------------------------------------------------
(* Bytes copied over others.                                                *)

LEMMA PatchedSeq ==
    ASSUME NEW S, 0 \in S, NEW s \in Seq(S), NEW at \in Nat, NEW k \in Nat, NEW data,
           \A i \in 1 .. k : data[i] \in S
    PROVE  LET r == Patched(s, at, data, k)
               n == Largest(Len(s), IF k = 0 THEN 0 ELSE at + k)
           IN  /\ r \in Seq(S)
               /\ Len(r) = n
               /\ \A i \in 1 .. n : r[i] = IF i > at /\ i <= at + k THEN data[i - at]
                                           ELSE IF i <= Len(s) THEN s[i] ELSE 0
<1> DEFINE n == Largest(Len(s), IF k = 0 THEN 0 ELSE at + k)
           e(i) == IF i > at /\ i <= at + k THEN data[i - at]
                   ELSE IF i <= Len(s) THEN s[i] ELSE 0
<1>1. n \in Nat /\ Len(s) \in Nat
  BY DEF Largest
<1>2. \A i \in 1 .. n : e(i) \in S
  <2> SUFFICES ASSUME NEW i \in 1 .. n
               PROVE  e(i) \in S
    OBVIOUS
  <2>1. i > at /\ i <= at + k => i - at \in 1 .. k
    BY <1>1
  <2>2. i <= Len(s) => s[i] \in S
    BY <1>1
  <2>3. QED
    BY <2>1, <2>2
<1>3. Patched(s, at, data, k) = [i \in 1 .. n |-> e(i)]
  BY DEF Patched
<1> HIDE DEF n, e
<1>4. [i \in 1 .. n |-> e(i)] \in Seq(S) /\ Len([i \in 1 .. n |-> e(i)]) = n
  BY <1>1, <1>2
<1>5. \A i \in 1 .. n : [j \in 1 .. n |-> e(j)][i] = e(i)
  OBVIOUS
<1>6. QED
  BY <1>3, <1>4, <1>5 DEF n, e

(* An array or a buffer of n elements stays one. *)
LEMMA PatchedArray ==
    ASSUME NEW n \in Nat, NEW s, Len(s) = n, NEW k \in 0 .. n, NEW data
    PROVE  Patched(s, 0, data, k) = [i \in 1 .. n |-> IF i <= k THEN data[i] ELSE s[i]]
<1>1. Largest(Len(s), IF k = 0 THEN 0 ELSE 0 + k) = n
  BY DEF Largest
<1>2. QED
  BY <1>1 DEF Patched

-----------------------------------------------------------------------------
(* Requests and the parameters they set.                                    *)

JobParams ==
    [buffer : [1 .. BufferSize -> Bytes \union {Junk}],
     length : 0 .. ArrayLength,
     n : Int32,
     result : Int32,
     skipped_count : Int32]

(* What a thread may call depends on its stream. *)
LEMMA RequestsOf ==
    ASSUME NEW t \in Threads, NEW r \in Requests(t)
    PROVE  \/ /\ stream[t] = NoFd
              /\ r \in OpenRequests \union PathRequests
           \/ /\ stream[t] # NoFd
              /\ descriptor[stream[t]].mode = "read"
              /\ r \in ReadRequests \union CloseRequests
           \/ /\ stream[t] # NoFd
              /\ descriptor[stream[t]].mode # "read"
              /\ r \in WriteRequests \union CloseRequests
<1>1. CASE stream[t] = NoFd
  BY <1>1, Zenon DEF Requests
<1>2. CASE stream[t] # NoFd /\ descriptor[stream[t]].mode = "read"
  BY <1>2, Zenon DEF Requests
<1>3. CASE stream[t] # NoFd /\ descriptor[stream[t]].mode # "read"
  BY <1>3, Zenon DEF Requests
<1>4. QED
  BY <1>1, <1>2, <1>3

AllRequests ==
    OpenRequests \union PathRequests \union ReadRequests \union WriteRequests
        \union CloseRequests

LEMMA RequestKinds ==
    ASSUME NEW r \in AllRequests
    PROVE  /\ r.op = "open" => r.file \in Files /\ r.mode \in Modes
           /\ r.op \in {"create", "delete"} => r.file \in Files
           /\ r.op \in {"read", "write"} => r.length \in 0 .. ArrayLength /\ r.immortal \in BOOLEAN
           /\ r.op = "write_byte" => r.data \in Bytes
           /\ r.op = "skip" => r.n \in Int
           /\ r.op \in {"open", "create", "delete"} => r \in OpenRequests \union PathRequests
           /\ r.op \in {"read", "read_byte", "skip", "available"} => r \in ReadRequests
           /\ r.op \in {"write", "write_byte"} => r \in WriteRequests
           /\ r.op = "close" => r \in CloseRequests
           /\ r.op \in {"open", "create", "delete", "read", "read_byte", "skip", "available",
                        "write", "write_byte", "close"}
           /\ r \in OpenRequests \union PathRequests => r.op \in {"open", "create", "delete"}
           /\ r \in ReadRequests => r.op \in {"read", "read_byte", "skip", "available"}
           /\ r \in WriteRequests => r.op \in {"write", "write_byte"}
           /\ r \in CloseRequests => r.op = "close"
<1>1. Lengths \subseteq 0 .. ArrayLength
  BY FileStreamsAssumption
<1>2. {ToInt64(x) : x \in SkipArguments} \subseteq Int
  BY FileStreamsAssumption, ToInt64Type, Widths
<1>3. QED
  BY <1>1, <1>2
     DEF AllRequests, OpenRequests, PathRequests, ReadRequests, WriteRequests, CloseRequests

(* What SNI_getArrayElements leaves in the job. *)
LEMMA ArrayElements ==
    ASSUME array \in [1 .. ArrayLength -> Bytes], NEW p \in JobParams, NEW r,
           r.length \in 0 .. ArrayLength, r.immortal \in BOOLEAN
    PROVE  LET q == GetArrayElements(p, r)
           IN  /\ q \in JobParams
               /\ ~r.immortal => q.length <= BufferSize
               /\ ~r.immortal /\ r.op = "write" =>
                     \A i \in 1 .. q.length : q.buffer[i] = array[i]
<1> DEFINE length == IF r.immortal THEN r.length ELSE Least(r.length, BufferSize)
           copied == Patched(p.buffer, 0, array, length)
           q == GetArrayElements(p, r)
           do_copy == r.op = "write" /\ ~r.immortal
<1>1. length \in 0 .. ArrayLength /\ (~r.immortal => length \in 0 .. BufferSize)
  BY Widths DEF Least
<1>2. ASSUME ~r.immortal
      PROVE  /\ copied \in [1 .. BufferSize -> Bytes \union {Junk}]
             /\ \A i \in 1 .. length : copied[i] = array[i]
  <2>1. \A i \in 1 .. length : array[i] \in Bytes /\ i \in 1 .. BufferSize
    BY <1>1, <1>2, Widths
  <2>2. p.buffer \in [1 .. BufferSize -> Bytes \union {Junk}] /\ Len(p.buffer) = BufferSize
    BY Widths DEF JobParams
  <2>3. copied = [i \in 1 .. BufferSize |-> IF i <= length THEN array[i] ELSE p.buffer[i]]
    BY <1>1, <1>2, <2>2, PatchedArray, Widths
  <2> HIDE DEF copied, length
  <2>4. QED
    BY <1>1, <1>2, <2>1, <2>2, <2>3, Widths
<1>3. q = [p EXCEPT !.length = length, !.buffer = IF do_copy THEN copied ELSE p.buffer]
  BY DEF GetArrayElements
<1> HIDE DEF length, copied, q
<1>4. q.length = length /\ q.buffer = IF do_copy THEN copied ELSE p.buffer
  BY <1>3 DEF JobParams
<1>5. q \in JobParams
  BY <1>1, <1>2, <1>3 DEF JobParams
<1>6. QED
  BY <1>1, <1>2, <1>4, <1>5 DEF q

LEMMA SetParamsIs ==
    ASSUME NEW p, NEW r
    PROVE  /\ r.op \in {"read", "write"} => SetParams(p, r) = GetArrayElements(p, r)
           /\ r.op = "read_byte" => SetParams(p, r) = [p EXCEPT !.length = 1]
           /\ r.op = "write_byte" =>
                 SetParams(p, r) = [p EXCEPT !.length = 1, !.buffer[1] = r.data]
           /\ r.op = "skip" => SetParams(p, r) = [p EXCEPT !.n = ToInt32(r.n)]
           /\ r.op \in {"open", "create", "delete", "available", "close"} =>
                 SetParams(p, r) = p
<1>1. CASE r.op \in {"read", "write"}
  BY <1>1, Zenon DEF SetParams
<1>2. CASE r.op = "read_byte"
  BY <1>2, Zenon DEF SetParams
<1>3. CASE r.op = "write_byte"
  BY <1>3, Zenon DEF SetParams
<1>4. CASE r.op = "skip"
  BY <1>4, Zenon DEF SetParams
<1>5. CASE r.op \in {"open", "create", "delete", "available", "close"}
  BY <1>5, Zenon DEF SetParams
<1>6. QED
  BY <1>1, <1>2, <1>3, <1>4, <1>5

(* What a native leaves in the job of its call. *)
LEMMA SetParamsFits ==
    ASSUME array \in [1 .. ArrayLength -> Bytes], NEW p \in JobParams,
           NEW r \in AllRequests, NEW g, r.op = "write" => g = array
    PROVE  SetParams(p, r) \in JobParams /\ JobFits(r, SetParams(p, r), g)
<1> DEFINE q == SetParams(p, r)
<1>1. CASE r.op \in {"read", "write"}
  <2>1. q = GetArrayElements(p, r)
    BY <1>1, SetParamsIs
  <2>2. r.length \in 0 .. ArrayLength /\ r.immortal \in BOOLEAN
    BY <1>1, RequestKinds
  <2> HIDE DEF q
  <2>3. /\ q \in JobParams
        /\ ~r.immortal => q.length <= BufferSize
        /\ ~r.immortal /\ r.op = "write" =>
              \A i \in 1 .. q.length : q.buffer[i] = array[i]
    <3>1. LET a == GetArrayElements(p, r)
          IN  /\ a \in JobParams
              /\ ~r.immortal => a.length <= BufferSize
              /\ ~r.immortal /\ r.op = "write" =>
                    \A i \in 1 .. a.length : a.buffer[i] = array[i]
      BY <2>2, ArrayElements, Zenon
    <3>2. QED
      BY <2>1, <3>1, Zenon
  <2>4. JobFits(r, q, g)
    BY <1>1, <2>3, Zenon DEF JobFits, Copied
  <2>5. QED
    BY <2>3, <2>4, Zenon DEF q
<1>2. CASE r.op = "read_byte"
  <2>1. q = [p EXCEPT !.length = 1]
    BY <1>2, SetParamsIs
  <2> HIDE DEF q
  <2>2. 1 \in 0 .. ArrayLength
    BY Widths
  <2>3. q \in JobParams /\ q.length = 1
    BY <2>1, <2>2 DEF JobParams
  <2>4. JobFits(r, q, g)
    BY <1>2, <2>3, Zenon DEF JobFits, Copied
  <2>5. QED
    BY <2>3, <2>4, Zenon DEF q
<1>3. CASE r.op = "write_byte"
  <2>1. q = [p EXCEPT !.length = 1, !.buffer[1] = r.data]
    BY <1>3, SetParamsIs
  <2>2. r.data \in Bytes /\ 1 \in 1 .. BufferSize
    BY <1>3, RequestKinds, Widths
  <2> HIDE DEF q
  <2>3. q \in JobParams /\ q.length = 1 /\ q.buffer[1] = r.data
    <3>1. p.buffer \in [1 .. BufferSize -> Bytes \union {Junk}] /\ 1 \in 0 .. ArrayLength
      BY Widths DEF JobParams
    <3>2. /\ [p.buffer EXCEPT ![1] = r.data] \in [1 .. BufferSize -> Bytes \union {Junk}]
          /\ [p.buffer EXCEPT ![1] = r.data][1] = r.data
      BY <2>2, <3>1
    <3>3. q = [p EXCEPT !.length = 1, !.buffer = [p.buffer EXCEPT ![1] = r.data]]
      BY <2>1 DEF JobParams
    <3>4. QED
      BY <3>1, <3>2, <3>3 DEF JobParams
  <2>4. QED
    BY <1>3, <2>2, <2>3 DEF q, JobFits, Copied
<1>4. CASE r.op = "skip"
  <2>1. q = [p EXCEPT !.n = ToInt32(r.n)]
    BY <1>4, SetParamsIs
  <2>2. ToInt32(r.n) \in Int32
    BY <1>4, RequestKinds, ToInt32Type
  <2> HIDE DEF q
  <2>3. q \in JobParams /\ q.n = ToInt32(r.n)
    BY <2>1, <2>2 DEF JobParams
  <2>4. QED
    BY <1>4, <2>3 DEF q, JobFits, Copied
<1>5. CASE r.op \in {"open", "create", "delete", "available", "close"}
  <2>1. q = p
    BY <1>5, SetParamsIs
  <2>2. QED
    BY <1>5, <2>1 DEF JobFits, Copied
<1>6. QED
  BY <1>1, <1>2, <1>3, <1>4, <1>5, RequestKinds

(* The descriptors a thread holds, before and after a step. *)
HeldShape ==
    \A t \in Threads :
        /\ call[t] # "done" => Held(t) = {stream[t]} \ {NoFd}
        /\ request[t].op \notin {"open", "close"} => Held(t) = {stream[t]} \ {NoFd}
        /\ call[t] = "done" /\ request[t].op = "open" =>
              Held(t) = IF params[t].result # NOK THEN {params[t].result}
                        ELSE {stream[t]} \ {NoFd}
        /\ call[t] = "done" /\ request[t].op = "close" => Held(t) = {}

LEMMA HeldIs == HeldShape
<1> SUFFICES ASSUME NEW t \in Threads
             PROVE  /\ call[t] # "done" => Held(t) = {stream[t]} \ {NoFd}
                    /\ request[t].op \notin {"open", "close"} =>
                          Held(t) = {stream[t]} \ {NoFd}
                    /\ call[t] = "done" /\ request[t].op = "open" =>
                          Held(t) = IF params[t].result # NOK THEN {params[t].result}
                                    ELSE {stream[t]} \ {NoFd}
                    /\ call[t] = "done" /\ request[t].op = "close" => Held(t) = {}
  BY DEF HeldShape
<1>1. call[t] # "done" => Held(t) = {stream[t]} \ {NoFd}
  BY Zenon DEF Held
<1>2. request[t].op \notin {"open", "close"} => Held(t) = {stream[t]} \ {NoFd}
  BY Zenon DEF Held
<1>3. CASE call[t] = "done" /\ request[t].op = "open" /\ params[t].result # NOK
  BY <1>3, Zenon DEF Held
<1>4. CASE call[t] = "done" /\ request[t].op = "open" /\ params[t].result = NOK
  BY <1>4, Zenon DEF Held
<1>5. CASE call[t] = "done" /\ request[t].op = "close"
  BY <1>5, Zenon DEF Held
<1>6. QED
  BY <1>1, <1>2, <1>3, <1>4, <1>5

LEMMA HeldIsNext == HeldShape'
BY HeldIs, PTL

LEMMA StreamDoneIs ==
    ASSUME NEW t \in Threads
    PROVE  /\ request[t].op = "open" /\ params[t].result # NOK =>
                 StreamDone(t) = params[t].result
           /\ request[t].op = "open" /\ params[t].result = NOK => StreamDone(t) = stream[t]
           /\ request[t].op = "close" => StreamDone(t) = NoFd
           /\ request[t].op \notin {"open", "close"} => StreamDone(t) = stream[t]
<1>1. CASE request[t].op = "open" /\ params[t].result # NOK
  BY <1>1, Zenon DEF StreamDone
<1>2. CASE request[t].op = "open" /\ params[t].result = NOK
  BY <1>2, Zenon DEF StreamDone
<1>3. CASE request[t].op = "close"
  BY <1>3, Zenon DEF StreamDone
<1>4. CASE request[t].op \notin {"open", "close"}
  BY <1>4, Zenon DEF StreamDone
<1>5. QED
  BY <1>1, <1>2, <1>3, <1>4

-----------------------------------------------------------------------------
(* The steps.                                                               *)

LEMMA InitInv == Init => IInv
<1> SUFFICES ASSUME Init
             PROVE  IInv
  OBVIOUS
<1>1. OpenFds = {}
  BY DEF Init, OpenFds
<1>2. DescriptorsOwned
  BY <1>1, HeldIs DEF Init, DescriptorsOwned, HeldShape
<1>3. TypeOK
  <2>1. NoParams \in JobParams
    BY Int32Is, Widths DEF NoParams, JobParams
  <2>2. Closed \in [file : Files \union {NoFile}, mode : Modes, position : 0 .. Int32Max]
    BY Widths DEF Closed, Modes
  <2>3. Zeros \in [1 .. ArrayLength -> Bytes]
    BY DEF Zeros, Bytes
  <2>4. \A f \in Files : content[f] \in Seq(Bytes) /\ Len(content[f]) <= MaxSize
    BY Widths DEF Init
  <2>5. content \in [Files -> Seq(Bytes)]
    BY <2>4 DEF Init
  <2>6. QED
    BY <2>1, <2>2, <2>3, <2>4, <2>5 DEF Init, TypeOK, JobParams
<1>4. QED
  BY <1>1, <1>2, <1>3
     DEF Init, IInv, QueuedCalls, RequestsFit, ParamsFit, AnswersFit, DescriptorsFit

(* Java code reads and writes what no native is to see before its call. *)
LEMMA JavaWritesInv ==
    ASSUME IInv, JavaWrites
    PROVE  IInv'
<1>1. array' \in [1 .. ArrayLength -> Bytes]
  BY DEF JavaWrites
<1>2. UNCHANGED <<call_vars, file_vars, descriptor, stream, given>>
  BY DEF JavaWrites
<1>3. TypeOK'
  BY <1>1, <1>2 DEF IInv, TypeOK, call_vars, file_vars
<1>4. QueuedCalls' /\ RequestsFit' /\ ParamsFit' /\ AnswersFit'
  BY <1>2 DEF IInv, QueuedCalls, RequestsFit, ParamsFit, AnswersFit, call_vars, Fits
<1>5. DescriptorsFit'
  BY <1>2 DEF IInv, DescriptorsFit, OpenFds
<1>6. DescriptorsOwned'
  BY <1>2 DEF IInv, DescriptorsOwned, Held, OpenFds, call_vars
<1>7. QED
  BY <1>3, <1>4, <1>5, <1>6 DEF IInv

(* A queue grows by a call that was not in it. *)
LEMMA QueueGrows ==
    ASSUME TypeOK, QueuedCalls, NEW t \in Threads, call[t] # "posted",
           call' = [call EXCEPT ![t] = "posted"], queue' = Append(queue, t)
    PROVE  queue' \in Seq(Threads) /\ QueuedCalls'
<1>1. /\ Len(queue) \in Nat
      /\ Len(queue') = Len(queue) + 1
      /\ queue'[Len(queue) + 1] = t
      /\ \A i \in 1 .. Len(queue) : queue'[i] = queue[i] /\ queue[i] \in Threads /\ queue[i] # t
  BY DEF TypeOK, QueuedCalls
<1>2. \A i \in 1 .. Len(queue') : i \in 1 .. Len(queue) \/ i = Len(queue) + 1
  BY <1>1
<1>3. \A i \in 1 .. Len(queue') : call'[queue'[i]] = "posted"
  BY <1>1, <1>2 DEF TypeOK, QueuedCalls
<1>4. \A i, k \in 1 .. Len(queue') : queue'[i] = queue'[k] => i = k
  BY <1>1, <1>2 DEF QueuedCalls
<1>5. QED
  BY <1>3, <1>4 DEF TypeOK, QueuedCalls

LEMMA QueueShrinks ==
    ASSUME TypeOK, QueuedCalls, queue # <<>>, NEW t, t = Head(queue),
           call' = [call EXCEPT ![t] = "done"], queue' = Tail(queue)
    PROVE  /\ t \in Threads /\ call[t] = "posted"
           /\ queue' \in Seq(Threads) /\ QueuedCalls'
<1>1. /\ Len(queue) \in Nat \ {0}
      /\ t = queue[1]
      /\ Len(queue') = Len(queue) - 1
      /\ \A i \in 1 .. Len(queue') : queue'[i] = queue[i + 1]
      /\ \A i \in 1 .. Len(queue) : queue[i] \in Threads
  BY DEF TypeOK
<1>2. t \in Threads /\ call[t] = "posted"
  BY <1>1 DEF QueuedCalls
<1>3. \A i \in 1 .. Len(queue') : i + 1 \in 1 .. Len(queue) /\ queue[i + 1] # t
  BY <1>1 DEF QueuedCalls
<1>4. \A i \in 1 .. Len(queue') : call'[queue'[i]] = "posted"
  BY <1>1, <1>3 DEF TypeOK, QueuedCalls
<1>5. \A i, k \in 1 .. Len(queue') : queue'[i] = queue'[k] => i = k
  <2>1. \A i, k \in 1 .. Len(queue') : queue'[i] = queue'[k] => i + 1 = k + 1
    BY <1>1, <1>3 DEF QueuedCalls
  <2>2. QED
    BY <1>1, <2>1
<1>6. QED
  BY <1>2, <1>4, <1>5 DEF TypeOK, QueuedCalls

LEMMA NativeInv ==
    ASSUME IInv, NEW t \in Threads, Native(t)
    PROVE  IInv'
<1>i. TypeOK /\ QueuedCalls /\ RequestsFit /\ ParamsFit /\ AnswersFit /\ DescriptorsFit
      /\ DescriptorsOwned
  BY DEF IInv
<1>1. PICK r \in Requests(t) :
        /\ request' = [request EXCEPT ![t] = r]
        /\ params' = [params EXCEPT ![t] = SetParams(params[t], r)]
        /\ given' = [given EXCEPT ![t] = IF r.op = "write" THEN array ELSE given[t]]
  BY DEF Native
<1>2. /\ call[t] = "java"
      /\ call' = [call EXCEPT ![t] = "posted"]
      /\ queue' = Append(queue, t)
      /\ UNCHANGED <<exists, content, descriptor, stream, array>>
  BY DEF Native, file_vars
<1>3. r \in AllRequests
  BY RequestsOf DEF AllRequests
<1>4. queue' \in Seq(Threads) /\ QueuedCalls'
  BY <1>2, <1>i, QueueGrows
<1>5. /\ call'[t] = "posted" /\ request'[t] = r
      /\ params'[t] = SetParams(params[t], r)
      /\ given'[t] = IF r.op = "write" THEN array ELSE given[t]
      /\ \A u \in Threads : u # t => /\ call'[u] = call[u]
                                     /\ request'[u] = request[u]
                                     /\ params'[u] = params[u]
                                     /\ given'[u] = given[u]
  BY <1>1, <1>2, <1>i DEF TypeOK
<1>6. SetParams(params[t], r) \in JobParams /\ JobFits(r, SetParams(params[t], r), given'[t])
  BY <1>3, <1>5, <1>i, SetParamsFits DEF TypeOK, JobParams
<1>7. TypeOK'
  <2>1. request' \in [Threads -> {NoRequest} \union OpenRequests \union PathRequests
                                    \union ReadRequests \union WriteRequests
                                    \union CloseRequests]
    BY <1>1, <1>3, <1>i DEF TypeOK, AllRequests
  <2>2. params' \in [Threads -> JobParams]
    BY <1>1, <1>6, <1>i DEF TypeOK, JobParams
  <2>3. call' \in [Threads -> {"java", "posted", "done"}]
    BY <1>2, <1>i DEF TypeOK
  <2>4. given' \in [Threads -> [1 .. ArrayLength -> Bytes]]
    BY <1>1, <1>i DEF TypeOK
  <2>5. QED
    BY <1>2, <1>4, <1>i, <2>1, <2>2, <2>3, <2>4 DEF TypeOK, JobParams
<1>8. RequestsFit'
  <2>1. Fits(t)'
    BY <1>2, <1>5, RequestsOf DEF Fits
  <2>2. ASSUME NEW u \in Threads, u # t, call'[u] = "posted"
        PROVE  Fits(u)'
    BY <1>2, <1>5, <1>i, <2>2 DEF RequestsFit, Fits
  <2>3. QED
    BY <2>1, <2>2 DEF RequestsFit
<1>9. ParamsFit'
  BY <1>5, <1>6, <1>i DEF ParamsFit
<1>10. AnswersFit'
  BY <1>5, <1>i DEF AnswersFit
<1>11. DescriptorsFit'
  BY <1>2, <1>i DEF DescriptorsFit, OpenFds
<1>12. DescriptorsOwned'
  <2>1. \A u \in Threads : Held(u)' = Held(u)
    <3>1. \A u \in Threads : u # t => Held(u)' = Held(u)
      BY <1>2, <1>5 DEF Held
    <3>2. Held(t) = {stream[t]} \ {NoFd}
      BY <1>2, HeldIs DEF HeldShape
    <3>3. Held(t)' = {stream[t]} \ {NoFd}
      BY <1>2, <1>5, HeldIsNext DEF HeldShape
    <3>4. QED
      BY <3>1, <3>2, <3>3
  <2>2. OpenFds' = OpenFds
    BY <1>2 DEF OpenFds
  <2>3. QED
    BY <1>i, <2>1, <2>2 DEF DescriptorsOwned
<1>13. QED
  BY <1>4, <1>7, <1>8, <1>9, <1>10, <1>11, <1>12 DEF IInv
(* What every action finds, and what it leaves alone. *)
LEMMA ExecutesFinds ==
    ASSUME IInv, NEW t, NEW op, Executes(t, op)
    PROVE  /\ t \in Threads
           /\ call[t] = "posted"
           /\ request[t] \in AllRequests /\ request[t].op = op
           /\ Fits(t)
           /\ params[t] \in JobParams /\ JobFits(request[t], params[t], given[t])
           /\ stream[t] # NoFd => stream[t] \in OpenFds
           /\ stream[t] # NoFd <=> op \notin {"open", "create", "delete"}
<1>i. TypeOK /\ QueuedCalls /\ RequestsFit /\ ParamsFit /\ DescriptorsOwned
  BY DEF IInv
<1>1. t \in Threads /\ call[t] = "posted" /\ request[t].op = op
  BY <1>i, QueueShrinks DEF Executes
<1>2. Fits(t)
  BY <1>1, <1>i DEF RequestsFit
<1>3. request[t] \in AllRequests
  BY <1>2 DEF Fits, AllRequests
<1>4. Held(t) = {stream[t]} \ {NoFd}
  BY <1>1, HeldIs DEF HeldShape
<1>5. stream[t] # NoFd => stream[t] \in OpenFds
  BY <1>1, <1>4, <1>i DEF DescriptorsOwned
<1>6. stream[t] # NoFd <=> op \notin {"open", "create", "delete"}
  BY <1>1, <1>2, <1>3, RequestKinds DEF Fits
<1>7. QED
  BY <1>1, <1>2, <1>3, <1>5, <1>6, <1>i DEF ParamsFit, TypeOK, JobParams

(* An action keeps the invariant if its answer fits, the descriptors of     *)
(* other threads stay as they were opened, and those that open and close    *)
(* are those that the thread comes to hold and no longer holds.             *)
LEMMA ActionInv ==
    ASSUME IInv, NEW t, NEW op, Executes(t, op),
           params' \in [Threads -> JobParams],
           \A u \in Threads : u # t => params'[u] = params[u],
           AnswerFits(request[t], params'[t]),
           exists' \in [Files -> BOOLEAN],
           content' \in [Files -> Seq(Bytes)],
           \A f \in Files : Len(content'[f]) <= MaxSize,
           descriptor' \in [Fds -> [file : Files \union {NoFile}, mode : Modes,
                                    position : 0 .. Int32Max]],
           array' \in [1 .. ArrayLength -> Bytes],
           \A fd \in OpenFds : fd # stream[t] => descriptor'[fd].mode = descriptor[fd].mode,
           DescriptorsFit',
           Held(t)' \subseteq OpenFds',
           OpenFds' \ Held(t)' = OpenFds \ Held(t)
    PROVE  IInv'
<1>i. TypeOK /\ QueuedCalls /\ RequestsFit /\ ParamsFit /\ AnswersFit /\ DescriptorsFit
      /\ DescriptorsOwned
  BY DEF IInv
<1>1. t \in Threads /\ call[t] = "posted" /\ request' = request /\ stream' = stream
  BY ExecutesFinds DEF Executes
<1>2. /\ call'[t] = "done"
      /\ \A u \in Threads : u # t => call'[u] = call[u] /\ given'[u] = given[u]
      /\ call' \in [Threads -> {"java", "posted", "done"}]
      /\ given' \in [Threads -> [1 .. ArrayLength -> Bytes]]
  BY <1>1, <1>i DEF Executes, TypeOK, Zeros, Bytes
<1>3. queue' \in Seq(Threads) /\ QueuedCalls'
  BY <1>i, QueueShrinks DEF Executes
<1>4. TypeOK'
  BY <1>1, <1>2, <1>3, <1>i DEF TypeOK, JobParams
<1>5. UNION {Held(u) : u \in Threads} = OpenFds
      /\ \A u, v \in Threads : u # v => Held(u) \intersect Held(v) = {}
  BY <1>i DEF DescriptorsOwned
<1>6. RequestsFit'
  <2> SUFFICES ASSUME NEW u \in Threads, call'[u] = "posted"
               PROVE  Fits(u)'
    BY DEF RequestsFit
  <2>1. u # t /\ call[u] = "posted" /\ Fits(u)
    BY <1>2, <1>i DEF RequestsFit
  <2>2. CASE stream[u] = NoFd
    BY <1>1, <2>1, <2>2 DEF Fits
  <2>3. CASE stream[u] # NoFd
    <3>1. Held(u) = {stream[u]} \ {NoFd} /\ Held(t) = {stream[t]} \ {NoFd}
      BY <1>1, <2>1, HeldIs DEF HeldShape
    <3>2. stream[u] \in OpenFds
      BY <1>5, <2>3, <3>1
    <3>3. stream[u] # stream[t]
      BY <1>1, <1>5, <2>1, <2>3, <3>1
    <3>4. descriptor'[stream[u]].mode = descriptor[stream[u]].mode
      BY <3>2, <3>3
    <3>5. QED
      BY <1>1, <2>1, <2>3, <3>4 DEF Fits
  <2>4. QED
    BY <2>2, <2>3
<1>7. ParamsFit'
  BY <1>1, <1>2, <1>i DEF ParamsFit
<1>8. AnswersFit'
  BY <1>1, <1>2, <1>i DEF AnswersFit
<1>9. DescriptorsOwned'
  <2>1. \A u \in Threads : u # t => Held(u)' = Held(u)
    BY <1>1, <1>2 DEF Held
  <2>2. UNION {Held(u)' : u \in Threads} = OpenFds'
    <3>1. \A u \in Threads : u # t => Held(u) \subseteq OpenFds \ Held(t)
      BY <1>1, <1>5
    <3>2. \A fd \in OpenFds \ Held(t) : \E u \in Threads : u # t /\ fd \in Held(u)
      BY <1>5
    <3>3. ASSUME NEW fd \in OpenFds'
          PROVE  \E u \in Threads : fd \in Held(u)'
      <4>1. CASE fd \in Held(t)'
        BY <1>1, <4>1
      <4>2. CASE fd \notin Held(t)'
        BY <2>1, <3>2, <3>3, <4>2
      <4>3. QED
        BY <4>1, <4>2
    <3>4. ASSUME NEW u \in Threads
          PROVE  Held(u)' \subseteq OpenFds'
      BY <2>1, <3>1
    <3>5. QED
      BY <3>3, <3>4
  <2>3. ASSUME NEW u \in Threads, NEW v \in Threads, u # v
        PROVE  Held(u)' \intersect Held(v)' = {}
    BY <1>5, <2>1, <2>3
  <2>4. QED
    BY <2>2, <2>3 DEF DescriptorsOwned
<1>10. QED
  BY <1>3, <1>4, <1>6, <1>7, <1>8, <1>9 DEF IInv

(* The actions that open and close nothing. *)
LEMMA MovesInv ==
    ASSUME IInv, NEW t, NEW op, Executes(t, op), op # "close",
           params' \in [Threads -> JobParams],
           \A u \in Threads : u # t => params'[u] = params[u],
           AnswerFits(request[t], params'[t]),
           op = "open" => params'[t].result = NOK,
           exists' \in [Files -> BOOLEAN],
           content' \in [Files -> Seq(Bytes)],
           \A f \in Files : Len(content'[f]) <= MaxSize,
           array' \in [1 .. ArrayLength -> Bytes],
           \/ UNCHANGED descriptor
           \/ /\ stream[t] # NoFd
              /\ \E at \in 0 .. Int32Max :
                    /\ descriptor[stream[t]].mode # "read" => at <= MaxSize
                    /\ descriptor' = [descriptor EXCEPT ![stream[t]].position = at]
    PROVE  IInv'
<1>i. TypeOK /\ DescriptorsFit
  BY DEF IInv
<1>1. /\ t \in Threads /\ call[t] = "posted" /\ call'[t] = "done"
      /\ request' = request /\ stream' = stream /\ request[t].op = op
      /\ stream[t] # NoFd => stream[t] \in OpenFds
  BY <1>i, ExecutesFinds DEF Executes, TypeOK
<1>2. /\ descriptor' \in [Fds -> [file : Files \union {NoFile}, mode : Modes,
                                  position : 0 .. Int32Max]]
      /\ \A fd \in Fds : /\ descriptor'[fd].file = descriptor[fd].file
                         /\ descriptor'[fd].mode = descriptor[fd].mode
                         /\ \/ descriptor'[fd] = descriptor[fd]
                            \/ /\ fd \in OpenFds
                               /\ descriptor[fd].mode # "read" =>
                                     descriptor'[fd].position <= MaxSize
  <2>1. CASE UNCHANGED descriptor
    BY <1>i, <2>1 DEF TypeOK
  <2>2. CASE ~UNCHANGED descriptor
    <3>1. PICK at \in 0 .. Int32Max :
            /\ descriptor[stream[t]].mode # "read" => at <= MaxSize
            /\ descriptor' = [descriptor EXCEPT ![stream[t]].position = at]
      BY <2>2
    <3>2. stream[t] \in OpenFds /\ stream[t] \in Fds
      BY <1>1, <2>2 DEF OpenFds
    <3>3. descriptor' = [descriptor EXCEPT ![stream[t]] =
                            [file |-> descriptor[stream[t]].file,
                             mode |-> descriptor[stream[t]].mode, position |-> at]]
      BY <1>i, <3>1, <3>2 DEF TypeOK
    <3>4. QED
      BY <1>i, <3>1, <3>2, <3>3, SMTT(20) DEF TypeOK
  <2>3. QED
    BY <2>1, <2>2
<1>3. \A fd \in Fds : fd \in OpenFds => descriptor[fd].file # NoFile
  BY <1>i, FileStreamsAssumption DEF DescriptorsFit
<1>4. OpenFds' = OpenFds
  BY <1>2, <1>3 DEF OpenFds, Closed
<1>5. DescriptorsFit'
  BY <1>2, <1>4, <1>i DEF DescriptorsFit, OpenFds
<1>6. Held(t) = {stream[t]} \ {NoFd}
  BY <1>1, HeldIs DEF HeldShape
<1>7. Held(t)' = {stream[t]} \ {NoFd}
  BY <1>1, HeldIsNext DEF HeldShape
<1>8. Held(t)' \subseteq OpenFds' /\ OpenFds' \ Held(t)' = OpenFds \ Held(t)
  BY <1>1, <1>4, <1>6, <1>7
<1>9. \A fd \in OpenFds : fd # stream[t] => descriptor'[fd].mode = descriptor[fd].mode
  BY <1>2 DEF OpenFds
<1>10. QED
  BY <1>2, <1>5, <1>8, <1>9, ActionInv
-----------------------------------------------------------------------------
(* The actions, one by one.                                                 *)

LEMMA AnswersTyped ==
    /\ {OK, NOK, EOF, NOT_CREATED} \subseteq Int32
    /\ 0 .. Int32Max \subseteq Int32
    /\ \A x \in Int32 : x \in Int
BY Int32Is, Widths DEF OK, NOK, EOF, NOT_CREATED

LEMMA AnswersIs ==
    ASSUME params \in [Threads -> JobParams], NEW t \in Threads, NEW result \in Int32,
           Answers(t, result)
    PROVE  /\ params' \in [Threads -> JobParams]
           /\ \A u \in Threads : u # t => params'[u] = params[u]
           /\ params'[t].result = result
           /\ params'[t].buffer = params[t].buffer
<1>1. params' = [params EXCEPT ![t] = [params[t] EXCEPT !.result = result]]
  BY DEF Answers
<1>2. /\ [params[t] EXCEPT !.result = result] \in JobParams
      /\ [params[t] EXCEPT !.result = result].result = result
      /\ [params[t] EXCEPT !.result = result].buffer = params[t].buffer
  BY DEF JobParams
<1>3. QED
  BY <1>1, <1>2

(* A file's content is replaced. *)
LEMMA ContentWith ==
    ASSUME TypeOK, NEW f \in Files, NEW s \in Seq(Bytes), Len(s) <= MaxSize,
           content' = [content EXCEPT ![f] = s]
    PROVE  /\ content' \in [Files -> Seq(Bytes)]
           /\ \A g \in Files : Len(content'[g]) <= MaxSize
<1>1. \A g \in Files : content'[g] = IF g = f THEN s ELSE content[g]
  BY DEF TypeOK
<1>2. ASSUME NEW g \in Files
      PROVE  content'[g] \in Seq(Bytes) /\ Len(content'[g]) <= MaxSize
  <2>1. CASE g = f
    BY <1>1, <2>1
  <2>2. CASE g # f
    BY <1>1, <2>2 DEF TypeOK
  <2>3. QED
    BY <2>1, <2>2
<1>3. content' = [g \in Files |-> content'[g]]
  BY DEF TypeOK
<1>4. QED
  BY <1>2, <1>3

LEMMA FailsInv ==
    ASSUME IInv, NEW t, NEW op, Executes(t, op), op # "close", Fails(t)
    PROVE  IInv'
<1>1. t \in Threads /\ params \in [Threads -> JobParams]
  BY ExecutesFinds DEF IInv, TypeOK, JobParams
<1>2. /\ params' \in [Threads -> JobParams]
      /\ \A u \in Threads : u # t => params'[u] = params[u]
      /\ params'[t].result = NOK
  BY <1>1, AnswersIs, AnswersTyped DEF Fails
<1>3. AnswerFits(request[t], params'[t])
  BY <1>2 DEF AnswerFits
<1>4. UNCHANGED <<exists, content, descriptor, array>>
  BY DEF Fails, file_vars
<1>5. /\ exists' \in [Files -> BOOLEAN]
      /\ content' \in [Files -> Seq(Bytes)]
      /\ \A f \in Files : Len(content'[f]) <= MaxSize
      /\ array' \in [1 .. ArrayLength -> Bytes]
  BY <1>4 DEF IInv, TypeOK
<1>6. QED
  BY <1>2, <1>3, <1>4, <1>5, MovesInv

LEMMA CreateInv ==
    ASSUME IInv, NEW t, Create(t)
    PROVE  IInv'
<1>1. /\ Executes(t, "create") /\ t \in Threads /\ params \in [Threads -> JobParams]
      /\ request[t].op = "create" /\ request[t].file \in Files
  BY ExecutesFinds, RequestKinds DEF Create, IInv, TypeOK, JobParams
<1>2. CASE Fails(t)
  BY <1>1, <1>2, FailsInv
<1>3. CASE ~Fails(t)
  <2>1. /\ \E result \in Int32 : Answers(t, result)
        /\ UNCHANGED <<content, descriptor, array>>
        /\ exists' \in [Files -> BOOLEAN]
    BY <1>1, <1>3, AnswersTyped DEF Create, IInv, TypeOK, file_vars
  <2>2. /\ params' \in [Threads -> JobParams]
        /\ \A u \in Threads : u # t => params'[u] = params[u]
    BY <1>1, <2>1, AnswersIs
  <2>3. AnswerFits(request[t], params'[t])
    BY <1>1 DEF AnswerFits, Copied
  <2>4. /\ content' \in [Files -> Seq(Bytes)]
        /\ \A f \in Files : Len(content'[f]) <= MaxSize
        /\ array' \in [1 .. ArrayLength -> Bytes]
    BY <2>1 DEF IInv, TypeOK
  <2>5. QED
    BY <1>1, <2>1, <2>2, <2>3, <2>4, MovesInv
<1>4. QED
  BY <1>2, <1>3

LEMMA DeleteInv ==
    ASSUME IInv, NEW t, Delete(t)
    PROVE  IInv'
<1>1. /\ Executes(t, "delete") /\ t \in Threads /\ params \in [Threads -> JobParams]
      /\ request[t].op = "delete" /\ request[t].file \in Files
  BY ExecutesFinds, RequestKinds DEF Delete, IInv, TypeOK, JobParams
<1>2. CASE Fails(t)
  BY <1>1, <1>2, FailsInv
<1>3. CASE ~Fails(t)
  <2>1. /\ Answers(t, OK)
        /\ UNCHANGED <<descriptor, array>>
        /\ exists' = [exists EXCEPT ![request[t].file] = FALSE]
        /\ content' = [content EXCEPT ![request[t].file] = <<>>]
    BY <1>3 DEF Delete
  <2>2. /\ params' \in [Threads -> JobParams]
        /\ \A u \in Threads : u # t => params'[u] = params[u]
    BY <1>1, <2>1, AnswersIs, AnswersTyped
  <2>3. AnswerFits(request[t], params'[t])
    BY <1>1 DEF AnswerFits, Copied
  <2>4. /\ exists' \in [Files -> BOOLEAN]
        /\ array' \in [1 .. ArrayLength -> Bytes]
    BY <1>1, <2>1 DEF IInv, TypeOK
  <2>5. /\ content' \in [Files -> Seq(Bytes)]
        /\ \A f \in Files : Len(content'[f]) <= MaxSize
    <3>1. <<>> \in Seq(Bytes) /\ Len(<<>>) <= MaxSize
      BY Widths
    <3>2. QED
      BY <1>1, <2>1, <3>1, ContentWith DEF IInv
  <2>6. QED
    BY <1>1, <2>1, <2>2, <2>3, <2>4, <2>5, MovesInv
<1>4. QED
  BY <1>2, <1>3

(* What FS_size_of_file may give back: it leaves the stream where it was or *)
(* at the end, and gives the size if it gives no error.                     *)
LEMMA SizesOfFile ==
    ASSUME NEW d, NEW file \in SizeOfFile(d)
    PROVE  /\ file.position \in {d.position, Len(content[d.file])}
           /\ file.res = OK => file.size = Len(content[d.file])
           /\ file.size \in {0, Len(content[d.file])}
BY DEF SizeOfFile, OK, NOK

LEMMA AvailableInv ==
    ASSUME IInv, NEW t, Available(t)
    PROVE  IInv'
<1>1. /\ Executes(t, "available") /\ t \in Threads /\ params \in [Threads -> JobParams]
      /\ request[t] \in AllRequests /\ Fits(t)
      /\ request[t].op = "available" /\ stream[t] # NoFd /\ stream[t] \in OpenFds
  BY ExecutesFinds DEF Available, IInv, TypeOK, JobParams
<1> DEFINE d == descriptor[stream[t]]
           size == Len(content[d.file])
<1>2. /\ stream[t] \in Fds /\ d.file \in Files /\ d.position \in 0 .. Int32Max
      /\ d.mode = "read"
  BY <1>1, RequestKinds DEF IInv, DescriptorsFit, OpenFds, TypeOK, Fits
<1>3. size \in 0 .. Int32Max
  BY <1>2, Widths DEF IInv, TypeOK
<1>4. PICK file \in SizeOfFile(d), seeks \in BOOLEAN :
        /\ descriptor' = [descriptor EXCEPT ![stream[t]].position = file.position]
        /\ Answers(t, IF seeks /\ file.res = OK
                        THEN ToInt32(ToUint64(file.size - file.position)) ELSE NOK)
  BY DEF Available
<1>5. file.position \in 0 .. Int32Max /\ file.size \in 0 .. Int32Max
  <2>1. /\ file.position \in {d.position, Len(content[d.file])}
        /\ file.size \in {0, Len(content[d.file])}
    BY SizesOfFile
  <2>2. 0 \in 0 .. Int32Max
    BY Widths
  <2>3. QED
    BY <1>2, <1>3, <2>1, <2>2
<1> DEFINE result == IF seeks /\ file.res = OK
                       THEN ToInt32(ToUint64(file.size - file.position)) ELSE NOK
<1>6. result \in Int32
  <2>1. file.size - file.position \in Int
    BY <1>5, Widths
  <2>2. ToUint64(file.size - file.position) \in Int
    BY <2>1, ToUint64Of, Widths
  <2>3. QED
    BY <2>2, ToInt32Type, AnswersTyped
<1>7. UNCHANGED <<exists, content, array>>
  BY DEF Available, file_vars
<1> HIDE DEF result
<1>8. Answers(t, result)
  BY <1>4 DEF result
<1>9. /\ params' \in [Threads -> JobParams]
      /\ \A u \in Threads : u # t => params'[u] = params[u]
  BY <1>1, <1>6, <1>8, AnswersIs
<1>10. AnswerFits(request[t], params'[t])
  BY <1>1 DEF AnswerFits, Copied
<1>11. /\ exists' \in [Files -> BOOLEAN]
       /\ content' \in [Files -> Seq(Bytes)]
       /\ \A f \in Files : Len(content'[f]) <= MaxSize
       /\ array' \in [1 .. ArrayLength -> Bytes]
  BY <1>7 DEF IInv, TypeOK
<1>12. \E at \in 0 .. Int32Max :
         /\ d.mode # "read" => at <= MaxSize
         /\ descriptor' = [descriptor EXCEPT ![stream[t]].position = at]
  BY <1>2, <1>4, <1>5
<1>13. QED
  BY <1>1, <1>9, <1>10, <1>11, <1>12, MovesInv

LEMMA SkipInv ==
    ASSUME IInv, NEW t, Skip(t)
    PROVE  IInv'
<1>1. /\ Executes(t, "skip") /\ t \in Threads /\ params \in [Threads -> JobParams]
      /\ request[t].op = "skip" /\ stream[t] # NoFd /\ stream[t] \in OpenFds
  BY ExecutesFinds DEF Skip, IInv, TypeOK, JobParams
<1>2. request[t] \in AllRequests /\ Fits(t)
  BY <1>1, ExecutesFinds
<1> DEFINE d == descriptor[stream[t]]
           size == Len(content[d.file])
<1>3. stream[t] \in Fds /\ d.file \in Files /\ d.position \in 0 .. Int32Max
  BY <1>1 DEF IInv, DescriptorsFit, OpenFds, TypeOK
<1>4. d.mode = "read"
  BY <1>1, <1>2, RequestKinds DEF Fits
<1>5. params[t].n \in Int32 /\ size \in 0 .. Int32Max
  BY <1>1, <1>3, Widths DEF JobParams, IInv, TypeOK
<1>6. PICK file \in SizeOfFile(d), seeks \in BOOLEAN :
        LET offset == Offset(params[t].n, file.size, file.position)
            moved == seeks /\ file.res = OK /\ file.position + offset <= Int32Max
        IN  /\ descriptor' = [descriptor EXCEPT ![stream[t]].position =
                                  file.position + (IF moved THEN offset ELSE 0)]
            /\ params' = [params EXCEPT
                    ![t].skipped_count = IF moved THEN offset ELSE 0,
                    ![t].n = IF moved THEN offset ELSE @,
                    ![t].result = IF moved THEN OK ELSE NOK]
  BY DEF Skip
<1> DEFINE offset == Offset(params[t].n, file.size, file.position)
           moved == seeks /\ file.res = OK /\ file.position + offset <= Int32Max
           at == file.position + (IF moved THEN offset ELSE 0)
<1>7. file.position \in 0 .. Int32Max /\ file.size \in 0 .. Int32Max
  <2>1. /\ file.position \in {d.position, Len(content[d.file])}
        /\ file.size \in {0, Len(content[d.file])}
    BY SizesOfFile
  <2>2. 0 \in 0 .. Int32Max
    BY Widths
  <2>3. QED
    BY <1>3, <1>5, <2>1, <2>2
<1>8. offset \in 0 .. Int32Max
  BY <1>5, <1>7, OffsetType
<1>9. at \in 0 .. Int32Max
  <2> HIDE DEF offset
  <2>1. QED
    BY <1>7, <1>8, Widths
<1>10. UNCHANGED <<exists, content, array>>
  BY DEF Skip, file_vars
<1>11. /\ params' \in [Threads -> JobParams]
       /\ \A u \in Threads : u # t => params'[u] = params[u]
  <2>1. PICK a \in Int32, b \in Int32, c \in Int32 :
          params' = [params EXCEPT ![t] = [params[t] EXCEPT !.skipped_count = a,
                                                            !.n = b, !.result = c]]
    <3>1. /\ (IF moved THEN offset ELSE 0) \in Int32
          /\ (IF moved THEN offset ELSE params[t].n) \in Int32
          /\ (IF moved THEN OK ELSE NOK) \in Int32
      BY <1>5, <1>8, AnswersTyped, Widths
    <3>2. params' = [params EXCEPT
              ![t].skipped_count = IF moved THEN offset ELSE 0,
              ![t].n = IF moved THEN offset ELSE @,
              ![t].result = IF moved THEN OK ELSE NOK]
      BY <1>6
    <3> HIDE DEF moved, offset
    <3>3. params' = [params EXCEPT ![t] = [params[t] EXCEPT
              !.skipped_count = IF moved THEN offset ELSE 0,
              !.n = IF moved THEN offset ELSE params[t].n,
              !.result = IF moved THEN OK ELSE NOK]]
      BY <1>1, <3>2
    <3>4. QED
      BY <3>1, <3>3
  <2>2. QED
    BY <1>1, <2>1 DEF JobParams
<1>12. AnswerFits(request[t], params'[t])
  BY <1>1 DEF AnswerFits, Copied
<1>13. /\ exists' \in [Files -> BOOLEAN]
       /\ content' \in [Files -> Seq(Bytes)]
       /\ \A f \in Files : Len(content'[f]) <= MaxSize
       /\ array' \in [1 .. ArrayLength -> Bytes]
  BY <1>10 DEF IInv, TypeOK
<1>14. descriptor' = [descriptor EXCEPT ![stream[t]].position = at]
  BY <1>6
<1> HIDE DEF at
<1>15. \E a \in 0 .. Int32Max :
         /\ descriptor[stream[t]].mode # "read" => a <= MaxSize
         /\ descriptor' = [descriptor EXCEPT ![stream[t]].position = a]
  BY <1>4, <1>9, <1>14
<1>16. QED
  BY <1>1, <1>11, <1>12, <1>13, <1>15, MovesInv

(* A write of bytes: what it takes fits into a file.                        *)
LEMMA WriteBytesFit ==
    ASSUME TypeOK, DescriptorsFit, NEW t \in Threads, params[t] \in JobParams,
           stream[t] \in OpenFds, descriptor[stream[t]].mode # "read"
    PROVE  LET d == descriptor[stream[t]]
               at == IF d.mode = "append" THEN Len(content[d.file]) ELSE d.position
               written == Least(params[t].length, MaxSize - at)
           IN  /\ at \in 0 .. MaxSize
               /\ written \in 0 .. params[t].length
               /\ at + written \in 0 .. MaxSize
               /\ d.file \in Files /\ stream[t] \in Fds
<1> DEFINE d == descriptor[stream[t]]
           at == IF d.mode = "append" THEN Len(content[d.file]) ELSE d.position
<1>1. /\ stream[t] \in Fds /\ d.file \in Files /\ d.position \in 0 .. Int32Max
      /\ d.position <= MaxSize
  BY DEF DescriptorsFit, OpenFds, TypeOK
<1>2. at \in 0 .. MaxSize
  BY <1>1, Widths DEF TypeOK
<1>3. params[t].length \in 0 .. ArrayLength
  BY DEF JobParams
<1> HIDE DEF d, at
<1>4. Least(params[t].length, MaxSize - at) \in 0 .. params[t].length
      /\ at + Least(params[t].length, MaxSize - at) \in 0 .. MaxSize
  BY <1>2, <1>3, Widths DEF Least
<1>5. QED
  BY <1>1, <1>2, <1>4 DEF d, at

LEMMA WriteBytesInv ==
    ASSUME IInv, NEW t, NEW op \in {"write", "write_byte"}, Executes(t, op), NEW data,
           \A i \in 1 .. params[t].length : data[i] \in Bytes,
           WriteBytes(t, data)
    PROVE  IInv'
<1>1. /\ t \in Threads /\ params \in [Threads -> JobParams] /\ params[t] \in JobParams
      /\ request[t] \in AllRequests /\ request[t].op = op /\ Fits(t)
      /\ stream[t] # NoFd /\ stream[t] \in OpenFds
  BY ExecutesFinds DEF IInv, TypeOK, JobParams
<1>2. descriptor[stream[t]].mode # "read"
  BY <1>1, RequestKinds DEF Fits
<1> DEFINE d == descriptor[stream[t]]
           at == IF d.mode = "append" THEN Len(content[d.file]) ELSE d.position
           written == Least(params[t].length, MaxSize - at)
           result == IF written = 0 /\ params[t].length > 0 THEN NOK ELSE written
           s == Patched(content[d.file], at, data, written)
<1>3. /\ at \in 0 .. MaxSize
      /\ written \in 0 .. params[t].length
      /\ at + written \in 0 .. MaxSize
      /\ d.file \in Files /\ stream[t] \in Fds
  BY <1>1, <1>2, WriteBytesFit DEF IInv
<1>4. CASE Fails(t)
  BY <1>1, <1>4, FailsInv
<1>5. CASE ~Fails(t)
  <2>1. /\ content' = [content EXCEPT ![d.file] = s]
        /\ descriptor' = [descriptor EXCEPT ![stream[t]].position = at + written]
        /\ Answers(t, result)
        /\ UNCHANGED <<exists, array>>
    BY <1>5 DEF WriteBytes
  <2>2. content[d.file] \in Seq(Bytes) /\ Len(content[d.file]) <= MaxSize
    BY <1>3 DEF IInv, TypeOK
  <2>3. params[t].length \in Nat
    BY <1>1 DEF JobParams
  <2> HIDE DEF at, d, written
  <2>4. s \in Seq(Bytes) /\ Len(s) <= MaxSize
    <3>1. \A i \in 1 .. written : data[i] \in Bytes
      BY <1>3, <2>3
    <3>2. 0 \in Bytes /\ at \in Nat /\ written \in Nat /\ Len(content[d.file]) \in Nat
      BY <1>3, <2>2, <2>3, Widths DEF Bytes
    <3>3. s \in Seq(Bytes)
          /\ Len(s) = Largest(Len(content[d.file]), IF written = 0 THEN 0 ELSE at + written)
      BY <2>2, <3>1, <3>2, PatchedSeq
    <3> HIDE DEF s
    <3>4. QED
      BY <1>3, <2>2, <3>2, <3>3, Widths DEF Largest
  <2>5. result \in Int32
    BY <1>3, <2>3, AnswersTyped, Widths
  <2> HIDE DEF s, result
  <2>6. /\ params' \in [Threads -> JobParams]
        /\ \A u \in Threads : u # t => params'[u] = params[u]
    BY <1>1, <2>1, <2>5, AnswersIs
  <2>7. AnswerFits(request[t], params'[t])
    BY <1>1 DEF AnswerFits, Copied
  <2>8. /\ content' \in [Files -> Seq(Bytes)]
        /\ \A f \in Files : Len(content'[f]) <= MaxSize
    BY <1>3, <2>1, <2>4, ContentWith DEF IInv
  <2>9. exists' \in [Files -> BOOLEAN] /\ array' \in [1 .. ArrayLength -> Bytes]
    BY <2>1 DEF IInv, TypeOK
  <2>10. \E a \in 0 .. Int32Max :
           /\ descriptor[stream[t]].mode # "read" => a <= MaxSize
           /\ descriptor' = [descriptor EXCEPT ![stream[t]].position = a]
    <3> DEFINE end == at + written
    <3>1. end \in 0 .. Int32Max /\ end <= MaxSize
      BY <1>3, Widths
    <3>2. descriptor' = [descriptor EXCEPT ![stream[t]].position = end]
      BY <2>1
    <3> HIDE DEF end
    <3>3. QED
      BY <3>1, <3>2
  <2>11. QED
    BY <1>1, <2>6, <2>7, <2>8, <2>9, <2>10, MovesInv
<1>6. QED
  BY <1>4, <1>5

LEMMA WriteInv ==
    ASSUME IInv, NEW t, Write(t)
    PROVE  IInv'
<1>1. Executes(t, "write")
  BY DEF Write
<1>2. /\ t \in Threads /\ params[t] \in JobParams /\ request[t] \in AllRequests
      /\ request[t].op = "write" /\ JobFits(request[t], params[t], given[t])
  BY <1>1, ExecutesFinds
<1>3. params[t].length \in 0 .. ArrayLength /\ request[t].immortal \in BOOLEAN
  BY <1>2, RequestKinds DEF JobParams
<1>4. /\ given[t] \in [1 .. ArrayLength -> Bytes]
      /\ array \in [1 .. ArrayLength -> Bytes]
  BY <1>2 DEF IInv, TypeOK
<1>5. CASE request[t].immortal
  <2>1. WriteBytes(t, array)
    BY <1>5 DEF Write
  <2>2. \A i \in 1 .. params[t].length : array[i] \in Bytes
    BY <1>3, <1>4, Widths
  <2>3. QED
    BY <1>1, <2>1, <2>2, WriteBytesInv
<1>6. CASE ~request[t].immortal
  <2>1. WriteBytes(t, params[t].buffer)
    BY <1>6 DEF Write
  <2>2. \A i \in 1 .. params[t].length : params[t].buffer[i] = given[t][i]
    BY <1>2, <1>6 DEF JobFits, Copied
  <2>3. \A i \in 1 .. params[t].length : params[t].buffer[i] \in Bytes
    BY <1>3, <1>4, <2>2, Widths
  <2>4. QED
    BY <1>1, <2>1, <2>3, WriteBytesInv
<1>7. QED
  BY <1>5, <1>6

LEMMA WriteByteInv ==
    ASSUME IInv, NEW t, WriteByte(t)
    PROVE  IInv'
<1>1. Executes(t, "write_byte") /\ WriteBytes(t, params[t].buffer)
  BY DEF WriteByte
<1>2. request[t].op = "write_byte" /\ JobFits(request[t], params[t], given[t])
  BY <1>1, ExecutesFinds
<1>3. params[t].length = 1 /\ params[t].buffer[1] \in Bytes
  BY <1>2 DEF JobFits
<1>4. QED
  BY <1>1, <1>3, WriteBytesInv
(* A read of bytes: those left in the file, as many as the job asks for.    *)
LEMMA ReadBytesFit ==
    ASSUME TypeOK, DescriptorsFit, NEW t \in Threads, params[t] \in JobParams,
           stream[t] \in OpenFds
    PROVE  LET d == descriptor[stream[t]]
               rest == SubSeq(content[d.file], d.position + 1, Len(content[d.file]))
               count == Least(params[t].length, Len(rest))
           IN  /\ count \in 0 .. params[t].length
               /\ \A i \in 1 .. count : rest[i] \in Bytes
               /\ d.position + count \in 0 .. Int32Max
               /\ d.mode # "read" => d.position + count <= MaxSize
<1> DEFINE d == descriptor[stream[t]]
           c == content[d.file]
           rest == SubSeq(c, d.position + 1, Len(c))
           count == Least(params[t].length, Len(rest))
<1>1. /\ d.file \in Files /\ d.position \in 0 .. Int32Max
      /\ d.mode # "read" => d.position <= MaxSize
  BY DEF DescriptorsFit, OpenFds, TypeOK
<1>2. c \in Seq(Bytes) /\ Len(c) \in 0 .. MaxSize
  BY <1>1 DEF TypeOK
<1>3. params[t].length \in Nat
  BY DEF JobParams
<1> HIDE DEF c, d
<1>4. /\ Len(rest) \in Nat
      /\ Len(rest) = 0 \/ Len(rest) = Len(c) - d.position
      /\ \A i \in 1 .. Len(rest) : rest[i] \in Bytes
  <2>1. CASE d.position < Len(c)
    <3>1. /\ rest \in Seq(Bytes)
          /\ Len(rest) = Len(c) - d.position
      BY <1>1, <1>2, <2>1, Widths
    <3> HIDE DEF rest
    <3>2. QED
      BY <1>1, <1>2, <2>1, <3>1
  <2>2. CASE ~(d.position < Len(c))
    <3>1. rest = <<>>
      BY <1>1, <1>2, <2>2, Widths
    <3> HIDE DEF rest
    <3>2. QED
      BY <3>1
  <2>3. QED
    BY <2>1, <2>2
<1> HIDE DEF rest
<1>5. count \in 0 .. params[t].length /\ count \in 0 .. Len(rest)
  BY <1>3, <1>4 DEF Least
<1> HIDE DEF count
<1>6. \A i \in 1 .. count : rest[i] \in Bytes
  BY <1>4, <1>5
<1>7. /\ d.position + count \in 0 .. Int32Max
      /\ d.mode # "read" => d.position + count <= MaxSize
  <2>1. d.position + count <= Len(c) \/ count = 0
    BY <1>1, <1>2, <1>4, <1>5, Widths
  <2>2. QED
    BY <1>1, <1>2, <1>4, <1>5, <2>1, Widths
<1>8. QED
  BY <1>5, <1>6, <1>7 DEF count, rest, c, d

LEMMA ReadBytesInv ==
    ASSUME IInv, NEW t, NEW op \in {"read", "read_byte"}, Executes(t, op),
           NEW immortal \in BOOLEAN, ~immortal => params[t].length <= BufferSize,
           op = "read" => immortal = request[t].immortal,
           ReadBytes(t, immortal)
    PROVE  IInv'
<1>1. /\ t \in Threads /\ params \in [Threads -> JobParams] /\ params[t] \in JobParams
      /\ request[t].op = op
      /\ stream[t] # NoFd /\ stream[t] \in OpenFds /\ stream[t] \in Fds
  BY ExecutesFinds DEF IInv, TypeOK, JobParams, OpenFds
<1> DEFINE d == descriptor[stream[t]]
           rest == SubSeq(content[d.file], d.position + 1, Len(content[d.file]))
           count == Least(params[t].length, Len(rest))
           result == IF count = 0 THEN EOF ELSE count
           end == d.position + count
<1>2. /\ count \in 0 .. params[t].length
      /\ \A i \in 1 .. count : rest[i] \in Bytes
      /\ end \in 0 .. Int32Max
      /\ d.mode # "read" => end <= MaxSize
  BY <1>1, ReadBytesFit DEF IInv
<1>3. CASE Fails(t)
  BY <1>1, <1>3, FailsInv
<1>4. CASE ~Fails(t)
  <2>1. /\ descriptor' = [descriptor EXCEPT ![stream[t]].position = @ + count]
        /\ IF immortal
             THEN array' = Patched(array, 0, rest, count) /\ Answers(t, result)
             ELSE /\ params' = [params EXCEPT ![t].buffer = Patched(@, 0, rest, count),
                                              ![t].result = result]
                  /\ UNCHANGED array
        /\ UNCHANGED <<exists, content>>
    BY <1>4 DEF ReadBytes, file_vars
  <2>2. \E a \in 0 .. Int32Max :
          /\ descriptor[stream[t]].mode # "read" => a <= MaxSize
          /\ descriptor' = [descriptor EXCEPT ![stream[t]].position = a]
    <3>1. descriptor' = [descriptor EXCEPT ![stream[t]].position = end]
      BY <1>1, <2>1 DEF IInv, TypeOK
    <3> HIDE DEF end
    <3>2. QED
      BY <1>2, <3>1
  <2>3. params[t].length \in 0 .. ArrayLength
    BY <1>1 DEF JobParams
  <2> HIDE DEF rest, count
  <2>4. result \in Int32 /\ (result \notin {NOK, EOF} => result = count /\ result \in 1 .. ArrayLength)
    BY <1>2, <2>3, AnswersTyped, Widths DEF EOF
  <2> HIDE DEF result
  <2>5. /\ params' \in [Threads -> JobParams]
        /\ \A u \in Threads : u # t => params'[u] = params[u]
        /\ AnswerFits(request[t], params'[t])
        /\ array' \in [1 .. ArrayLength -> Bytes]
    <3>1. CASE immortal
      <4>1. /\ params' \in [Threads -> JobParams]
            /\ \A u \in Threads : u # t => params'[u] = params[u]
        BY <1>1, <2>1, <2>4, <3>1, AnswersIs
      <4>2. AnswerFits(request[t], params'[t])
        BY <1>1, <3>1 DEF AnswerFits, Copied
      <4>3. array' \in [1 .. ArrayLength -> Bytes]
        <5>1. array \in [1 .. ArrayLength -> Bytes] /\ Len(array) = ArrayLength
          BY Widths DEF IInv, TypeOK
        <5>2. count \in 0 .. ArrayLength /\ ArrayLength \in Nat
          BY <1>2, <2>3, Widths
        <5>3. array' = [i \in 1 .. ArrayLength |-> IF i <= count THEN rest[i] ELSE array[i]]
          <6>1. \A bytes : \A k \in 0 .. ArrayLength :
                  Patched(array, 0, bytes, k) =
                      [i \in 1 .. ArrayLength |-> IF i <= k THEN bytes[i] ELSE array[i]]
            BY <5>1, <5>2, PatchedArray
          <6>2. QED
            BY <2>1, <3>1, <5>2, <6>1
        <5>4. QED
          BY <1>2, <5>1, <5>2, <5>3
      <4>4. QED
        BY <4>1, <4>2, <4>3
    <3>2. CASE ~immortal
      <4> DEFINE b == Patched(params[t].buffer, 0, rest, count)
      <4>1. /\ params[t].buffer \in [1 .. BufferSize -> Bytes \union {Junk}]
            /\ Len(params[t].buffer) = BufferSize
        BY <1>1, Widths DEF JobParams
      <4>2. count \in 0 .. BufferSize /\ BufferSize \in Nat
        BY <1>2, <2>3, <3>2, Widths
      <4>3. b = [i \in 1 .. BufferSize |-> IF i <= count THEN rest[i] ELSE params[t].buffer[i]]
        <5>1. \A bytes : \A k \in 0 .. BufferSize :
                Patched(params[t].buffer, 0, bytes, k) =
                    [i \in 1 .. BufferSize |->
                        IF i <= k THEN bytes[i] ELSE params[t].buffer[i]]
          BY <4>1, <4>2, PatchedArray
        <5>2. QED
          BY <4>2, <5>1
      <4>4. params' = [params EXCEPT ![t] = [params[t] EXCEPT !.buffer = b, !.result = result]]
        BY <1>1, <2>1, <3>2
      <4> HIDE DEF b
      <4>5. /\ b \in [1 .. BufferSize -> Bytes \union {Junk}]
            /\ \A i \in 1 .. count : b[i] \in Bytes
        BY <1>2, <4>1, <4>2, <4>3
      <4>6. /\ [params[t] EXCEPT !.buffer = b, !.result = result] \in JobParams
            /\ [params[t] EXCEPT !.buffer = b, !.result = result].buffer = b
            /\ [params[t] EXCEPT !.buffer = b, !.result = result].result = result
        BY <1>1, <2>4, <4>5 DEF JobParams
      <4>7. /\ params' \in [Threads -> JobParams]
            /\ \A u \in Threads : u # t => params'[u] = params[u]
            /\ params'[t].buffer = b /\ params'[t].result = result
        BY <1>1, <4>4, <4>6
      <4>8. AnswerFits(request[t], params'[t])
        BY <1>1, <2>4, <4>2, <4>5, <4>7 DEF AnswerFits
      <4>9. QED
        BY <2>1, <3>2, <4>7, <4>8 DEF IInv, TypeOK
    <3>3. QED
      BY <3>1, <3>2
  <2>6. /\ exists' \in [Files -> BOOLEAN]
        /\ content' \in [Files -> Seq(Bytes)]
        /\ \A f \in Files : Len(content'[f]) <= MaxSize
    BY <2>1 DEF IInv, TypeOK
  <2>7. op # "close" /\ op # "open"
    OBVIOUS
  <2> HIDE DEF d, end
  <2>8. QED
    BY <1>1, <2>2, <2>5, <2>6, <2>7, MovesInv
<1>5. QED
  BY <1>3, <1>4

LEMMA ReadInv ==
    ASSUME IInv, NEW t, Read(t)
    PROVE  IInv'
<1>1. Executes(t, "read") /\ ReadBytes(t, request[t].immortal)
  BY DEF Read
<1>2. /\ request[t] \in AllRequests /\ request[t].op = "read"
      /\ JobFits(request[t], params[t], given[t])
  BY <1>1, ExecutesFinds
<1>3. request[t].immortal \in BOOLEAN
      /\ (~request[t].immortal => params[t].length <= BufferSize)
  BY <1>2, RequestKinds DEF JobFits, Copied
<1>4. QED
  BY <1>1, <1>3, ReadBytesInv

LEMMA ReadByteInv ==
    ASSUME IInv, NEW t, ReadByte(t)
    PROVE  IInv'
<1>1. Executes(t, "read_byte") /\ ReadBytes(t, FALSE)
  BY DEF ReadByte
<1>2. request[t].op = "read_byte" /\ JobFits(request[t], params[t], given[t])
  BY <1>1, ExecutesFinds
<1>3. params[t].length <= BufferSize
  BY <1>2, Widths DEF JobFits
<1>4. QED
  BY <1>1, <1>3, ReadBytesInv
LEMMA OpenInv ==
    ASSUME IInv, NEW t, Open(t)
    PROVE  IInv'
<1>1. /\ Executes(t, "open") /\ t \in Threads /\ params \in [Threads -> JobParams]
      /\ request[t].op = "open" /\ request[t].file \in Files /\ request[t].mode \in Modes
      /\ call'[t] = "done" /\ request' = request /\ stream' = stream
      /\ call[t] = "posted" /\ stream[t] = NoFd
  BY ExecutesFinds, RequestKinds DEF Open, Executes, IInv, TypeOK, JobParams
<1>2. CASE Fails(t)
  <2>1. params'[t].result = NOK
    BY <1>1, <1>2, AnswersIs, AnswersTyped DEF Fails
  <2>2. /\ params' \in [Threads -> JobParams]
        /\ \A u \in Threads : u # t => params'[u] = params[u]
    BY <1>1, <1>2, AnswersIs, AnswersTyped DEF Fails
  <2>3. AnswerFits(request[t], params'[t])
    BY <2>1 DEF AnswerFits
  <2>4. /\ UNCHANGED descriptor
        /\ exists' \in [Files -> BOOLEAN]
        /\ content' \in [Files -> Seq(Bytes)]
        /\ \A f \in Files : Len(content'[f]) <= MaxSize
        /\ array' \in [1 .. ArrayLength -> Bytes]
    BY <1>2 DEF Fails, file_vars, IInv, TypeOK
  <2>5. QED
    BY <1>1, <2>1, <2>2, <2>3, <2>4, MovesInv
<1>3. CASE ~Fails(t)
  <2> DEFINE f == request[t].file
             opened == [file |-> f, mode |-> request[t].mode, position |-> 0]
             bytes == IF request[t].mode = "write" THEN <<>> ELSE content[f]
  <2>1. PICK fd \in Fds :
          /\ fd \notin OpenFds
          /\ descriptor' = [descriptor EXCEPT ![fd] = opened]
          /\ Answers(t, fd)
    BY <1>3 DEF Open
  <2>2. /\ exists' = [exists EXCEPT ![f] = TRUE]
        /\ content' = [content EXCEPT ![f] = IF request[t].mode = "write" THEN <<>> ELSE @]
        /\ UNCHANGED array
    BY <1>3 DEF Open
  <2>3. /\ exists' \in [Files -> BOOLEAN]
        /\ array' \in [1 .. ArrayLength -> Bytes]
    BY <1>1, <2>2 DEF IInv, TypeOK
  <2>4. /\ content' \in [Files -> Seq(Bytes)]
        /\ \A g \in Files : Len(content'[g]) <= MaxSize
    <3>1. content' = [content EXCEPT ![f] = bytes]
      BY <1>1, <2>2 DEF IInv, TypeOK
    <3>2. bytes \in Seq(Bytes) /\ Len(bytes) <= MaxSize
      <4>1. <<>> \in Seq(Bytes) /\ Len(<<>>) <= MaxSize
        BY Widths
      <4>2. content[f] \in Seq(Bytes) /\ Len(content[f]) <= MaxSize
        BY <1>1 DEF IInv, TypeOK
      <4>3. CASE request[t].mode = "write"
        BY <4>1, <4>3
      <4>4. CASE request[t].mode # "write"
        BY <4>2, <4>4
      <4>5. QED
        BY <4>3, <4>4
    <3> HIDE DEF bytes
    <3>3. QED
      BY <1>1, <3>1, <3>2, ContentWith DEF IInv
  <2>5. fd \in Int32 /\ fd # NOK /\ fd # NoFd
    BY AnswersTyped, Widths DEF Fds, NOK, NoFd
  <2>6. /\ params' \in [Threads -> JobParams]
        /\ \A u \in Threads : u # t => params'[u] = params[u]
        /\ params'[t].result = fd
    BY <1>1, <2>1, <2>5, AnswersIs
  <2>7. AnswerFits(request[t], params'[t])
    BY <1>1, <2>6 DEF AnswerFits, Copied
  <2>8. /\ opened \in [file : Files \union {NoFile}, mode : Modes, position : 0 .. Int32Max]
        /\ opened # Closed
        /\ opened.file \in Files /\ opened.position <= MaxSize
    BY <1>1, FileStreamsAssumption, Widths DEF Closed
  <2> HIDE DEF opened
  <2>9. /\ descriptor' \in [Fds -> [file : Files \union {NoFile}, mode : Modes,
                                    position : 0 .. Int32Max]]
        /\ descriptor'[fd] = opened
        /\ \A other \in Fds : other # fd => descriptor'[other] = descriptor[other]
    BY <2>1, <2>8 DEF IInv, TypeOK
  <2>10. OpenFds' = OpenFds \union {fd}
    BY <2>8, <2>9 DEF OpenFds
  <2>11. DescriptorsFit'
    BY <2>8, <2>9, <2>10 DEF IInv, DescriptorsFit, OpenFds
  <2>12. Held(t) = {}
    BY <1>1, HeldIs DEF HeldShape
  <2>13. Held(t)' = {fd}
    BY <1>1, <2>5, <2>6, HeldIsNext DEF HeldShape
  <2>14. Held(t)' \subseteq OpenFds' /\ OpenFds' \ Held(t)' = OpenFds \ Held(t)
    BY <2>1, <2>10, <2>12, <2>13
  <2>15. \A other \in OpenFds :
           other # stream[t] => descriptor'[other].mode = descriptor[other].mode
    BY <2>1, <2>9 DEF OpenFds
  <2>16. QED
    BY <1>1, <2>3, <2>4, <2>6, <2>7, <2>9, <2>11, <2>14, <2>15, ActionInv
<1>4. QED
  BY <1>2, <1>3

LEMMA CloseInv ==
    ASSUME IInv, NEW t, Close(t)
    PROVE  IInv'
<1>1. /\ Executes(t, "close") /\ t \in Threads /\ params \in [Threads -> JobParams]
      /\ request[t].op = "close"
      /\ call'[t] = "done" /\ request' = request /\ stream' = stream
      /\ call[t] = "posted" /\ stream[t] # NoFd /\ stream[t] \in OpenFds /\ stream[t] \in Fds
  BY ExecutesFinds DEF Close, Executes, IInv, TypeOK, JobParams, OpenFds
<1>2. /\ descriptor' = [descriptor EXCEPT ![stream[t]] = Closed]
      /\ UNCHANGED <<exists, content, array>>
      /\ \E result \in Int32 : Answers(t, result)
  BY AnswersTyped DEF Close, file_vars
<1>3. /\ params' \in [Threads -> JobParams]
      /\ \A u \in Threads : u # t => params'[u] = params[u]
  BY <1>1, <1>2, AnswersIs
<1>4. AnswerFits(request[t], params'[t])
  BY <1>1 DEF AnswerFits, Copied
<1>5. /\ exists' \in [Files -> BOOLEAN]
      /\ content' \in [Files -> Seq(Bytes)]
      /\ \A f \in Files : Len(content'[f]) <= MaxSize
      /\ array' \in [1 .. ArrayLength -> Bytes]
  BY <1>2 DEF IInv, TypeOK
<1>6. Closed \in [file : Files \union {NoFile}, mode : Modes, position : 0 .. Int32Max]
  BY Widths DEF Closed, Modes
<1>7. /\ descriptor' \in [Fds -> [file : Files \union {NoFile}, mode : Modes,
                                  position : 0 .. Int32Max]]
      /\ descriptor'[stream[t]] = Closed
      /\ \A fd \in Fds : fd # stream[t] => descriptor'[fd] = descriptor[fd]
  BY <1>1, <1>2, <1>6 DEF IInv, TypeOK
<1>8. OpenFds' = OpenFds \ {stream[t]}
  BY <1>1, <1>7 DEF OpenFds
<1>9. DescriptorsFit'
  BY <1>7, <1>8 DEF IInv, DescriptorsFit, OpenFds
<1>10. Held(t) = {stream[t]}
  BY <1>1, HeldIs DEF HeldShape
<1>11. Held(t)' = {}
  BY <1>1, HeldIsNext DEF HeldShape
<1>12. Held(t)' \subseteq OpenFds' /\ OpenFds' \ Held(t)' = OpenFds \ Held(t)
  BY <1>8, <1>10, <1>11
<1>13. \A fd \in OpenFds : fd # stream[t] => descriptor'[fd].mode = descriptor[fd].mode
  BY <1>7 DEF OpenFds
<1>14. QED
  BY <1>1, <1>3, <1>4, <1>5, <1>7, <1>9, <1>12, <1>13, ActionInv

(* The callback takes over what the action answered.                        *)
LEMMA OnDoneInv ==
    ASSUME IInv, NEW t \in Threads, OnDone(t)
    PROVE  IInv'
<1>i. TypeOK /\ QueuedCalls /\ RequestsFit /\ ParamsFit /\ AnswersFit /\ DescriptorsFit
      /\ DescriptorsOwned
  BY DEF IInv
<1>1. /\ call[t] = "done"
      /\ call' = [call EXCEPT ![t] = "java"]
      /\ array' = IF ReadDone(t) /\ ~request[t].immortal THEN Released(t) ELSE array
      /\ stream' = [stream EXCEPT ![t] = StreamDone(t)]
      /\ request' = [request EXCEPT ![t] = NoRequest]
      /\ params' = [params EXCEPT ![t] = NoParams]
      /\ UNCHANGED <<queue, exists, content, descriptor, given>>
  BY DEF OnDone, file_vars
<1>2. /\ call'[t] = "java" /\ stream'[t] = StreamDone(t)
      /\ \A u \in Threads : u # t => /\ call'[u] = call[u]
                                     /\ stream'[u] = stream[u]
                                     /\ request'[u] = request[u]
                                     /\ params'[u] = params[u]
      /\ UNCHANGED given
  BY <1>1, <1>i DEF TypeOK
<1>3. AnswerFits(request[t], params[t])
  BY <1>1, <1>i DEF AnswersFit
<1>4. StreamDone(t) \in Fds \union {NoFd}
  BY <1>3, <1>i, StreamDoneIs DEF TypeOK, AnswerFits
<1>5. array' \in [1 .. ArrayLength -> Bytes]
  <2>1. CASE ReadDone(t) /\ ~request[t].immortal
    <3>1. /\ params[t].result \in 1 .. ArrayLength
          /\ \A i \in 1 .. params[t].result : params[t].buffer[i] \in Bytes
      BY <1>3, <2>1 DEF AnswerFits, ReadDone, Copied
    <3>2. array \in [1 .. ArrayLength -> Bytes] /\ Len(array) = ArrayLength
      BY <1>i, Widths DEF TypeOK
    <3>3. array' = [i \in 1 .. ArrayLength |->
                       IF i <= params[t].result THEN params[t].buffer[i] ELSE array[i]]
      <4>1. \A bytes : \A k \in 0 .. ArrayLength :
              Patched(array, 0, bytes, k) =
                  [i \in 1 .. ArrayLength |-> IF i <= k THEN bytes[i] ELSE array[i]]
        BY <3>2, PatchedArray, Widths
      <4>2. QED
        BY <1>1, <2>1, <3>1, <4>1, Widths DEF Released
    <3>4. QED
      BY <3>1, <3>2, <3>3
  <2>2. CASE ~(ReadDone(t) /\ ~request[t].immortal)
    BY <1>1, <1>i, <2>2 DEF TypeOK
  <2>3. QED
    BY <2>1, <2>2
<1>6. TypeOK'
  <2>1. NoParams \in JobParams
    BY Int32Is, Widths DEF NoParams, JobParams
  <2>2. params' \in [Threads -> JobParams]
    BY <1>1, <1>i, <2>1 DEF TypeOK, JobParams
  <2>3. stream' \in [Threads -> Fds \union {NoFd}]
    BY <1>1, <1>4, <1>i DEF TypeOK
  <2>4. call' \in [Threads -> {"java", "posted", "done"}]
    BY <1>1, <1>i DEF TypeOK
  <2>5. request' \in [Threads -> {NoRequest} \union OpenRequests \union PathRequests
                                    \union ReadRequests \union WriteRequests
                                    \union CloseRequests]
    BY <1>1, <1>i DEF TypeOK
  <2>6. QED
    BY <1>1, <1>5, <1>i, <2>2, <2>3, <2>4, <2>5 DEF TypeOK, JobParams
<1>7. QueuedCalls'
  <2>1. \A i \in 1 .. Len(queue) : queue[i] \in Threads /\ queue[i] # t
    BY <1>1, <1>i DEF QueuedCalls, TypeOK
  <2>2. QED
    BY <1>1, <1>2, <1>i, <2>1 DEF QueuedCalls
<1>8. RequestsFit'
  BY <1>1, <1>2, <1>i DEF RequestsFit, Fits
<1>9. ParamsFit' /\ AnswersFit'
  BY <1>2, <1>i DEF ParamsFit, AnswersFit
<1>10. OpenFds' = OpenFds /\ DescriptorsFit'
  BY <1>1, <1>i DEF DescriptorsFit, OpenFds
<1>11. \A u \in Threads : Held(u)' = Held(u)
  <2>1. \A u \in Threads : u # t => Held(u)' = Held(u)
    BY <1>2 DEF Held
  <2>2. Held(t)' = {StreamDone(t)} \ {NoFd}
    BY <1>2, HeldIsNext DEF HeldShape
  <2>3. Held(t)' = Held(t)
    <3>1. CASE request[t].op = "open"
      <4>1. params[t].result # NOK => params[t].result # NoFd
        BY <1>3, <3>1, Widths DEF AnswerFits, Fds, NoFd, NOK
      <4>2. Held(t) = IF params[t].result # NOK THEN {params[t].result}
                      ELSE {stream[t]} \ {NoFd}
        BY <1>1, <3>1, HeldIs DEF HeldShape
      <4>3. CASE params[t].result # NOK
        <5>1. StreamDone(t) = params[t].result
          BY <3>1, <4>3, StreamDoneIs
        <5>2. QED
          BY <2>2, <4>1, <4>2, <4>3, <5>1
      <4>4. CASE params[t].result = NOK
        <5>1. StreamDone(t) = stream[t]
          BY <3>1, <4>4, StreamDoneIs
        <5>2. QED
          BY <2>2, <4>2, <4>4, <5>1
      <4>5. QED
        BY <4>3, <4>4
    <3>2. CASE request[t].op = "close"
      <4>1. StreamDone(t) = NoFd
        BY <3>2, StreamDoneIs
      <4>2. Held(t) = {}
        BY <1>1, <3>2, HeldIs DEF HeldShape
      <4>3. QED
        BY <2>2, <4>1, <4>2
    <3>3. CASE request[t].op \notin {"open", "close"}
      <4>1. StreamDone(t) = stream[t]
        BY <3>3, StreamDoneIs
      <4>2. Held(t) = {stream[t]} \ {NoFd}
        BY <3>3, HeldIs DEF HeldShape
      <4>3. QED
        BY <2>2, <4>1, <4>2
    <3>4. QED
      BY <3>1, <3>2, <3>3
  <2>4. QED
    BY <2>1, <2>3
<1>12. DescriptorsOwned'
  BY <1>10, <1>11, <1>i DEF DescriptorsOwned
<1>13. QED
  BY <1>6, <1>7, <1>8, <1>9, <1>10, <1>12 DEF IInv
LEMMA NextInv == IInv /\ [Next]_vars => IInv'
<1> SUFFICES ASSUME IInv, [Next]_vars
             PROVE  IInv'
  OBVIOUS
<1>1. CASE JavaWrites
  BY <1>1, JavaWritesInv
<1>2. ASSUME NEW t \in Threads, Native(t)
      PROVE  IInv'
  BY <1>2, NativeInv
<1>3. ASSUME NEW t \in Threads, Action(t)
      PROVE  IInv'
  BY <1>3, OpenInv, CreateInv, DeleteInv, WriteInv, WriteByteInv, ReadInv, ReadByteInv,
     CloseInv, SkipInv, AvailableInv DEF Action
<1>4. ASSUME NEW t \in Threads, OnDone(t)
      PROVE  IInv'
  BY <1>4, OnDoneInv
<1>5. CASE UNCHANGED vars
  <2>1. UNCHANGED <<call, request, params, queue, exists, content, descriptor, stream, array,
                    given>>
    BY <1>5 DEF vars, call_vars, file_vars
  <2>2. TypeOK'
    BY <2>1 DEF IInv, TypeOK
  <2>3. QueuedCalls' /\ RequestsFit' /\ ParamsFit' /\ AnswersFit' /\ DescriptorsFit'
    BY <2>1 DEF IInv, QueuedCalls, RequestsFit, ParamsFit, AnswersFit, DescriptorsFit, Fits,
                OpenFds
  <2>4. DescriptorsOwned'
    <3>1. OpenFds' = OpenFds /\ \A t \in Threads : Held(t)' = Held(t)
      BY <2>1, Zenon DEF OpenFds, Held
    <3>2. QED
      BY <3>1 DEF IInv, DescriptorsOwned
  <2>5. QED
    BY <2>2, <2>3, <2>4 DEF IInv
<1>6. QED
  BY <1>1, <1>2, <1>3, <1>4, <1>5 DEF Next

-----------------------------------------------------------------------------
(* The theorems.                                                            *)

(* What queued calls, requests, job parameters, answers and descriptors    *)
(* agree on holds whatever the threads and the worker do.                   *)
THEOREM InductiveInvariant == Spec => []IInv
BY InitInv, NextInv, PTL DEF Spec

(* Type correctness: no position leaves the range of off_t, no file grows   *)
(* beyond what it can have, and no byte but 0 and 1 reaches a file or the   *)
(* Java array, whatever the job's buffer held before.                       *)
THEOREM TypeCorrect == Spec => []TypeOK
<1>1. IInv => TypeOK
  BY DEF IInv
<1>2. QED
  BY <1>1, InductiveInvariant, PTL

(* The worker leaks no descriptor and gives none to two threads: every open *)
(* one is that of one stream, or of one open that is not answered yet.      *)
THEOREM DescriptorsKept == Spec => []DescriptorsOwned
<1>1. IInv => DescriptorsOwned
  BY DEF IInv
<1>2. QED
  BY <1>1, InductiveInvariant, PTL

-----------------------------------------------------------------------------
(* What a call does in the step in which it executes.                       *)

LEMMA ExecutedByAction ==
    ASSUME IInv, Next, NEW t \in Threads, Executed(t)
    PROVE  Action(t)
<1>1. call \in [Threads -> {"java", "posted", "done"}]
      /\ call[t] = "posted" /\ call'[t] = "done"
  BY DEF IInv, TypeOK, Executed
<1>2. ~JavaWrites
  BY <1>1 DEF JavaWrites, call_vars
<1>3. ASSUME NEW u \in Threads, Native(u) \/ OnDone(u)
      PROVE  FALSE
  BY <1>1, <1>3 DEF Native, OnDone
<1>4. ASSUME NEW u \in Threads, Action(u)
      PROVE  u = t
  <2>1. call' = [call EXCEPT ![u] = "done"]
    BY <1>4 DEF Action, Open, Create, Delete, Write, WriteByte, Read, ReadByte, Close, Skip,
                Available, Executes
  <2>2. QED
    BY <1>1, <2>1
<1>5. QED
  BY <1>2, <1>3, <1>4 DEF Next

LEMMA ActionOf ==
    ASSUME NEW t, Action(t)
    PROVE  /\ request[t].op = "write" => Write(t)
           /\ request[t].op = "skip" => Skip(t)
           /\ request[t].op = "available" => Available(t)
BY DEF Action, Open, Create, Delete, Write, WriteByte, Read, ReadByte, Close, Skip,
       Available, Executes

LEMMA WriteGiven ==
    ASSUME IInv, NEW t, Write(t), ~request[t].immortal, params'[t].result > 0
    PROVE  LET f == descriptor[stream[t]].file
               k == params'[t].result
               end == descriptor'[stream[t]].position
           IN  SubSeq(content'[f], end - k + 1, end) = SubSeq(given[t], 1, k)
<1>1. /\ Executes(t, "write") /\ WriteBytes(t, params[t].buffer)
      /\ t \in Threads /\ params \in [Threads -> JobParams] /\ params[t] \in JobParams
      /\ request[t] \in AllRequests /\ request[t].op = "write" /\ Fits(t)
      /\ JobFits(request[t], params[t], given[t])
      /\ stream[t] # NoFd /\ stream[t] \in OpenFds
  BY ExecutesFinds DEF Write, IInv, TypeOK, JobParams
<1>2. descriptor[stream[t]].mode # "read"
  BY <1>1, RequestKinds DEF Fits
<1> DEFINE d == descriptor[stream[t]]
           at == IF d.mode = "append" THEN Len(content[d.file]) ELSE d.position
           length == params[t].length
           written == Least(length, MaxSize - at)
           result == IF written = 0 /\ length > 0 THEN NOK ELSE written
           buffer == params[t].buffer
           s == Patched(content[d.file], at, buffer, written)
           end == at + written
<1>3. /\ at \in 0 .. MaxSize
      /\ written \in 0 .. length
      /\ end \in 0 .. MaxSize
      /\ d.file \in Files /\ stream[t] \in Fds
  BY <1>1, <1>2, WriteBytesFit DEF IInv
<1>4. length \in 0 .. ArrayLength
  BY <1>1 DEF JobParams
<1>5. ~Fails(t)
  <2>1. Fails(t) => params'[t].result = NOK
    BY <1>1, AnswersIs, AnswersTyped DEF Fails
  <2>2. QED
    BY <2>1 DEF NOK
<1>6. /\ content' = [content EXCEPT ![d.file] = s]
      /\ descriptor' = [descriptor EXCEPT ![stream[t]].position = end]
      /\ Answers(t, result)
  BY <1>1, <1>5 DEF WriteBytes
<1>7. content'[d.file] = s
  BY <1>3, <1>6 DEF IInv, TypeOK
<1>8. descriptor'[stream[t]].position = end
  BY <1>3, <1>6 DEF IInv, TypeOK
<1>9. content[d.file] \in Seq(Bytes) /\ Len(content[d.file]) \in Nat
  BY <1>3 DEF IInv, TypeOK
<1>10. \A i \in 1 .. length : buffer[i] = given[t][i]
  BY <1>1 DEF JobFits, Copied
<1>11. given[t] \in Seq(Bytes) /\ Len(given[t]) = ArrayLength
  BY <1>1, Widths DEF IInv, TypeOK
<1>12. \A i \in 1 .. written : buffer[i] \in Bytes /\ buffer[i] = given[t][i]
  <2>1. given[t] \in [1 .. ArrayLength -> Bytes]
    BY <1>1 DEF IInv, TypeOK
  <2>2. ArrayLength \in Nat
    BY Widths
  <2>3. written \in 0 .. length /\ length \in 0 .. ArrayLength
    BY <1>3, <1>4, Zenon
  <2> HIDE DEF d, at, written, length, buffer, result, s, end
  <2>4. \A i \in 1 .. written : i \in 1 .. length /\ i \in 1 .. ArrayLength
    BY <2>2, <2>3
  <2>5. QED
    BY <1>10, <2>1, <2>4
<1> HIDE DEF d, at, length, written, end, buffer
<1>13. result \in Int32 /\ (result > 0 => result = written)
  BY <1>3, <1>4, AnswersTyped, Widths DEF NOK
<1>14. params'[t].result = written /\ written > 0
  <2> HIDE DEF result
  <2>1. params'[t].result = result
    BY <1>1, <1>6, <1>13, AnswersIs
  <2>2. QED
    BY <1>13, <2>1
<1>15. /\ s \in Seq(Bytes) /\ Len(s) >= end
       /\ \A i \in 1 .. written : s[at + i] = buffer[i]
  <2>1. 0 \in Bytes /\ at \in Nat /\ written \in Nat /\ end \in Nat /\ end = at + written
    BY <1>3, <1>4, Widths DEF Bytes, end
  <2>2. /\ s \in Seq(Bytes)
        /\ Len(s) = Largest(Len(content[d.file]), IF written = 0 THEN 0 ELSE at + written)
        /\ \A i \in 1 .. Largest(Len(content[d.file]), IF written = 0 THEN 0 ELSE at + written) :
              s[i] = IF i > at /\ i <= at + written THEN buffer[i - at]
                     ELSE IF i <= Len(content[d.file]) THEN content[d.file][i] ELSE 0
    <3> DEFINE n(k) == Largest(Len(content[d.file]), IF k = 0 THEN 0 ELSE at + k)
    <3>1. \A i \in 1 .. written : buffer[i] \in Bytes
      BY <1>12
    <3>2. /\ s \in Seq(Bytes)
          /\ Len(s) = n(written)
      <4>1. \A data : \A k \in Nat : (\A i \in 1 .. k : data[i] \in Bytes) =>
              /\ Patched(content[d.file], at, data, k) \in Seq(Bytes)
              /\ Len(Patched(content[d.file], at, data, k)) = n(k)
        <5> SUFFICES ASSUME NEW data, NEW k \in Nat, \A i \in 1 .. k : data[i] \in Bytes
                     PROVE  /\ Patched(content[d.file], at, data, k) \in Seq(Bytes)
                            /\ Len(Patched(content[d.file], at, data, k)) = n(k)
          OBVIOUS
        <5>1. QED
          BY <1>9, <2>1, PatchedSeq
      <4>2. QED
        BY <2>1, <3>1, <4>1
    <3>3. \A i \in 1 .. n(written) :
            s[i] = IF i > at /\ i <= at + written THEN buffer[i - at]
                   ELSE IF i <= Len(content[d.file]) THEN content[d.file][i] ELSE 0
      BY DEF Patched
    <3>4. QED
      BY <3>2, <3>3
  <2>3. Largest(Len(content[d.file]), IF written = 0 THEN 0 ELSE at + written) >= at + written
    BY <1>9, <1>14, <2>1 DEF Largest
  <2>4. Largest(Len(content[d.file]), IF written = 0 THEN 0 ELSE at + written) \in Nat
    BY <1>9, <1>14, <2>1 DEF Largest
  <2> HIDE DEF s
  <2>5. \A i \in 1 .. written : s[at + i] = buffer[i]
    <3> SUFFICES ASSUME NEW i \in 1 .. written
                 PROVE  s[at + i] = buffer[i]
      OBVIOUS
    <3>1. at + i > at /\ at + i <= at + written /\ (at + i) - at = i
          /\ at + i \in 1 .. Largest(Len(content[d.file]),
                                     IF written = 0 THEN 0 ELSE at + written)
      BY <2>1, <2>3, <2>4
    <3>2. QED
      BY <2>2, <3>1
  <2>6. QED
    BY <2>1, <2>2, <2>3, <2>5
<1> HIDE DEF s
<1>16. SubSeq(s, end - written + 1, end) = SubSeq(given[t], 1, written)
  <2>1. /\ end - written + 1 = at + 1 /\ at \in Nat /\ written \in Nat \ {0}
        /\ end = at + written /\ written <= ArrayLength /\ ArrayLength \in Nat
    BY <1>3, <1>4, <1>14, Widths DEF end
  <2>2. /\ SubSeq(s, at + 1, end) \in Seq(Bytes)
        /\ Len(SubSeq(s, at + 1, end)) = written
        /\ \A i \in 1 .. written : SubSeq(s, at + 1, end)[i] = s[at + i]
    <3>1. \A i \in at + 1 .. end : s[i] \in Bytes
      BY <1>15, <2>1
    <3>2. /\ end - (at + 1) + 1 = written
          /\ \A i \in 1 .. written : at + 1 + i - 1 = at + i
          /\ at + 1 <= end /\ at + 1 \in Int /\ end \in Int
      BY <2>1
    <3>3. QED
      BY <3>1, <3>2, SubSeqProperties
  <2>3. /\ SubSeq(given[t], 1, written) \in Seq(Bytes)
        /\ Len(SubSeq(given[t], 1, written)) = written
        /\ \A i \in 1 .. written : SubSeq(given[t], 1, written)[i] = given[t][i]
    BY <1>11, <2>1, SubSeqProperties
  <2>4. QED
    BY <1>12, <1>15, <2>1, <2>2, <2>3, SeqEqual
<1>17. QED
  BY <1>7, <1>8, <1>14, <1>16 DEF d
LEMMA ReleasedRead ==
    ASSUME IInv, NEW t \in Threads, OnDone(t), NEW i \in 1 .. ArrayLength,
           array'[i] # array[i]
    PROVE  i <= params[t].result
<1>1. /\ call[t] = "done"
      /\ array' = IF ReadDone(t) /\ ~request[t].immortal THEN Released(t) ELSE array
  BY DEF OnDone
<1>2. ReadDone(t) /\ ~request[t].immortal /\ array' = Released(t)
  BY <1>1
<1>3. params[t].result \in 0 .. ArrayLength
  BY <1>1, <1>2, Widths DEF IInv, AnswersFit, AnswerFits, ReadDone, Copied
<1>4. array \in [1 .. ArrayLength -> Bytes] /\ Len(array) = ArrayLength
  BY Widths DEF IInv, TypeOK
<1>5. \A bytes : \A k \in 0 .. ArrayLength :
        Patched(array, 0, bytes, k) =
            [j \in 1 .. ArrayLength |-> IF j <= k THEN bytes[j] ELSE array[j]]
  BY <1>4, PatchedArray, Widths
<1>6. array' = [j \in 1 .. ArrayLength |->
                   IF j <= params[t].result THEN params[t].buffer[j] ELSE array[j]]
  BY <1>2, <1>3, <1>5 DEF Released
<1>7. CASE i <= params[t].result
  BY <1>7
<1>8. CASE ~(i <= params[t].result)
  BY <1>6, <1>8
<1>9. QED
  BY <1>7, <1>8

LEMMA SkipStays ==
    ASSUME IInv, NEW t, Skip(t), InFile(stream[t])
    PROVE  LET fd == stream[t]
               n == request[t].n
               before == descriptor[fd].position
               after == descriptor'[fd].position
               count == params'[t].skipped_count
           IN  /\ after \in before .. End(fd)
               /\ count = after - before \/ (count = 0 /\ after = End(fd))
               /\ n >= 0 => count <= n
               /\ params'[t].result = NOK => count = 0
               /\ params'[t].result = OK /\ n \in 0 .. Int32Max
                    => count = n \/ after = End(fd)
<1>1. /\ Executes(t, "skip") /\ t \in Threads /\ params \in [Threads -> JobParams]
      /\ params[t] \in JobParams /\ request[t].op = "skip" /\ request[t] \in AllRequests
      /\ stream[t] # NoFd /\ stream[t] \in OpenFds /\ JobFits(request[t], params[t], given[t])
  BY ExecutesFinds DEF Skip, IInv, TypeOK, JobParams
<1> DEFINE d == descriptor[stream[t]]
           size == Len(content[d.file])
           n == request[t].n
<1>2. stream[t] \in Fds /\ d.file \in Files
  BY <1>1 DEF IInv, DescriptorsFit, OpenFds
<1>3. size \in 0 .. MaxSize /\ d.position \in 0 .. size
  BY <1>2 DEF IInv, TypeOK, InFile, End
<1>4. params[t].n \in Int32 /\ params[t].n = ToInt32(n) /\ n \in Int
  BY <1>1, RequestKinds DEF JobParams, JobFits
<1>5. PICK file \in SizeOfFile(d), seeks \in BOOLEAN :
        LET offset == Offset(params[t].n, file.size, file.position)
            moved == seeks /\ file.res = OK /\ file.position + offset <= Int32Max
        IN  /\ descriptor' = [descriptor EXCEPT ![stream[t]].position =
                                  file.position + (IF moved THEN offset ELSE 0)]
            /\ params' = [params EXCEPT
                    ![t].skipped_count = IF moved THEN offset ELSE 0,
                    ![t].n = IF moved THEN offset ELSE @,
                    ![t].result = IF moved THEN OK ELSE NOK]
  BY DEF Skip
<1> DEFINE position == file.position
           offset == Offset(params[t].n, file.size, position)
           moved == seeks /\ file.res = OK /\ position + offset <= Int32Max
           far == IF moved THEN offset ELSE 0
<1>6. position \in {d.position, size} /\ position \in 0 .. size
  BY <1>3, SizesOfFile
<1>7. moved => /\ offset \in 0 .. size - position
               /\ params[t].n < 0 => offset = size - position
               /\ params[t].n >= 0 => offset = Least(params[t].n, size - position)
  <2>1. file.res = OK => file.size = size
    BY SizesOfFile
  <2>2. QED
    BY <1>3, <1>4, <1>6, <2>1, OffsetInFile
<1>8. descriptor' = [descriptor EXCEPT ![stream[t]].position = position + far]
  BY <1>5
<1>9. params' = [params EXCEPT ![t].skipped_count = far,
                               ![t].n = IF moved THEN offset ELSE @,
                               ![t].result = IF moved THEN OK ELSE NOK]
  BY <1>5
<1>10. descriptor'[stream[t]].position = position + far
  BY <1>2, <1>8 DEF IInv, TypeOK
<1> HIDE DEF moved, offset
<1>11. params'[t].skipped_count = far /\ params'[t].result = IF moved THEN OK ELSE NOK
  <2>1. params' = [params EXCEPT ![t] = [params[t] EXCEPT
            !.skipped_count = far,
            !.n = IF moved THEN offset ELSE params[t].n,
            !.result = IF moved THEN OK ELSE NOK]]
    BY <1>1, <1>9
  <2>2. QED
    BY <1>1, <2>1 DEF JobParams
<1>12. far \in 0 .. size - position /\ (~moved => far = 0) /\ (moved => far = offset)
  BY <1>3, <1>6, <1>7
<1> HIDE DEF far, size, position, n
<1>13. n >= 0 => far <= n
  <2>1. n >= 0 => ToInt32(n) <= n /\ (ToInt32(n) < 0 => n > Int32Max)
    BY <1>4, ToInt32NotMore
  <2>2. ToInt32(n) \in Int
    BY <1>4, AnswersTyped
  <2>3. QED
    BY <1>3, <1>4, <1>6, <1>7, <1>12, <2>1, <2>2, Widths DEF Least
<1>14. moved /\ n \in 0 .. Int32Max => far = n \/ position + far = size
  <2>1. n \in 0 .. Int32Max => ToInt32(n) = n
    BY ToInt32Same, Widths
  <2>2. QED
    BY <1>4, <1>3, <1>6, <1>7, <1>12, <2>1, Widths DEF Least
<1>15. /\ position + far \in d.position .. size
       /\ far = position + far - d.position \/ (far = 0 /\ position + far = size)
  <2>1. position = d.position \/ (position = size /\ far = 0)
    BY <1>3, <1>6, <1>12
  <2>2. QED
    BY <1>3, <1>6, <1>12, <2>1
<1>16. OK # NOK
  BY DEF OK, NOK
<1> DEFINE after == descriptor'[stream[t]].position
           count == params'[t].skipped_count
           result == params'[t].result
<1>17. after = position + far /\ count = far /\ (moved <=> result = OK) /\ (~moved <=> result = NOK)
  BY <1>10, <1>11, <1>16
<1> HIDE DEF after, count, result
<1>18. /\ after \in d.position .. size
       /\ count = after - d.position \/ (count = 0 /\ after = size)
       /\ n >= 0 => count <= n
       /\ result = NOK => count = 0
       /\ result = OK /\ n \in 0 .. Int32Max => count = n \/ after = size
  <2>1. /\ after \in d.position .. size
        /\ count = after - d.position \/ (count = 0 /\ after = size)
    BY <1>3, <1>6, <1>12, <1>15, <1>17
  <2>2. n >= 0 => count <= n
    BY <1>13, <1>17
  <2>3. result = NOK => count = 0
    BY <1>12, <1>17
  <2>4. result = OK /\ n \in 0 .. Int32Max => count = n \/ after = size
    BY <1>14, <1>17
  <2>5. QED
    BY <2>1, <2>2, <2>3, <2>4
<1>19. QED
  BY <1>18 DEF End, size, n, after, count, result

LEMMA AvailableStays ==
    ASSUME IInv, NEW t, Available(t), InFile(stream[t])
    PROVE  LET fd == stream[t]
               before == descriptor[fd].position
               after == descriptor'[fd].position
               result == params'[t].result
           IN  /\ result # NOK => result = End(fd) - after
               /\ after \in {before, End(fd)}
               /\ result > 0 => after = before
<1>1. /\ Executes(t, "available") /\ t \in Threads /\ params \in [Threads -> JobParams]
      /\ stream[t] # NoFd /\ stream[t] \in OpenFds
  BY ExecutesFinds DEF Available, IInv, TypeOK, JobParams
<1> DEFINE d == descriptor[stream[t]]
           size == Len(content[d.file])
<1>2. stream[t] \in Fds /\ d.file \in Files
  BY <1>1 DEF IInv, DescriptorsFit, OpenFds
<1>3. size \in 0 .. MaxSize /\ d.position \in 0 .. size
  BY <1>2 DEF IInv, TypeOK, InFile, End
<1>4. PICK file \in SizeOfFile(d), seeks \in BOOLEAN :
        /\ descriptor' = [descriptor EXCEPT ![stream[t]].position = file.position]
        /\ Answers(t, IF seeks /\ file.res = OK
                        THEN ToInt32(ToUint64(file.size - file.position)) ELSE NOK)
  BY DEF Available
<1> DEFINE position == file.position
           told == seeks /\ file.res = OK
           left == size - position
<1>5. position \in {d.position, size} /\ (told => file.size = size)
  BY SizesOfFile
<1>6. descriptor'[stream[t]].position = position
  BY <1>2, <1>4 DEF IInv, TypeOK
<1> HIDE DEF size, d, position
<1>7. left \in 0 .. Int32Max
  BY <1>3, <1>5, Widths
<1>8. ToInt32(ToUint64(left)) = left
  <2> HIDE DEF left
  <2>1. QED
    BY <1>7, ToUint64Of, ToInt32Same
<1>9. Answers(t, IF told THEN left ELSE NOK)
  BY <1>4, <1>5, <1>8 DEF position
<1> HIDE DEF told, left
<1>10. params'[t].result = IF told THEN left ELSE NOK
  BY <1>1, <1>7, <1>9, AnswersIs, AnswersTyped
<1>11. NOK = -1
  BY DEF NOK
<1>12. QED
  BY <1>3, <1>5, <1>6, <1>7, <1>10, <1>11 DEF End, left, size, d

(* What a write leaves in the file are the first bytes the array held when  *)
(* the native was called.                                                   *)
THEOREM BytesWritten == Spec => WrittenAsGiven
<1> DEFINE Step ==
      \A t \in Threads :
        LET fd == stream[t]
            f == descriptor[fd].file
            k == params'[t].result
            end == descriptor'[fd].position
        IN  Executed(t) /\ request[t].op = "write" /\ ~request[t].immortal /\ k > 0
                => SubSeq(content'[f], end - k + 1, end) = SubSeq(given[t], 1, k)
<1>1. IInv /\ [Next]_vars => [Step]_vars
  <2> SUFFICES ASSUME IInv, Next
               PROVE  Step
    OBVIOUS
  <2>1. \A t \in Threads : Executed(t) /\ request[t].op = "write" => Write(t)
    BY ExecutedByAction, ActionOf
  <2>2. QED
    BY <2>1, WriteGiven
<1>2. QED
  BY <1>1, InductiveInvariant, PTL DEF Spec, WrittenAsGiven

(* The callback of a read changes of the Java array what the read's result  *)
(* says, at most.                                                           *)
THEOREM BytesRead == Spec => OnlyReadBytes
<1> DEFINE Step ==
      \A t \in Threads, i \in 1 .. ArrayLength :
        OnDone(t) /\ array'[i] # array[i] => i <= params[t].result
<1>1. IInv /\ [Next]_vars => [Step]_vars
  BY ReleasedRead
<1>2. QED
  BY <1>1, InductiveInvariant, PTL DEF Spec, OnlyReadBytes

(* From within a file no skip leaves it or goes back, whatever its argument *)
(* and whatever seek fails, and it tells how far it went unless it ends at  *)
(* the end of the file.                                                     *)
THEOREM SkipsInFile == Spec => SkipWithinFile
<1> DEFINE Step ==
      \A t \in Threads :
        LET fd == stream[t]
            n == request[t].n
            before == descriptor[fd].position
            after == descriptor'[fd].position
            count == params'[t].skipped_count
        IN  Executed(t) /\ request[t].op = "skip" /\ InFile(fd)
                => /\ after \in before .. End(fd)
                   /\ count = after - before \/ (count = 0 /\ after = End(fd))
                   /\ n >= 0 => count <= n
                   /\ params'[t].result = NOK => count = 0
                   /\ params'[t].result = OK /\ n \in 0 .. Int32Max
                        => count = n \/ after = End(fd)
<1>1. IInv /\ [Next]_vars => [Step]_vars
  <2> SUFFICES ASSUME IInv, Next
               PROVE  Step
    OBVIOUS
  <2>1. \A t \in Threads : Executed(t) /\ request[t].op = "skip" => Skip(t)
    BY ExecutedByAction, ActionOf
  <2>2. QED
    BY <2>1, SkipStays
<1>2. QED
  BY <1>1, InductiveInvariant, PTL DEF Spec, SkipWithinFile

(* What available answers without an error can be read next, whichever of   *)
(* its seeks fails, and if it is more than 0 from where the stream was.     *)
THEOREM AvailableTold == Spec => AvailableIsRest
<1> DEFINE Step ==
      \A t \in Threads :
        LET fd == stream[t]
            before == descriptor[fd].position
            after == descriptor'[fd].position
            result == params'[t].result
        IN  Executed(t) /\ request[t].op = "available" /\ InFile(fd)
                => /\ result # NOK => result = End(fd) - after
                   /\ after \in {before, End(fd)}
                   /\ result > 0 => after = before
<1>1. IInv /\ [Next]_vars => [Step]_vars
  <2> SUFFICES ASSUME IInv, Next
               PROVE  Step
    OBVIOUS
  <2>1. \A t \in Threads : Executed(t) /\ request[t].op = "available" => Available(t)
    BY ExecutedByAction, ActionOf
  <2>2. QED
    BY <2>1, AvailableStays
<1>2. QED
  BY <1>1, InductiveInvariant, PTL DEF Spec, AvailableIsRest
=============================================================================
