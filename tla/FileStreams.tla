----------------------------- MODULE FileStreams -----------------------------
(***************************************************************************)
(* File streams: the natives of LLFS_File_impl.c and their on-done         *)
(* callbacks, create and delete of LLFS_impl.c, the actions of             *)
(* fs_helper_posix.c, and the copies of Java arrays of SNI_Array_helper.c. *)
(*                                                                         *)
(* A native runs in the virtual machine task, up to the post, and its      *)
(* callback as well, in a later step; the action runs in the worker task   *)
(* in between, and Java code of other threads too.  Of the async worker    *)
(* only what AsyncCall promises is used: the calls execute one at a time,  *)
(* in the order posted, once.  There is a job for each thread.             *)
(*                                                                         *)
(* External: POSIX (a file system that may fail or be full and does not    *)
(* remove an open file), SNI and Java.  A Java thread has at most one      *)
(* stream, which no other thread uses, and creates and deletes files when  *)
(* it has none.  All of them share one array.                              *)
(***************************************************************************)
EXTENDS Integers, Sequences, FiniteSets

CONSTANTS
    Threads,        \* Java threads
    Files,          \* paths
    NoFile,
    FdCount,        \* descriptors of the task
    ArrayLength,    \* of the Java array
    BufferSize,     \* FS_IO_BUFFER_SIZE
    MaxSize,        \* bytes a file can have
    Narrow, Wide,   \* numbers of values of int32_t (and off_t), of int64_t
    Lengths,        \* what Java passes to read and write
    SkipArguments   \* what Java passes to skip, as uint64_t

ASSUME FileStreamsAssumption ==
    /\ NoFile \notin Files
    /\ {FdCount, ArrayLength, BufferSize, MaxSize} \subseteq Nat \ {0}
    /\ {Narrow, Wide} \subseteq Nat \ {0}
    /\ Narrow % 2 = 0 /\ Wide % Narrow = 0
    /\ 2 * (MaxSize + 1) < Narrow /\ 2 * ArrayLength < Narrow /\ 2 * FdCount < Narrow
    /\ Lengths \subseteq 0 .. ArrayLength
    /\ SkipArguments \subseteq 0 .. Wide - 1

VARIABLES
    call,           \* the call of each thread: "java", "posted", "done"
    request,        \* its native and arguments
    params,         \* the parameters of its job
    queue,          \* the calls posted, oldest first
    exists, content,\* the files
    descriptor,     \* what each descriptor refers to
    stream,         \* the descriptor of the stream each Java thread has
    array,          \* the Java array
    given           \* history: what the array held when a write was posted

call_vars == <<call, request, params, queue>>
file_vars == <<exists, content>>
vars == <<call_vars, file_vars, descriptor, stream, array, given>>

-----------------------------------------------------------------------------
\* LLFS_OK, LLFS_NOK, LLFS_EOF, LLFS_NOT_CREATED.
OK == 0
NOK == -1
EOF == -2
NOT_CREATED == -3

Int32Max == (Narrow \div 2) - 1
Int32 == {x - Narrow \div 2 : x \in 0 .. Narrow - 1}

\* Mutant: the value is kept as it is.
ToInt32Unchanged(x) == x

\* Conversions to int32_t, int64_t and uint64_t.
ToInt32(x) == ((x + Narrow \div 2) % Narrow) - Narrow \div 2
ToInt64(x) == ((x + Wide \div 2) % Wide) - Wide \div 2
ToUint64(x) == x % Wide

Least(a, b) == IF a <= b THEN a ELSE b
Largest(a, b) == IF a >= b THEN a ELSE b

Bytes == {0, 1}
Junk == 2      \* in a job's buffer: whatever byte an earlier call left
NoFd == 0
Fds == 1 .. FdCount
Modes == {"read", "write", "append"}

Zeros == [i \in 1 .. ArrayLength |-> 0]

Closed == [file |-> NoFile, mode |-> "read", position |-> 0]
OpenFds == {fd \in Fds : descriptor[fd] # Closed}

\* s with the first k bytes of data at offset `at`; a hole reads as zeros.
Patched(s, at, data, k) ==
    [i \in 1 .. Largest(Len(s), IF k = 0 THEN 0 ELSE at + k) |->
        IF i > at /\ i <= at + k THEN data[i - at]
        ELSE IF i <= Len(s) THEN s[i] ELSE 0]

-----------------------------------------------------------------------------
NoRequest == [op |-> "none"]

OpenRequests == [op : {"open"}, file : Files, mode : Modes]
PathRequests == [op : {"create", "delete"}, file : Files]
ReadRequests ==
    [op : {"read"}, length : Lengths, immortal : BOOLEAN]
        \union [op : {"skip"}, n : {ToInt64(x) : x \in SkipArguments}]
        \union [op : {"read_byte", "available"}]
WriteRequests ==
    [op : {"write"}, length : Lengths, immortal : BOOLEAN]
        \union [op : {"write_byte"}, data : Bytes]
CloseRequests == [op : {"close"}]

NoParams == [buffer |-> [i \in 1 .. BufferSize |-> Junk], length |-> 0, n |-> 0,
             result |-> 0, skipped_count |-> 0]

TypeOK ==
    /\ call \in [Threads -> {"java", "posted", "done"}]
    /\ request \in [Threads -> {NoRequest} \union OpenRequests \union PathRequests
                                  \union ReadRequests \union WriteRequests
                                  \union CloseRequests]
    /\ params \in [Threads -> [buffer : [1 .. BufferSize -> Bytes \union {Junk}],
                               length : 0 .. ArrayLength,
                               n : Int32,
                               result : Int32,
                               skipped_count : Int32]]
    /\ queue \in Seq(Threads)
    /\ exists \in [Files -> BOOLEAN]
    /\ content \in [Files -> Seq(Bytes)]
    /\ \A f \in Files : Len(content[f]) <= MaxSize
    /\ descriptor \in [Fds -> [file : Files \union {NoFile}, mode : Modes,
                               position : 0 .. Int32Max]]
    /\ stream \in [Threads -> Fds \union {NoFd}]
    /\ array \in [1 .. ArrayLength -> Bytes]
    /\ given \in [Threads -> [1 .. ArrayLength -> Bytes]]

Init ==
    /\ call = [t \in Threads |-> "java"]
    /\ request = [t \in Threads |-> NoRequest]
    /\ params = [t \in Threads |-> NoParams]
    /\ queue = <<>>
    /\ exists = [f \in Files |-> FALSE]
    /\ content = [f \in Files |-> <<>>]
    /\ descriptor = [fd \in Fds |-> Closed]
    /\ stream = [t \in Threads |-> NoFd]
    /\ array = Zeros
    /\ given = [t \in Threads |-> Zeros]

-----------------------------------------------------------------------------
(* The natives, up to the post.                                             *)

\* What thread t may call: a stream is read or written as it was opened.
Requests(t) ==
    CASE stream[t] = NoFd -> OpenRequests \union PathRequests
      [] stream[t] # NoFd /\ descriptor[stream[t]].mode = "read" ->
            ReadRequests \union CloseRequests
      [] stream[t] # NoFd /\ descriptor[stream[t]].mode # "read" ->
            WriteRequests \union CloseRequests

\* Mutant: the array's content is copied for reads.
GetArrayElementsForReads(p, r) ==
    LET length == IF r.immortal THEN r.length ELSE Least(r.length, BufferSize)
        do_copy == r.op = "read" /\ ~r.immortal
    IN  [p EXCEPT !.length = length,
                  !.buffer = IF do_copy THEN Patched(@, 0, array, length) ELSE @]

\* SNI_getArrayElements: an immortal array is used in place, of another the
\* first bytes are copied to the buffer, if its content is needed.
GetArrayElements(p, r) ==
    LET length == IF r.immortal THEN r.length ELSE Least(r.length, BufferSize)
        do_copy == r.op = "write" /\ ~r.immortal
    IN  [p EXCEPT !.length = length,
                  !.buffer = IF do_copy THEN Patched(@, 0, array, length) ELSE @]

\* The parameters a native sets.
SetParams(p, r) ==
    CASE r.op \in {"read", "write"} -> GetArrayElements(p, r)
      [] r.op = "read_byte" -> [p EXCEPT !.length = 1]
      [] r.op = "write_byte" -> [p EXCEPT !.length = 1, !.buffer[1] = r.data]
      [] r.op = "skip" -> [p EXCEPT !.n = ToInt32(r.n)]
      [] OTHER -> p

(* A native that fails (path or array refused, no message for the post)     *)
(* frees its job and changes nothing.                                       *)
Native(t) ==
    /\ call[t] = "java"
    /\ \E r \in Requests(t) :
        /\ request' = [request EXCEPT ![t] = r]
        /\ params' = [params EXCEPT ![t] = SetParams(@, r)]
        /\ given' = [given EXCEPT ![t] = IF r.op = "write" THEN array ELSE @]
    /\ call' = [call EXCEPT ![t] = "posted"]
    /\ queue' = Append(queue, t)
    /\ UNCHANGED <<file_vars, descriptor, stream, array>>

(* Java code of a thread that is in no call writes the array.               *)
JavaWrites ==
    /\ \E t \in Threads : call[t] = "java"
    /\ \E b \in Bytes : array' = [i \in 1 .. ArrayLength |-> b]
    /\ UNCHANGED <<call_vars, file_vars, descriptor, stream, given>>

-----------------------------------------------------------------------------
(* The actions, in the worker task.  t is the thread of the oldest call.    *)
Executes(t, op) ==
    /\ queue # <<>> /\ t = Head(queue)
    /\ request[t].op = op
    /\ queue' = Tail(queue)
    /\ call' = [call EXCEPT ![t] = "done"]
    /\ given' = [given EXCEPT ![t] = Zeros]
    /\ UNCHANGED <<request, stream>>

Answers(t, result) == params' = [params EXCEPT ![t].result = result]

Fails(t) ==
    /\ Answers(t, NOK)
    /\ UNCHANGED <<file_vars, descriptor, array>>

(* LLFS_File_IMPL_open_action.                                              *)
Open(t) ==
    LET f == request[t].file
        mode == request[t].mode
    IN  /\ Executes(t, "open")
        /\ \/ /\ exists[f] \/ mode # "read"
              /\ \E fd \in Fds :
                    /\ fd \notin OpenFds
                    /\ \A other \in Fds \ OpenFds : fd <= other
                    /\ descriptor' = [descriptor EXCEPT
                            ![fd] = [file |-> f, mode |-> mode, position |-> 0]]
                    /\ Answers(t, fd)
              /\ exists' = [exists EXCEPT ![f] = TRUE]
              /\ content' = [content EXCEPT ![f] = IF mode = "write" THEN <<>> ELSE @]
              /\ UNCHANGED array
           \/ Fails(t)

\* Mutant: the file that was created stays open.
CreateLeftOpen(t) ==
    LET f == request[t].file
    IN  /\ Executes(t, "create")
        /\ \/ /\ ~exists[f]
              /\ \E fd \in Fds \ OpenFds :
                    descriptor' = [descriptor EXCEPT
                            ![fd] = [file |-> f, mode |-> "write", position |-> 0]]
              /\ exists' = [exists EXCEPT ![f] = TRUE]
              /\ Answers(t, OK)
              /\ UNCHANGED <<content, array>>
           \/ Fails(t)

(* LLFS_IMPL_create_action: opened exclusively and closed, which may fail.  *)
Create(t) ==
    LET f == request[t].file
    IN  /\ Executes(t, "create")
        /\ \/ /\ ~exists[f] /\ Fds # OpenFds
              /\ exists' = [exists EXCEPT ![f] = TRUE]
              /\ \E result \in {OK, NOK} : Answers(t, result)
              /\ UNCHANGED <<content, descriptor, array>>
           \/ /\ exists[f]
              /\ Answers(t, NOT_CREATED)
              /\ UNCHANGED <<file_vars, descriptor, array>>
           \/ Fails(t)

(* LLFS_IMPL_delete_action.                                                 *)
Delete(t) ==
    LET f == request[t].file
    IN  /\ Executes(t, "delete")
        /\ \/ /\ exists[f] /\ \A fd \in OpenFds : descriptor[fd].file # f
              /\ exists' = [exists EXCEPT ![f] = FALSE]
              /\ content' = [content EXCEPT ![f] = <<>>]
              /\ Answers(t, OK)
              /\ UNCHANGED <<descriptor, array>>
           \/ Fails(t)

(* LLFS_File_IMPL_write_action.  A full file takes fewer bytes.             *)
WriteBytes(t, data) ==
    LET fd == stream[t]
        d == descriptor[fd]
        length == params[t].length
        at == IF d.mode = "append" THEN Len(content[d.file]) ELSE d.position
        written == Least(length, MaxSize - at)
    IN  \/ /\ content' = [content EXCEPT ![d.file] = Patched(@, at, data, written)]
           /\ descriptor' = [descriptor EXCEPT ![fd].position = at + written]
           /\ Answers(t, IF written = 0 /\ length > 0 THEN NOK ELSE written)
           /\ UNCHANGED <<exists, array>>
        \/ Fails(t)

Write(t) ==
    /\ Executes(t, "write")
    /\ WriteBytes(t, IF request[t].immortal THEN array ELSE params[t].buffer)

WriteByte(t) == Executes(t, "write_byte") /\ WriteBytes(t, params[t].buffer)

(* LLFS_File_IMPL_read_action.                                              *)
ReadBytes(t, immortal) ==
    LET fd == stream[t]
        d == descriptor[fd]
        rest == SubSeq(content[d.file], d.position + 1, Len(content[d.file]))
        count == Least(params[t].length, Len(rest))
        result == IF count = 0 THEN EOF ELSE count
    IN  \/ /\ descriptor' = [descriptor EXCEPT ![fd].position = @ + count]
           /\ IF immortal
                THEN array' = Patched(array, 0, rest, count) /\ Answers(t, result)
                ELSE /\ params' = [params EXCEPT ![t].buffer = Patched(@, 0, rest, count),
                                                 ![t].result = result]
                     /\ UNCHANGED array
           /\ UNCHANGED file_vars
        \/ Fails(t)

Read(t) == Executes(t, "read") /\ ReadBytes(t, request[t].immortal)

ReadByte(t) == Executes(t, "read_byte") /\ ReadBytes(t, FALSE)

(* LLFS_File_IMPL_close_action: the descriptor is released in any case.     *)
Close(t) ==
    /\ Executes(t, "close")
    /\ descriptor' = [descriptor EXCEPT ![stream[t]] = Closed]
    /\ \E result \in {OK, NOK} : Answers(t, result)
    /\ UNCHANGED <<file_vars, array>>

(* FS_size_of_file: its result, the size, and the position it leaves.  Any   *)
(* lseek may fail.  When the way back does, or `cur` is -1, the position    *)
(* stays at the end: `res == LLFS_NOK` compares and the result stays OK.    *)
SizeOfFile(d) ==
    LET end == Len(content[d.file])
    IN  {[res |-> OK, size |-> end, position |-> d.position],
         [res |-> OK, size |-> end, position |-> end],
         [res |-> NOK, size |-> 0, position |-> d.position]}

\* Mutant: the offset is limited to the size of the file.
OffsetOfSize(n, size, position) ==
    LET max_offset == ToUint64(size)
        limited == IF ToUint64(n) > max_offset THEN ToInt64(max_offset) ELSE n
        offset == ToInt32(limited)
    IN  IF offset < 0 \/ offset # limited THEN Int32Max ELSE offset

\* The offset LLFS_File_IMPL_skip_action passes to lseek: n is compared with
\* max_offset as a uint64_t.
Offset(n, size, position) ==
    LET max_offset == ToUint64(size - position)
        limited == IF ToUint64(n) > max_offset THEN ToInt64(max_offset) ELSE n
        offset == ToInt32(limited)
    IN  IF offset < 0 \/ offset # limited THEN Int32Max ELSE offset

(* LLFS_File_IMPL_skip_action.  lseek fails past the range of off_t, and    *)
(* may fail otherwise, when it asks for the position or when it moves it.   *)
Skip(t) ==
    LET fd == stream[t]
    IN  /\ Executes(t, "skip")
        /\ \E file \in SizeOfFile(descriptor[fd]), seeks \in BOOLEAN :
            LET offset == Offset(params[t].n, file.size, file.position)
                moved == seeks /\ file.res = OK /\ file.position + offset <= Int32Max
            IN  /\ descriptor' = [descriptor EXCEPT ![fd].position =
                                      file.position + (IF moved THEN offset ELSE 0)]
                /\ params' = [params EXCEPT
                        ![t].skipped_count = IF moved THEN offset ELSE 0,
                        ![t].n = IF moved THEN offset ELSE @,
                        ![t].result = IF moved THEN OK ELSE NOK]
        /\ UNCHANGED <<file_vars, array>>

\* Mutant: the position is asked for before the size.
AvailableFromFirst(t) ==
    LET fd == stream[t]
        d == descriptor[fd]
    IN  /\ Executes(t, "available")
        /\ \E file \in SizeOfFile(d), seeks \in BOOLEAN :
            /\ descriptor' = [descriptor EXCEPT ![fd].position = file.position]
            /\ Answers(t, IF seeks /\ file.res = OK
                            THEN ToInt32(ToUint64(file.size - d.position)) ELSE NOK)
        /\ UNCHANGED <<file_vars, array>>

(* LLFS_File_IMPL_available_action: an error if the size or the position    *)
(* cannot be had.                                                           *)
Available(t) ==
    LET fd == stream[t]
    IN  /\ Executes(t, "available")
        /\ \E file \in SizeOfFile(descriptor[fd]), seeks \in BOOLEAN :
            /\ descriptor' = [descriptor EXCEPT ![fd].position = file.position]
            /\ Answers(t, IF seeks /\ file.res = OK
                            THEN ToInt32(ToUint64(file.size - file.position)) ELSE NOK)
        /\ UNCHANGED <<file_vars, array>>

-----------------------------------------------------------------------------
(* The on-done callbacks.                                                   *)

\* Mutant: all that was asked for is copied.
ReleasedWhole(t) == Patched(array, 0, params[t].buffer, params[t].length)

\* SNI_releaseArrayElements: the bytes read are copied to an array that is
\* not immortal.
Released(t) == Patched(array, 0, params[t].buffer, params[t].result)

ReadDone(t) ==
    request[t].op = "read" /\ params[t].result \notin {NOK, EOF}

\* Java keeps the descriptor of the stream it opened, and forgets the one it
\* closed.
StreamDone(t) ==
    CASE request[t].op = "open" /\ params[t].result # NOK -> params[t].result
      [] request[t].op = "close" -> NoFd
      [] OTHER -> stream[t]

OnDone(t) ==
    /\ call[t] = "done"
    /\ call' = [call EXCEPT ![t] = "java"]
    /\ array' = IF ReadDone(t) /\ ~request[t].immortal THEN Released(t) ELSE array
    /\ stream' = [stream EXCEPT ![t] = StreamDone(t)]
    /\ request' = [request EXCEPT ![t] = NoRequest]
    /\ params' = [params EXCEPT ![t] = NoParams]
    /\ UNCHANGED <<queue, file_vars, descriptor, given>>

-----------------------------------------------------------------------------
Action(t) ==
    \/ Open(t) \/ Create(t) \/ Delete(t) \/ Write(t) \/ WriteByte(t)
    \/ Read(t) \/ ReadByte(t) \/ Close(t) \/ Skip(t) \/ Available(t)

Next == JavaWrites \/ \E t \in Threads : Native(t) \/ Action(t) \/ OnDone(t)

Spec == Init /\ [][Next]_vars

-----------------------------------------------------------------------------
\* The descriptor that thread t has to give back: the one an open returned, or
\* that of its stream until it is closed.
Held(t) ==
    CASE call[t] = "done" /\ request[t].op = "open" /\ params[t].result # NOK ->
            {params[t].result}
      [] call[t] = "done" /\ request[t].op = "close" -> {}
      [] OTHER -> {stream[t]} \ {NoFd}

(* Every open descriptor belongs to one stream, or to one open that is not  *)
(* answered yet, and each of those has its own: the worker leaks none, and  *)
(* no thread uses a descriptor that was given to another in the meantime.   *)
DescriptorsOwned ==
    /\ UNION {Held(t) : t \in Threads} = OpenFds
    /\ \A t, u \in Threads : t # u => Held(t) \intersect Held(u) = {}

\* Thread t's call executes in this step.
Executed(t) == call[t] = "posted" /\ call'[t] = "done"

(* What a write leaves in the file are the first bytes the array held when  *)
(* the native was called, although Java may change it before the worker     *)
(* writes and the buffer of the job held other bytes before.                *)
WrittenAsGiven ==
    [][\A t \in Threads :
        LET fd == stream[t]
            f == descriptor[fd].file
            k == params'[t].result
            end == descriptor'[fd].position
        IN  Executed(t) /\ request[t].op = "write" /\ ~request[t].immortal /\ k > 0
                => SubSeq(content'[f], end - k + 1, end) = SubSeq(given[t], 1, k)]_vars

(* The callback of a read changes of the Java array what the read's result  *)
(* says, at most: no byte that an earlier call left in the buffer.          *)
OnlyReadBytes ==
    [][\A t \in Threads, i \in 1 .. ArrayLength :
        OnDone(t) /\ array'[i] # array[i] => i <= params[t].result]_vars

End(fd) == Len(content[descriptor[fd].file])
InFile(fd) == descriptor[fd].position <= End(fd)

(* "Saturate the offset to limit the new position to the size of the file": *)
(* from within a file no skip leaves it or goes back, whatever its argument *)
(* and whatever seek fails.  It tells how far it went, which is as far as   *)
(* asked if the argument is an int32_t, unless it ends at the end of the    *)
(* file, where a failed seek may have left it.                              *)
SkipWithinFile ==
    [][\A t \in Threads :
        LET fd == stream[t]
            n == request[t].n
            before == descriptor[fd].position
            after == descriptor'[fd].position
            count == params'[t].skipped_count
        IN  Executed(t) /\ request[t].op = "skip" /\ InFile(fd)
                => /\ after \in before .. End(fd)
                   /\ count = after - before \/ (count = 0 /\ after = End(fd))
                   /\ n >= 0 => count <= n
                   /\ params'[t].result = NOK => count = 0
                   /\ params'[t].result = OK /\ n \in 0 .. Int32Max
                        => count = n \/ after = End(fd)]_vars

(* What available answers without an error are the bytes that can be read   *)
(* next, whichever of its seeks to the end and back fails, and if there are *)
(* any, then from where the stream was.                                     *)
AvailableIsRest ==
    [][\A t \in Threads :
        LET fd == stream[t]
            before == descriptor[fd].position
            after == descriptor'[fd].position
            result == params'[t].result
        IN  Executed(t) /\ request[t].op = "available" /\ InFile(fd)
                => /\ result # NOK => result = End(fd) - after
                   /\ after \in {before, End(fd)}
                   /\ result > 0 => after = before]_vars
=============================================================================
