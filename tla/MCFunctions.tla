---------------------------- MODULE MCFunctions ----------------------------
(***************************************************************************)
(* The functions of FileData, Library, Search, Commands, Emulate and       *)
(* Keymap, each called once with every input of a small set, against what  *)
(* it is for.                                                              *)
(***************************************************************************)
EXTENDS FileData, Search, Emulate, Keymap

CONSTANTS
    MaxLength,    \* bound: the longest file
    MaxBlock,     \* bound: the highest number of a data block
    MaxRequest,   \* bound: the most bytes a read asks for
    MaxAddress,   \* bound: the highest address of a memory
    MaxCommand,   \* bound: the longest command line
    MaxHostLine,  \* bound: the longest command line of a host
    MaxHostCalls, \* bound: the most descriptor calls of an emulated program
    MaxHostFd,    \* bound: the highest descriptor it closes
    MaxText,      \* bound: the longest text that is searched
    MaxCodes      \* bound: the most scan codes in a row

ASSUME BoundsAssumption ==
    {MaxLength, MaxBlock, MaxRequest, MaxAddress, MaxCommand, MaxHostLine,
     MaxHostCalls, MaxHostFd, MaxText, MaxCodes} \subseteq Nat

ASSUME CharactersAssumption == {"x", "y"} \cap {Space, Nul} = {}

VARIABLES
    call,     \* the function and its arguments
    called,   \* whether it has been called
    result    \* what it returned

callVars == <<call, called, result>>

-----------------------------------------------------------------------------
(* The inputs.                                                             *)

(* Data blocks in any order, and the files that have room in them.         *)
Layouts == {blocks \in [1 .. INODE_BLOCKS -> 0 .. MaxBlock] :
                \A i, j \in 1 .. INODE_BLOCKS : blocks[i] = blocks[j] => i = j}
Inodes  == {inode \in [length : 0 .. MaxLength, blocks : Layouts] : ~TooBig(inode)}

Addresses == 0 .. MaxAddress

(* A memory in which every byte is different.                              *)
Distinct == [a \in Addresses |-> a + 1]

(* Two strings of at most two characters, one after the other.             *)
TwoStrings == {m \in [0 .. 5 -> {0, 1, 2}] : m[2] = NUL /\ m[5] = NUL}

Formats == {<<"t">>, <<"%", "u">>, <<"%", "d", "t">>, <<"%", "x">>,
            <<"%", "#", "x">>, <<"%", "%", "%", "u">>, <<"%", "z", "t">>}

(* Command lines of letters and spaces.                                    *)
CommandLines == UNION {[1 .. n -> {"x", "y", Space}] : n \in 1 .. MaxCommand}

(* Command lines of a host, and a child that exits or is killed.           *)
HostLines == UNION {[1 .. n -> {"x", Space, NewLine}] : n \in 1 .. MaxHostLine}
Children  == [exits : BOOLEAN, status : {0, 3, KILL, 11, 255}]

(* Descriptor calls of an emulated program: at most MaxHostCalls.          *)
HostCalls == [open : {".", "f"}] \cup [close : 3 .. MaxHostFd] \cup [vidmap : {0}]
HostRuns  == UNION {[1 .. n -> HostCalls] : n \in 1 .. MaxHostCalls}

Texts == UNION {[1 .. n -> {1, 2, NL}] : n \in 0 .. MaxText}

KeyCodes == {c \in Codes : c.down \/ c.key \in ShiftKeys \cup {"CTRL", "ALT"}}

(* Only a key that is held is released.                                    *)
CodeSequences ==
    {codes \in UNION {[1 .. n -> KeyCodes] : n \in 1 .. MaxCodes} :
        \A n \in 1 .. Len(codes) :
            ~codes[n].down => codes[n].key \in HeldAfter(codes, n - 1)}

CallInit ==
    /\ called = FALSE
    /\ result = <<>>
    /\ \/ \E inode \in Inodes, length \in 0 .. MaxRequest :
            \E offset \in 0 .. inode.length :
              call = [f |-> "read_data", inode |-> inode,
                      offset |-> offset, length |-> length]
       \/ \E f \in {"memcpy", "memmove", "memset", "ece391_memcpy", "ece391_memset"}, n \in Addresses :
            \E dest, src \in 0 .. MaxAddress + 1 - n :
              call = [f |-> f, dest |-> dest, src |-> src, n |-> n]
       \/ \E size \in {2, 4}, n \in 0 .. 2 :
            \E dest \in 0 .. MaxAddress + 1 - size * n :
              call = [f |-> "memset_units", dest |-> dest, n |-> n,
                      unit |-> [k \in 1 .. size |-> 100 + k]]
       \/ \E mem \in TwoStrings, n \in 0 .. 3 :
            call = [f |-> "strings", mem |-> mem, n |-> n]
       \/ \E text \in Texts, s \in {<<1>>, <<1, 2>>, <<1, 1>>} :
            call = [f |-> "grep", text |-> text, s |-> s]
       \/ \E value \in 0 .. WORD - 1, radix \in {2, 10, 16} :
            call = [f |-> "itoa", value |-> value, radix |-> radix]
       \/ \E format \in Formats, value \in 0 .. WORD - 1 :
            call = [f |-> "printf", format |-> format, value |-> value]
       \/ \E cmd \in CommandLines, nbytes \in {LINE_BUFFER, LINE_BUFFER + 2} :
            call = [f |-> "execute", cmd |-> cmd, nbytes |-> nbytes]
       \/ \E cmd \in HostLines, nbytes \in 0 .. MaxHostLine + 1 :
            call = [f |-> "emulate", cmd |-> cmd, nbytes |-> nbytes]
       \/ \E cmd \in HostLines, child \in Children :
            call = [f |-> "child", cmd |-> cmd, child |-> child]
       \/ \E n \in 0 .. NAME_SIZE, nbytes \in 0 .. NAME_SIZE + 2 :
            call = [f |-> "name", name |-> [k \in 1 .. n |-> k], nbytes |-> nbytes]
       \/ \E calls \in HostRuns : call = [f |-> "host", calls |-> calls]
       \/ \E eax \in 0 .. WORD - 1 : call = [f |-> "do_call", eax |-> eax]
       \/ \E screen_start \in 0 .. MEM_132MB + MEM_128MB :
            call = [f |-> "vidmap", screen_start |-> screen_start]
       \/ \E eax \in -2 .. 12 : call = [f |-> "syscall", eax |-> eax]
       \/ \E codes \in CodeSequences : call = [f |-> "keys", codes |-> codes]

-----------------------------------------------------------------------------
(* The calls.                                                              *)

Return(f, value) ==
    /\ ~called
    /\ call.f = f
    /\ called' = TRUE
    /\ result' = value
    /\ UNCHANGED call

CallReadData == Return("read_data", ReadData(call.inode, call.offset, call.length))
CallMemcpy   == Return("memcpy", Memcpy(Distinct, call.dest, call.src, call.n))
CallMemmove  == Return("memmove", Memmove(Distinct, call.dest, call.src, call.n))
CallMemset   == Return("memset", Memset(Distinct, call.dest, 0, call.n))
CallUserMemcpy ==
    Return("ece391_memcpy", ece391_memcpy(Distinct, call.dest, call.src, call.n))
CallUserMemset ==
    Return("ece391_memset", ece391_memset(Distinct, call.dest, 0, call.n))
CallMemsetUnits ==
    Return("memset_units", MemsetUnits(Distinct, call.dest, call.unit, call.n))
CallStrings  ==
    Return("strings", [cmp  |-> Strncmp(call.mem, 0, 3, call.n),
                       user |-> ece391_strncmp(call.mem, 0, 3, call.n),
                       all  |-> ece391_strcmp(call.mem, 0, 3),
                       cpy  |-> Strcpy(call.mem, 0, 3),
                       ncpy |-> Strncpy(call.mem, 0, 3, call.n)])
CallGrep     == Return("grep", DoOneFile(call.text, call.s))
CallItoa     ==
    Return("itoa", [kernel |-> Itoa(call.value, call.radix),
                    user   |-> ece391_itoa(Distinct, call.value, 1, call.radix)])
CallPrintf   == Return("printf", Printf(call.format, <<call.value>>))
CallExecute  ==
    Return("execute", [name |-> NameOf(call.cmd),
                       args |-> Getargs(ArgsOf(call.cmd), call.nbytes)])
CallEmulate  ==
    Return("emulate", [argv |-> Argv(call.cmd),
                       got  |-> ece391_getargs(Argv(call.cmd), call.nbytes)])
CallChild    == Return("child", ece391_execute(call.cmd, call.child))
CallName     ==
    Return("name", [kernel |-> read_dir(call.name, NAME_SIZE, Nul),
                    host   |-> ReadEntry(call.name, call.nbytes)])
CallDoCall   == Return("do_call", DO_CALL(call.eax))

(* A program that closes what it has been given, and opens the directory   *)
(* only while it does not have it open.                                    *)
HostStep(run, c) ==
    IF "vidmap" \in DOMAIN c THEN [run EXCEPT !.h = ece391_vidmap(@)]
    ELSE IF "open" \in DOMAIN c
      THEN [h      |-> ece391_open(run.h, c.open),
            held   |-> run.held \cup {[fd |-> Opened(run.h, c.open), name |-> c.open]},
            polite |-> run.polite /\ ~(c.open = "." /\ \E x \in run.held : x.name = ".")]
      ELSE [h      |-> ece391_close(run.h, c.close),
            held   |-> {x \in run.held : x.fd # c.close},
            polite |-> run.polite /\ \E x \in run.held : x.fd = c.close]

HostRun(calls) ==
    LET after[n \in 0 .. Len(calls)] ==
            IF n = 0 THEN [h |-> NoHost, held |-> {}, polite |-> TRUE]
                     ELSE HostStep(after[n - 1], calls[n])
    IN  after[Len(calls)]

CallHost     == Return("host", HostRun(call.calls))
CallVidmap   == Return("vidmap", VidmapAccepts(call.screen_start))
CallSyscall  == Return("syscall", Dispatch(call.eax))
CallKeys     == Return("keys", Typed(call.codes))

CallNext ==
    \/ CallReadData \/ CallMemcpy \/ CallMemmove \/ CallMemset \/ CallMemsetUnits \/ CallStrings
    \/ CallItoa \/ CallPrintf \/ CallExecute \/ CallVidmap \/ CallSyscall
    \/ CallKeys \/ CallGrep \/ CallEmulate \/ CallChild \/ CallName \/ CallHost
    \/ CallDoCall \/ CallUserMemcpy \/ CallUserMemset

CallSpec == CallInit /\ [][CallNext]_callVars

-----------------------------------------------------------------------------
(* Properties.                                                             *)

Called(f) == called /\ call.f = f

(* A read returns the bytes of the file at the offset, and as many as were *)
(* asked for or are left, whenever the block count is taken from the start *)
(* of the file or the read stays in one block or the blocks follow each    *)
(* other; and it never returns more or fewer bytes.                        *)
DataIsTheFile ==
    Called("read_data") =>
        LET expected == FileBytes(call.inode, call.offset, call.length)
            last     == call.offset + Len(expected) - 1
        IN  /\ Len(result) = Len(expected)
            /\ \/ CountsFromTheStart(call.inode, call.offset, call.length)
               \/ BlocksFollowEachOther(call.inode)
               \/ call.offset % BLOCK # 0 /\ call.offset \div BLOCK = last \div BLOCK
               => result = expected

(* A read of the directory stores the name, and nothing but NULs behind    *)
(* it, on the kernel and on a host, which also minds the size of the       *)
(* buffer.                                                                 *)
DirectoryGivesNames ==
    Called("name") =>
        LET room == Min({call.nbytes, NAME_SIZE})
        IN  /\ call.nbytes >= NAME_SIZE => result.host = result.kernel
            /\ room > 0 => result.host = SubSeq(result.kernel, 1, room)

(* fs.c: reads of files and of the directory return what is stored there.  *)
ReadsReturnTheFile == DataIsTheFile /\ DirectoryGivesNames

(* memcpy copies whatever the alignment when the destination is not inside *)
(* the source, memmove whatever the overlap; memset, memset_word and       *)
(* memset_dword fill; none touches a byte outside.                         *)
MemoryFunctionsMove ==
    LET to == call.dest .. call.dest + call.n - 1 IN
    /\ \/ Called("memmove")
       \/ /\ Called("memcpy") \/ Called("ece391_memcpy")
          /\ call.dest \notin call.src + 1 .. call.src + call.n - 1
       => result = [a \in Addresses |->
            IF a \in to THEN Distinct[call.src + a - call.dest] ELSE Distinct[a]]
    /\ Called("memset") \/ Called("ece391_memset") => result = [a \in Addresses |->
            IF a \in to THEN 0 ELSE Distinct[a]]
    /\ Called("memset_units") =>
         LET size == Len(call.unit) IN
         result = [a \in Addresses |->
            IF a \in call.dest .. call.dest + size * call.n - 1
              THEN call.unit[((a - call.dest) % size) + 1] ELSE Distinct[a]]

(* strncmp is zero exactly for strings with the same first n characters,   *)
(* and so are the comparisons of user programs; strcpy and strncpy copy    *)
(* the string and nothing behind the destination.                          *)
StringFunctionsAgree ==
    Called("strings") =>
        LET mem == call.mem
            s == StringAt(mem, 0)
            t == StringAt(mem, 3)
            Cut(string) == SubSeq(string, 1, Min({call.n, Len(string)}))
        IN  /\ result.cmp = 0 <=> Cut(s) = Cut(t)
            /\ result.user = result.cmp
            /\ result.all = 0 <=> s = t
            /\ StringAt(result.cpy, 0) = t
            /\ \A a \in Len(t) + 1 .. 5 : result.cpy[a] = mem[a]
            /\ \A k \in 0 .. call.n - 1 :
                 result.ncpy[k] = IF k < Len(t) THEN t[k + 1] ELSE NUL
            /\ \A a \in call.n .. 5 : result.ncpy[a] = mem[a]

(* grep prints the lines that hold the text searched for, each once and in *)
(* order, wherever the ends of its buffers fall, as long as a line fits    *)
(* the buffer and the byte behind the buffer, which it looks at before it  *)
(* writes it, is not the end of a line.                                    *)
GrepFindsTheLines ==
    Called("grep") /\ LongestLine(call.text) < BUFSIZE /\ Garbage # NL =>
        result = LinesWith(call.text, call.s)

(* The value of a text as a number in some base.                           *)
ValueOf(text, radix) ==
    FoldLeft(LAMBDA v, c : v * radix + SelectInSeq(lookup, LAMBDA d : d = c) - 1,
             0, text)

(* Printed numbers read back as themselves, without a leading zero;        *)
(* user programs write the same digits, and a NUL, into their buffer; and  *)
(* %d is the signed reading of the word, %#x always has HEX_DIGITS digits  *)
(* (lib.c:110-113), and what is no conversion takes no argument.           *)
NumbersPrint ==
    /\ Called("itoa") =>
         LET digits == StringAt(result.user, 1)
         IN  /\ ValueOf(result.kernel, call.radix) = call.value
             /\ result.kernel[1] = "0" => call.value = 0
             /\ [k \in DOMAIN digits |-> lookup[digits[k]]] = result.kernel
             /\ \A a \in Addresses \ (1 .. Len(digits) + 1) : result.user[a] = Distinct[a]
    /\ Called("printf") =>
         LET v == call.value
         IN  CASE call.format = <<"t">> -> result = <<"t">>
               [] call.format = <<"%", "u">> -> ValueOf(result, 10) = v
               [] call.format = <<"%", "d", "t">> ->
                    /\ Last(result) = "t"
                    /\ IF v < WORD \div 2
                         THEN ValueOf(Front(result), 10) = v
                         ELSE /\ result[1] = "-"
                              /\ ValueOf(Tail(Front(result)), 10) = WORD - v
               [] call.format = <<"%", "x">> -> ValueOf(result, 16) = v
               [] call.format = <<"%", "#", "x">> ->
                    ValueOf(result, 16) = v /\ Len(result) = HEX_DIGITS
               [] call.format = <<"%", "%", "%", "u">> ->
                    result[1] = "%" /\ ValueOf(Tail(result), 10) = v
               [] call.format = <<"%", "z", "t">> -> result = <<"t">>

(* The routines of lib.c do what their comments say: the memory and string *)
(* functions at every alignment, overlap and length, itoa and printf for   *)
(* every word.                                                             *)
LibraryFunctionsAgree == MemoryFunctionsMove /\ StringFunctionsAgree /\ NumbersPrint

(* A program finds in its buffer what the command line has after the name  *)
(* and the spaces behind it, if twice the place where that begins and its  *)
(* length stay below LINE_BUFFER (syscalls.c:221 stops at LINE_BUFFER less *)
(* the place), and nothing of an earlier command (Bug Log.txt:17).         *)
CommandReachesTheProgram ==
    Called("execute") =>
        LET start == ArgStart(call.cmd)
            rest  == SubSeq(call.cmd, start + 1, Len(call.cmd))
        IN  /\ 2 * start + Len(rest) < LINE_BUFFER => StringIn(result.args) = rest
            /\ Space \notin ToSet(result.name)
            /\ rest # <<>> => rest[1] # Space
            /\ IsPrefix(result.name, call.cmd)

(* A program that is emulated is given the same name and the same          *)
(* arguments, if these have one space between two and fit the buffer with  *)
(* their NUL; getargs stores at most that NUL behind the buffer, and only  *)
(* when it fails.  A status never reads as a fault or as no such command.  *)
EmulationGivesTheSame ==
    /\ Called("emulate") =>
         LET start == ArgStart(call.cmd)
             rest  == SubSeq(call.cmd, start + 1, Len(call.cmd))
             Plain == /\ NewLine \notin ToSet(call.cmd)
                      /\ rest # <<>> => Last(rest) # Space
                      /\ \A k \in 1 .. Len(rest) - 1 :
                           ~(rest[k] = Space /\ rest[k + 1] = Space)
         IN  /\ Plain => result.argv[1] = NameOf(call.cmd)
             /\ Plain => (result.got.value = 0 <=> Len(rest) < call.nbytes)
             /\ Plain /\ result.got.value = 0 => result.got.buf = rest \o <<Nul>>
             /\ Len(result.got.buf) <= call.nbytes + 1
             /\ result.got.value = 0 => Len(result.got.buf) <= call.nbytes
    /\ Called("child") =>
         IF Len(call.cmd) <= MAX_COMMAND /\ call.child.exits
           THEN result = call.child.status
           ELSE result \in {-1, 256}

(* What a command line says reaches the program, through system_execute    *)
(* and system_getargs and through their emulation on a host.               *)
ArgumentsReachTheProgram == CommandReachesTheProgram /\ EmulationGivesTheSame

(* On a host, the descriptor of the directory reads names for as long as   *)
(* the program has it open, no other does, none is left open behind, and   *)
(* an error of the host is -1.                                             *)
HostDescriptorsAreTheirOwn ==
    /\ Called("host") /\ result.polite =>
         /\ \A x \in result.held :
              ReachesDirectory(result.h, x.fd) <=> x.name = "."
         /\ result.h.open = {x.fd : x \in result.held}
                               \cup ({result.h.dir, result.h.mem_fd} \ {NONE})
         /\ \A x, y \in result.held : x.fd = y.fd => x = y
    /\ Called("do_call") =>
         IF \E errno \in 1 .. ERRNO_RANGE - 1 : call.eax = WORD - errno
           THEN result = -1 ELSE result = call.eax

(* Each wrapper of the system call library reaches the handler of its      *)
(* name, and no other number reaches any; vidmap takes every address of    *)
(* the program page that has room for a pointer and none in the kernel.    *)
SystemCallsReachTheirHandlers ==
    /\ Called("syscall") =>
         \/ \E name \in ToSet(SystemCalls) : call.eax = SYS(name) /\ result = name
         \/ call.eax \notin 1 .. Len(SystemCalls) /\ result = "fail"
    /\ Called("vidmap") =>
         /\ call.screen_start \in MEM_128MB .. MEM_132MB - 4 => result
         /\ call.screen_start \notin MEM_128MB .. MEM_132MB => ~result
    /\ HostDescriptorsAreTheirOwn

(* What is typed is what the keys held say, through any order of presses   *)
(* and releases of Shift, Ctrl, Alt and Caps Lock (Bug Log.txt:6).         *)
KeysTypeTheirCharacters ==
    Called("keys") /\ PlainTyping(call.codes) => result = ExpectedLine(call.codes)
=============================================================================
