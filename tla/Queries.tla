------------------------------ MODULE Queries ------------------------------
(***************************************************************************)
(* The system calls by which a program asks the kernel about an object:    *)
(* processes, threads, sections, timers, events, links, files, memory, the *)
(* system, and the keys and values of the registry.  Each takes a buffer   *)
(* with its length and, most of them, a pointer at which the length of the *)
(* answer is reported.  A handler is the list of its early returns, in the *)
(* order of the code, and what it copies out when none is taken.           *)
(*                                                                         *)
(* The program's buffer is its first `room' bytes: those the kernel can    *)
(* write.  Where sizes of structures appear in the code they are the       *)
(* parameter Size here; lengths of names and data are small numbers.       *)
(***************************************************************************)
EXTENDS Integers, Sequences, FiniteSetsExt

CONSTANTS Size,        \* sizeof, by class of information
          ValueNames,  \* a function from the names of values to their length
          DataSizes,   \* sizes of the data of values
          KeyNames,    \* lengths of names of subkeys
          MaxEntries,  \* values and subkeys of the key
          Lengths,     \* lengths of buffers the program states
          Rooms        \* sizes of the part of a buffer that can be written

VARIABLES qobj,   \* what is asked about
          asked,  \* the program's last call
          given,  \* its outcome
          same    \* nothing changed since

qvars == <<qobj, asked, given, same>>

NotTold == -1
NoCall == [call |-> "none", class |-> "none", index |-> 0, len |-> 0, room |-> 0, ret |-> "null", handle |-> TRUE]
NoData == <<>>
Returned(st, wrote, told, whole, data) ==
    [status |-> st, wrote |-> wrote, told |-> told, whole |-> whole, data |-> data]
NoAnswer == Returned("none", {}, NotTold, 0, NoData)
Refused(st) == Returned(st, {}, NotTold, 0, NoData)

\* What a handle refers to: one of the kernel's objects, with the settings of
\* its process, or a key with its values and subkeys.
QInit == /\ \E k \in {"object", "key"} :
            qobj = [kind |-> k, session |-> 0, hard_error |-> 0, execute |-> 0, priority |-> 0,
                    image |-> TRUE, target |-> 1, cls |-> 1, values |-> <<>>, children |-> <<>>]
         /\ asked = NoCall /\ given = NoAnswer /\ same = TRUE

-----------------------------------------------------------------------------
\* The first early return whose condition holds, or else the result.
EarlyOr(checks, result) ==
    LET taken == {i \in DOMAIN checks : checks[i][1]}
    IN  IF taken = {} THEN result ELSE Refused(checks[Min(taken)][2])

BadHandle(q) == <<~q.handle, "invalid handle">>
BadReturn(q) == <<q.ret = "bad", "access violation">>
NoReturn(q)  == <<q.ret # "good", "access violation">>
NotIn(q, classes, st) == <<q.class \notin classes, st>>

\* copy_to_user of pieces <<offset, length>>, one after the other, up to the
\* first that cannot be written.
CopyOut(q, pieces) ==
    LET bad == {i \in DOMAIN pieces : pieces[i][2] > 0 /\ pieces[i][1] + pieces[i][2] > q.room}
        last == IF bad = {} THEN Len(pieces) ELSE Min(bad)
    IN  [ok    |-> bad = {},
         wrote |-> UNION {{b \in pieces[i][1]..(pieces[i][1] + pieces[i][2] - 1) : b < q.room} : i \in 1..last}]

Told(q, n) == IF q.ret = "good" THEN n ELSE NotTold

\* The common end of a query: n bytes of the structure are copied out, then
\* its size is reported.  `strict': a failure to report is the status.
Report(q, n, whole, strict, data) ==
    LET c == CopyOut(q, <<<<0, n>>>>)
    IN  IF ~c.ok THEN Returned("access violation", c.wrote, NotTold, whole, data)
        ELSE IF strict /\ q.ret = "bad" THEN Returned("access violation", c.wrote, NotTold, whole, data)
        ELSE Returned("success", c.wrote, Told(q, whole), whole, data)

Lesser(m, n) == IF m < n THEN m ELSE n

-----------------------------------------------------------------------------
ProcessClasses == {"ProcessBasic", "ProcessDeviceMap", "ProcessSession", "ProcessHardError", "ProcessExecute"}
ProcessData(c) == CASE c = "ProcessSession" -> <<qobj.session>>
                    [] c = "ProcessHardError" -> <<qobj.hard_error>>
                    [] c = "ProcessExecute" -> <<qobj.execute>>
                    [] OTHER -> NoData

NtQueryInformationProcess(q) ==
    EarlyOr(<<NotIn(q, ProcessClasses, "invalid class"), BadHandle(q)>>,
            Report(q, Lesser(Size[q.class], q.len), Size[q.class], TRUE, ProcessData(q.class)))

ThreadClasses == {"ThreadBasic", "ThreadTimes", "ThreadAmILast"}
NtQueryInformationThread(q) ==
    EarlyOr(<<NotIn(q, ThreadClasses, "invalid class"), <<Size[q.class] # q.len, "length mismatch">>,
              BadHandle(q), BadReturn(q)>>,
            Report(q, Size[q.class], Size[q.class], FALSE, NoData))

\* ReturnLength is set to 0 first; a buffer longer than the structure is
\* refused, a shorter one filled; the status is that of the last copy.
SystemClasses == {"SystemBasic", "SystemTimeOfDay"}
NtQuerySystemInformation(q) ==
    LET known == q.class \in SystemClasses
        n     == IF known THEN q.len ELSE 0
        c     == CopyOut(q, <<<<0, n>>>>)
    IN  IF q.ret = "bad" THEN Refused("access violation")
        ELSE IF known /\ Size[q.class] < q.len THEN Returned("length mismatch", {}, Told(q, 0), 0, NoData)
        ELSE Returned(IF c.ok \/ q.ret = "good" THEN "success" ELSE "access violation",
                      c.wrote, Told(q, n), n, NoData)

NtQueryObject(q) ==
    EarlyOr(<<NotIn(q, {"ObjectHandle"}, "invalid class"), <<Size[q.class] # q.len, "length mismatch">>, BadHandle(q)>>,
            Report(q, Size[q.class], Size[q.class], TRUE, NoData))

NtQuerySecurityObject(q) ==
    LET sz == Size["Security"]
        c  == CopyOut(q, <<<<0, sz>>>>)
    IN  EarlyOr(<<NoReturn(q), BadHandle(q)>>,
                IF q.len < sz THEN Returned("buffer too small", {}, sz, sz, NoData)
                ELSE IF ~c.ok THEN Returned("access violation", c.wrote, NotTold, sz, NoData)
                ELSE Returned("success", c.wrote, sz, sz, NoData))

NtQuerySection(q) ==
    EarlyOr(<<BadHandle(q), NotIn(q, {"SectionBasic", "SectionImage"}, "invalid parameter"),
              <<q.class = "SectionImage" /\ ~qobj.image, "invalid parameter">>,
              <<Size[q.class] > q.len, "buffer too small">>>>,
            Report(q, Size[q.class], Size[q.class], TRUE, NoData))

\* The length of the buffer is read from ReturnLength, where q.index is.  An
\* address above the space (the class "MemoryBeyond") fails in vm->query.
StatedLength(q) ==
    IF q.call # "NtQueryVirtualMemory" THEN q.len ELSE IF q.ret = "null" THEN Size["Memory"] ELSE q.index
NtQueryVirtualMemory(q) ==
    LET n == Lesser(StatedLength(q), Size["Memory"])
    IN  EarlyOr(<<NotIn(q, {"Memory", "MemoryBeyond"}, "invalid parameter"), BadReturn(q), BadHandle(q),
                  <<q.class = "MemoryBeyond", "invalid parameter">>>>,
                Report(q, n, n, TRUE, NoData))

\* The buffer is verified before its length is.
NtQueryTimer(q) ==
    EarlyOr(<<BadHandle(q), NotIn(q, {"TimerBasic"}, "invalid class"),
              <<q.room < Size[q.class], "access violation">>, <<Size[q.class] # q.len, "length mismatch">>>>,
            Report(q, Size[q.class], Size[q.class], FALSE, NoData))

NtQueryEvent(q) ==
    EarlyOr(<<BadHandle(q), NotIn(q, {"EventBasic"}, "invalid class"), <<Size[q.class] # q.len, "length mismatch">>>>,
            Report(q, Size[q.class], Size[q.class], FALSE, NoData))

NtQueryInformationFile(q) ==
    EarlyOr(<<BadHandle(q), NotIn(q, {"FileBasic", "FileStandard"}, "invalid parameter")>>,
            [Report(q, Lesser(Size[q.class], q.len), Size[q.class], FALSE, NoData) EXCEPT !.told = NotTold])

NtQuerySymbolicLinkObject(q) ==
    EarlyOr(<<BadReturn(q), BadHandle(q), <<q.len < qobj.target, "buffer too small">>>>,
            Report(q, qobj.target, qobj.target, FALSE, NoData))

-----------------------------------------------------------------------------
(***************************************************************************)
(* The registry.                                                           *)
(***************************************************************************)
Nul == 2    \* the terminator that KeyValueFull leaves room for

\* Where the parts of the answer lie, and its length.
ValueLayout_short(class, val) ==
    LET name == ValueNames[val.name] IN
    IF class = "ValueFull"
    THEN [head |-> Size[class], rest |-> <<<<Size[class], name>>, <<Size[class] + name + Nul, val.size>>>>,
          len |-> Size[class] + name + val.size]
    ELSE [head |-> Size[class], rest |-> <<<<Size[class], val.size>>>>, len |-> Size[class] + val.size]

ValueLayout(class, val) ==
    LET name == ValueNames[val.name] IN
    IF class = "ValueFull"
    THEN [head |-> Size[class], rest |-> <<<<Size[class], name>>, <<Size[class] + name + Nul, val.size>>>>,
          len |-> Size[class] + name + Nul + val.size]
    ELSE [head |-> Size[class], rest |-> <<<<Size[class], val.size>>>>, len |-> Size[class] + val.size]

\* The header goes out whenever it fits; the length is reported in any case.
reg_query_value(q, val) ==
    LET lay  == ValueLayout(q.class, val)
        head == CopyOut(q, <<<<0, lay.head>>>>)
        all  == CopyOut(q, <<<<0, lay.head>>>> \o lay.rest)
    IN  IF q.class \notin {"ValueFull", "ValuePartial"} THEN Returned("not implemented", {}, 0, 0, NoData)
        ELSE IF q.len < lay.head THEN Returned("buffer too small", {}, lay.len, lay.len, NoData)
        ELSE IF ~head.ok THEN Returned("access violation", head.wrote, lay.len, lay.len, NoData)
        ELSE IF lay.len > q.len THEN Returned("buffer overflow", head.wrote, lay.len, lay.len, NoData)
        ELSE Returned(IF all.ok THEN "success" ELSE "access violation", all.wrote, lay.len, lay.len, <<val.name>>)

\* key_find_value: the name stands for the position q.index of qobj.values, or
\* for none of them.
NtQueryValueKey(q) ==
    EarlyOr(<<NotIn(q, {"ValueFull", "ValuePartial", "ValueBasic", "ValueAlign64"}, "invalid parameter"),
              <<q.class = "ValueAlign64", "not implemented">>, BadHandle(q), NoReturn(q),
              <<q.index >= Len(qobj.values), "name not found">>>>,
            reg_query_value(q, qobj.values[q.index + 1]))

NtEnumerateValueKey(q) ==
    EarlyOr(<<BadHandle(q), NoReturn(q), <<q.index >= Len(qobj.values), "no more entries">>>>,
            reg_query_value(q, qobj.values[q.index + 1]))

Most(S) == Max(S \union {0})
num_values == <<Len(qobj.values), Most({ValueNames[qobj.values[i].name] : i \in DOMAIN qobj.values}),
                Most({qobj.values[i].size : i \in DOMAIN qobj.values})>>
num_subkeys == <<Len(qobj.children), Most({qobj.children[i].name : i \in DOMAIN qobj.children}),
                 Most({qobj.children[i].cls : i \in DOMAIN qobj.children})>>

\* regkey_t::query of a key with a name or a class of n bytes: the structure
\* with n bytes behind it is copied out, then the string over its last member.
KeyQuery(q, n, data) ==
    LET sz == Size[q.class] + n
        c  == CopyOut(q, <<<<0, sz>>, <<Size[q.class] - 1, n>>>>)
    IN  IF sz > q.len THEN Refused("length mismatch")
        ELSE IF c.ok THEN Returned("success", c.wrote, Told(q, sz), sz, data)
        ELSE Returned("access violation", c.wrote, NotTold, sz, data)

\* KeyNodeInformation ends in assert(0).
regkey_query(q, key, data) ==
    CASE q.class = "KeyBasic" -> KeyQuery(q, key.name, data)
      [] q.class = "KeyFull"  -> KeyQuery(q, key.cls, data)
      [] OTHER -> Refused("died")

key_info_class_valid == {"KeyNode", "KeyBasic", "KeyFull"}

NtQueryKey(q) ==
    EarlyOr(<<NotIn(q, key_info_class_valid, "invalid class"), NoReturn(q), BadHandle(q)>>,
            regkey_query(q, [name |-> 1, cls |-> qobj.cls],
                         IF q.class = "KeyFull" THEN num_subkeys \o num_values ELSE NoData))

get_child(i) == qobj.children[i + 1]

NtEnumerateKey(q) ==
    EarlyOr(<<BadHandle(q), BadReturn(q), NotIn(q, key_info_class_valid, "invalid class"),
              <<q.index >= Len(qobj.children), "no more entries">>>>,
            regkey_query(q, get_child(q.index), NoData))

-----------------------------------------------------------------------------
Classes == [NtQueryInformationProcess |-> ProcessClasses \union {"Other"},
            NtQueryInformationThread  |-> ThreadClasses \union {"Other"},
            NtQuerySystemInformation  |-> SystemClasses \union {"Other"},
            NtQueryObject             |-> {"ObjectHandle", "Other"},
            NtQuerySecurityObject     |-> {"Security"},
            NtQuerySection            |-> {"SectionBasic", "SectionImage", "Other"},
            NtQueryVirtualMemory      |-> {"Memory", "MemoryBeyond", "Other"},
            NtQueryTimer              |-> {"TimerBasic", "Other"},
            NtQueryEvent              |-> {"EventBasic", "Other"},
            NtQueryInformationFile    |-> {"FileBasic", "FileStandard", "Other"},
            NtQuerySymbolicLinkObject |-> {"Link"},
            NtQueryValueKey           |-> {"ValueFull", "ValuePartial", "ValueBasic", "ValueAlign64", "Other"},
            NtEnumerateValueKey       |-> {"ValueFull", "ValuePartial", "ValueBasic", "Other"},
            NtQueryKey                |-> key_info_class_valid \union {"Other"},
            NtEnumerateKey            |-> key_info_class_valid \union {"Other"}]

Answer(q) ==
    CASE q.call = "NtQueryInformationProcess" -> NtQueryInformationProcess(q)
      [] q.call = "NtQueryInformationThread"  -> NtQueryInformationThread(q)
      [] q.call = "NtQuerySystemInformation"  -> NtQuerySystemInformation(q)
      [] q.call = "NtQueryObject"             -> NtQueryObject(q)
      [] q.call = "NtQuerySecurityObject"     -> NtQuerySecurityObject(q)
      [] q.call = "NtQuerySection"            -> NtQuerySection(q)
      [] q.call = "NtQueryVirtualMemory"      -> NtQueryVirtualMemory(q)
      [] q.call = "NtQueryTimer"              -> NtQueryTimer(q)
      [] q.call = "NtQueryEvent"              -> NtQueryEvent(q)
      [] q.call = "NtQueryInformationFile"    -> NtQueryInformationFile(q)
      [] q.call = "NtQuerySymbolicLinkObject" -> NtQuerySymbolicLinkObject(q)
      [] q.call = "NtQueryValueKey"           -> NtQueryValueKey(q)
      [] q.call = "NtEnumerateValueKey"       -> NtEnumerateValueKey(q)
      [] q.call = "NtQueryKey"                -> NtQueryKey(q)
      [] q.call = "NtEnumerateKey"            -> NtEnumerateKey(q)

Put(q) == /\ asked' = q /\ given' = Answer(q) /\ same' = TRUE
          /\ UNCHANGED qobj

Keyed == {"NtQueryValueKey", "NtEnumerateValueKey", "NtQueryKey", "NtEnumerateKey"}

Ask(c, class, i, len, room, ret, h) ==
    /\ i = 0 \/ c \in Keyed \ {"NtQueryKey"} \/ c = "NtQueryVirtualMemory"
    /\ Put([call |-> c, class |-> class, index |-> i, len |-> len, room |-> room, ret |-> ret, handle |-> h])

\* The program asks again with a buffer of the length it was told.
Short == given.status \in {"buffer too small", "buffer overflow"} /\ given.told # NotTold

AskAgain == /\ Short
            /\ Put([asked EXCEPT !.len = given.told, !.room = given.told])

Return == /\ asked # NoCall /\ given.status # "died"
          /\ asked' = NoCall /\ given' = NoAnswer /\ same' = TRUE
          /\ UNCHANGED qobj

\* What a thread does before a query, or another between the two queries of a
\* program that was told a length.
Changed(new) == /\ asked = NoCall \/ (Short /\ same)
                /\ new # qobj
                /\ qobj' = new /\ same' = (asked = NoCall)
                /\ UNCHANGED <<asked, given>>

\* NtSetInformationProcess, of the right length: the classes that set nothing
\* are traced only.
NtSetInformationProcess(class, v) ==
    /\ qobj.kind = "object"
    /\ CASE class = "ProcessSession"   -> Changed([qobj EXCEPT !.session = v])
         [] class = "ProcessHardError" -> Changed([qobj EXCEPT !.hard_error = v])
         [] class = "ProcessExecute"   -> Changed([qobj EXCEPT !.execute = v])
         [] class = "ProcessPriority"  -> Changed([qobj EXCEPT !.priority = v])

\* The value of the name, if there is one, is taken out and the new one put at
\* the end of the list.
NtSetValueKey(n, sz) ==
    LET rest == SelectSeq(qobj.values, LAMBDA v : v.name # n)
    IN  /\ qobj.kind = "key" /\ Len(rest) < MaxEntries
        /\ Changed([qobj EXCEPT !.values = Append(rest, [name |-> n, size |-> sz])])

NtDeleteValueKey(n) == Changed([qobj EXCEPT !.values = SelectSeq(@, LAMBDA v : v.name # n)])

CreateSubkey(n, c) == /\ qobj.kind = "key" /\ Len(qobj.children) < MaxEntries
                      /\ Changed([qobj EXCEPT !.children = Append(@, [name |-> n, cls |-> c])])

QNext ==
    \/ /\ asked = NoCall
       /\ \E c \in IF qobj.kind = "key" THEN Keyed ELSE DOMAIN Classes \ Keyed :
             \E class \in Classes[c], i \in 0..MaxEntries, len \in Lengths, room \in Rooms,
                ret \in {"null", "bad", "good"}, h \in BOOLEAN :
                  Ask(c, class, i, len, room, ret, h)
    \/ AskAgain
    \/ Return
    \/ \E class \in {"ProcessSession", "ProcessHardError", "ProcessExecute", "ProcessPriority"}, v \in 0..1 :
          NtSetInformationProcess(class, v)
    \/ \E n \in DOMAIN ValueNames, sz \in DataSizes : NtSetValueKey(n, sz)
    \/ \E n \in DOMAIN ValueNames : NtDeleteValueKey(n)
    \/ \E n \in KeyNames : CreateSubkey(n, 1)

QSpec == QInit /\ [][QNext]_qvars

-----------------------------------------------------------------------------
\* Queries whose status does not tell what was written: a system query of an
\* unknown class, or with a length to report, returns the status of the last
\* copy only.
Unreliable == asked.call = "NtQuerySystemInformation" /\ (asked.ret = "good" \/ asked.class = "Other")

\* The name's terminator in a full answer about a value is not written.
Gap == IF asked.class # "ValueFull" THEN {}
       ELSE LET end == Size["ValueFull"] + ValueNames[given.data[1]] IN end..(end + Nul - 1)

\* The answer to a query is what its status and the length reported say it is.
\* No byte behind the length that the program stated is written (for
\* NtQueryVirtualMemory the one at ReturnLength); a query that succeeded wrote
\* the whole answer, or as much of it as the buffer takes, and reported its
\* length; the maxima of a key hold for all that is in it (the handlers of the
\* Nt...Query... calls, reg_query_value and regkey_t::query).
AnswersAreWhole ==
    /\ given.wrote \subseteq 0..(StatedLength(asked) - 1)
    /\ given.status = "success" /\ ~Unreliable =>
          /\ 0..(Lesser(given.whole, StatedLength(asked)) - 1) \ Gap \subseteq given.wrote
          /\ given.told \in {given.whole, NotTold}
    /\ given.status = "success" /\ same /\ asked.class = "KeyFull" /\ asked.call = "NtQueryKey" =>
          /\ \A i \in DOMAIN qobj.values : /\ ValueNames[qobj.values[i].name] <= given.data[5]
                                           /\ qobj.values[i].size <= given.data[6]
          /\ \A i \in DOMAIN qobj.children : qobj.children[i].name <= given.data[2]

\* A program that was told the length its answer needs gets the answer when it
\* asks again with a buffer of that length, unless another thread changed what
\* it asks about in between (reg_query_value and NtQuerySecurityObject report
\* the length of an answer that does not fit).
AskedAgainIsAnswered == AskAgain /\ same => given'.status = "success"
ToldLengthIsEnough == [][AskedAgainIsAnswered]_qvars
=============================================================================
