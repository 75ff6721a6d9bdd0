--------------------------- MODULE ResourceLoader ---------------------------
(***************************************************************************)
(* WebCore::ResourceLoader (src/unnamed/part_000): openFile and           *)
(* readFileToString over the embedder's ultralight::FileSystem.            *)
(*                                                                         *)
(* The file system is the embedder's: whether it is set, which files      *)
(* exist and how large they are is state; whether one of its calls fails  *)
(* (OpenFile, GetFileSize, a short ReadFromFile) is a choice made at the  *)
(* call.  Handles opened by readFileToString belong to it; a handle        *)
(* returned by openFile belongs to its caller, who closes it later.        *)
(* Paths are model values; the "resources/" prefix and the log messages   *)
(* are left out.                                                           *)
(***************************************************************************)
EXTENDS Integers, FiniteSets

CONSTANTS
    Paths,          \* resource paths asked for
    Sizes,          \* file sizes the file system may report (bytes)
    MaxHandles,     \* handles the file system can have open at once
    BadSizes,       \* other int64 values GetFileSize may report with success
    Word,           \* bits of size_t (64 in the build)
    MaxBuffer       \* the largest buffer WTF::Vector can allocate

ASSUME /\ Sizes \subseteq Nat /\ MaxHandles \in Nat
       /\ BadSizes \subseteq Int /\ Word \in Nat /\ MaxBuffer \in Nat

InvalidFileHandle == 0
Handles == 1..MaxHandles

VARIABLES
    fsSet,      \* Platform::instance().file_system() != nullptr
    exists,     \* files for which FileExists returns true
    size,       \* size[p]: the file's size
    open,       \* open[h]: "closed", "reader" (readFileToString) or "caller"
    lastRead,   \* the last readFileToString: path, GetFileSize's answer,
                \* the buffer size asked for, the returned length
    crashed     \* the process aborted

vars == <<fsSet, exists, size, open, lastRead, crashed>>

NoRead == [path |-> "none", ok |-> FALSE, reported |-> 0, buf |-> 0, len |-> 0]

Init ==
    /\ fsSet \in BOOLEAN
    /\ exists \in SUBSET Paths
    /\ size \in [Paths -> Sizes]
    /\ open = [h \in Handles |-> "closed"]
    /\ lastRead = NoRead
    /\ crashed = FALSE

(* Platform::set_file_system, by the embedder (not in src).                *)
SetFileSystem ==
    /\ ~fsSet
    /\ fsSet' = TRUE
    /\ UNCHANGED <<exists, size, open, lastRead, crashed>>

(***************************************************************************)
(* openFile (11-37): no file system, FileExists false, or OpenFile        *)
(* returning the invalid handle all yield invalidFileHandle.  The result  *)
(* depends on the handle the file system picks (a closed one) and on      *)
(* whether OpenFile fails; with every handle open, OpenFile fails.         *)
(***************************************************************************)
OpenFileResult(p, free, openFails) ==
    IF ~fsSet \/ p \notin exists \/ openFails \/ open[free] # "closed"
    THEN InvalidFileHandle ELSE free

(* The caller of openFile keeps a handle it got.                           *)
OpenFile(p) ==
    /\ \E free \in Handles, openFails \in BOOLEAN :
        LET h == OpenFileResult(p, free, openFails)
        IN open' = IF h = InvalidFileHandle THEN open ELSE [open EXCEPT ![h] = "caller"]
    /\ UNCHANGED <<fsSet, exists, size, lastRead, crashed>>

(* The caller closes a handle openFile gave it.                            *)
CallerCloses(h) ==
    /\ open[h] = "caller"
    /\ open' = [open EXCEPT ![h] = "closed"]
    /\ UNCHANGED <<fsSet, exists, size, lastRead, crashed>>

(***************************************************************************)
(* Whether readFileToString keeps the buffer: GetFileSize succeeded with a *)
(* non-zero size and ReadFromFile returned exactly that many bytes         *)
(* (lines 52-57); anything else goes to FAIL_LOAD.                          *)
(***************************************************************************)
ReadComplete_AnyRead(sizeOk, n, got) == sizeOk /\ n # 0 /\ got > 0   \* mutant
ReadComplete(sizeOk, n, got) == sizeOk /\ n # 0 /\ got = n

(* The string returned: the buffer on success (line 61), String() at      *)
(* FAIL_LOAD (line 66).                                                     *)
LoadedString_Partial(ok, got) == got                  \* mutant: partial buffer
LoadedString(ok, got) == IF ok THEN got ELSE 0

(* The handle is closed on the success path and at FAIL_LOAD (59, 63-65). *)
CloseOnFail_Skip(o, h) == o                                  \* mutant: leak
CloseOnFail(o, h) == [o EXCEPT ![h] = "closed"]

(* buffer.resize(fileSize) (line 55): the int64 becomes a size_t, two's   *)
(* complement modulo 2^Word.                                               *)
SizeT(n) == n % (2 ^ Word)

(***************************************************************************)
(* readFileToString (39-67), one step: the file system check, openFile,  *)
(* GetFileSize, buffer.resize, ReadFromFile of fileSize bytes (which     *)
(* yields at most the file's bytes), CloseFile, the string.  A buffer     *)
(* larger than WTF::Vector can hold aborts the process (CRASH()).          *)
(***************************************************************************)
ReadFileToString(p) ==
    /\ \E free \in Handles, openFails, sizeOk \in BOOLEAN,
          fileSize \in {size[p]} \cup BadSizes, got \in 0..size[p] :
        LET h       == OpenFileResult(p, free, openFails)
            resized == h # InvalidFileHandle /\ sizeOk /\ fileSize # 0
            buf     == IF resized THEN SizeT(fileSize) ELSE 0
            ok      == h # InvalidFileHandle /\ ReadComplete(sizeOk, fileSize, got)
            opened  == [open EXCEPT ![h] = "reader"]
        IN /\ crashed' = (buf > MaxBuffer)
           /\ open' = CASE h = InvalidFileHandle \/ buf > MaxBuffer -> open
                        [] ok -> [opened EXCEPT ![h] = "closed"]
                        [] OTHER -> CloseOnFail(opened, h)
           /\ lastRead' = [path |-> p, ok |-> ok /\ buf <= MaxBuffer,
                           reported |-> IF resized THEN fileSize ELSE 0, buf |-> buf,
                           len |-> LoadedString(ok /\ buf <= MaxBuffer, got)]
    /\ UNCHANGED <<fsSet, exists, size>>

(* Nothing happens once the process has aborted.                           *)
Next ==
    /\ ~crashed
    /\ \/ SetFileSystem
       \/ \E p \in Paths : OpenFile(p) \/ ReadFileToString(p)
       \/ \E h \in Handles : CallerCloses(h)

Spec == Init /\ [][Next]_vars

-----------------------------------------------------------------------------
TypeOK ==
    /\ fsSet \in BOOLEAN
    /\ exists \subseteq Paths
    /\ size \in [Paths -> Sizes]
    /\ open \in [Handles -> {"closed", "reader", "caller"}]
    /\ lastRead \in [path : Paths, ok : {TRUE}, reported : Sizes, buf : Sizes, len : Sizes \ {0}]
                   \cup [path : Paths \cup {"none"}, ok : {FALSE}, reported : Sizes \cup BadSizes,
                         buf : 0..(2 ^ Word - 1), len : {0}]
    /\ crashed \in BOOLEAN

(***************************************************************************)
(* ReaderLeavesNoHandleOpen: on every path out of readFileToString,        *)
(* including each FAIL_LOAD, the handle it opened is closed; only handles  *)
(* openFile gave to its caller stay open.                                  *)
(***************************************************************************)
ReaderLeavesNoHandleOpen == \A h \in Handles : open[h] # "reader"

(***************************************************************************)
(* WholeFileOrNothing: readFileToString returns a non-empty string only   *)
(* for an existing file, with a file system set, and then exactly the     *)
(* file's size in bytes: a short read never yields a truncated resource.  *)
(***************************************************************************)
WholeFileOrNothing ==
    lastRead.ok => /\ fsSet
                   /\ lastRead.path \in exists
                   /\ lastRead.len = size[lastRead.path]
                   /\ lastRead.len > 0

(***************************************************************************)
(* BufferAsReported: the buffer readFileToString resizes holds exactly as *)
(* many bytes as GetFileSize reported (line 55).  Only zero is rejected    *)
(* before (line 52): a negative report is converted to a size_t near      *)
(* 2^Word and the resize aborts the process.                               *)
(***************************************************************************)
BufferAsReported == lastRead.buf = lastRead.reported

=============================================================================
