----------------------------- MODULE Operations -----------------------------
(***************************************************************************)
(* The operations that are requests, one by one: what each gives to its    *)
(* handlers and what its context's finalize releases afterwards.  An       *)
(* operation is a record, read off its section of the source:              *)
(*   gives    "number" - a value, copied;                                  *)
(*            "path", "ptr" - a pointer to memory that libuv allocated and *)
(*              the request owns;                                          *)
(*            "inside" - a pointer into the request itself;                *)
(*            "entries" - the buffer of a directory, the context's;        *)
(*            "handover" - a pointer to an object that is the receiver's;  *)
(*            "result" - a pointer to memory handed to the callback, which *)
(*              finalize frees;                                            *)
(*            "next" - a closure that reads what the request owns;         *)
(*   frees    "request" - finalize is uv_fs_req_cleanup, "result" -        *)
(*              uv_freeaddrinfo, "nothing";                                *)
(*   fails    whether the libuv call may fail at once;                     *)
(*   cancels  whether uv_cancel knows the type of request.                 *)
(***************************************************************************)
Fs(gives) == [gives |-> gives, frees |-> "request", fails |-> TRUE, cancels |-> TRUE]

(* fs.h: an overload without a callback, three without loop or request.    *)
FsOpen      == Fs("number")
FsClose     == Fs("number")
FsRead      == Fs("number")
FsWrite     == Fs("number")
FsUnlink    == Fs("number")
FsMkdir     == Fs("number")
FsMkdtemp   == Fs("path")
FsMkstemp   == Fs("path")
FsRmdir     == Fs("number")
FsOpendir   == Fs("handover")
FsClosedir  == Fs("number")
FsReaddir   == Fs("entries")
FsScandir   == Fs("next")
FsStat      == Fs("inside")
FsFstat     == Fs("inside")
FsLstat     == Fs("inside")
FsStatfs    == Fs("ptr")
FsRename    == Fs("number")
FsFsync     == Fs("number")
FsFdatasync == Fs("number")
FsFtruncate == Fs("number")
FsCopyfile  == Fs("number")
FsSendfile  == Fs("number")
FsAccess    == Fs("number")
FsChmod     == Fs("number")
FsFchmod    == Fs("number")
FsUtime     == Fs("number")
FsFutime    == Fs("number")
FsLutime    == Fs("number")
FsLink      == Fs("number")
FsSymlink   == Fs("number")
FsReadlink  == Fs("ptr")
FsRealpath  == Fs("ptr")
FsChown     == Fs("number")
FsFchown    == Fs("number")
FsLchown    == Fs("number")

FsOperations == {
    FsOpen, FsClose, FsRead, FsWrite, FsUnlink, FsMkdir, FsMkdtemp, FsMkstemp,
    FsRmdir, FsOpendir, FsClosedir, FsReaddir, FsScandir, FsStat, FsFstat, FsLstat,
    FsStatfs, FsRename, FsFsync, FsFdatasync, FsFtruncate, FsCopyfile,
    FsSendfile, FsAccess, FsChmod, FsFchmod, FsUtime, FsFutime, FsLutime,
    FsLink, FsSymlink, FsReadlink, FsRealpath, FsChown, FsFchown, FsLchown}

(* Requests of the thread pool.                                            *)
QueueWork   == [gives |-> "number", frees |-> "nothing", fails |-> TRUE, cancels |-> TRUE]
Random      == [gives |-> "number", frees |-> "nothing", fails |-> TRUE, cancels |-> TRUE]
Getaddrinfo == [gives |-> "result", frees |-> "result",  fails |-> TRUE, cancels |-> TRUE]
Getnameinfo == [gives |-> "inside", frees |-> "nothing", fails |-> TRUE, cancels |-> TRUE]

(* Requests of a stream or a socket.                                       *)
OnHandle == [gives |-> "number", frees |-> "nothing", fails |-> TRUE, cancels |-> FALSE]
Write        == OnHandle
Write2       == OnHandle
Shutdown     == OnHandle
UdpSend      == OnHandle
TcpConnect   == OnHandle
PipeConnect2 == OnHandle
(* uv_pipe_connect returns nothing: whatever is wrong comes as an answer.  *)
PipeConnect  == [OnHandle EXCEPT !.fails = FALSE]

Operations == FsOperations \cup
    {QueueWork, Random, Getaddrinfo, Getnameinfo, Write, Write2, Shutdown,
     UdpSend, TcpConnect, PipeConnect2, PipeConnect}
=============================================================================
