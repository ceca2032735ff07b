----------------------------- MODULE AbrtReport -----------------------------
(***************************************************************************)
(* The report of one event to the ABRT daemon (ras-report.c).  Every       *)
(* ras_report_*_event has the same shape: connect, seven writes on a       *)
(* blocking stream socket, close on every path.  The results of the writes *)
(* are not compared alike.  commit_report_basic and the ras_report_*_event *)
(* functions compare an int with strlen(), which is unsigned: a short      *)
(* write is seen and a failed one (-1) is not.  commit_report_backtrace    *)
(* compares ints: a failed write is seen, a write that lacks nothing but   *)
(* the terminating NUL is not.                                             *)
(*                                                                         *)
(* abrtd is the other actor: it may be down, and it may hang up between    *)
(* any two writes.  A write to a socket the peer closed raises SIGPIPE,    *)
(* which the daemon neither blocks nor handles.                            *)
(***************************************************************************)
EXTENDS Naturals, Sequences

VARIABLES
    abrt,       \* abrtd: "up" (listening) or "down"
    sock,       \* the report's socket: "closed", "open", or "hungup" by the peer
    part,       \* the next part to write; 0: no report is under way
    got,        \* ghost: how the backtrace and the last part reached the peer
    sigpipe,    \* the inherited disposition of SIGPIPE: "default" or "ignored"
    death       \* "no", or what ended the daemon: "sigpipe", "segv"

abrtvars == <<abrt, sock, part, got, sigpipe, death>>

Parts == <<"PUT", "PID", "EXECUTABLE", "TYPE", "BACKTRACE", "ANALYZER", "REASON">>
Fail == Len(Parts) + 1      \* the label every report function closes the socket at
Nothing == [p \in {"BACKTRACE", "REASON"} |-> "not"]

AbrtTypeOK ==
    /\ abrt \in {"up", "down"}
    /\ sock \in {"closed", "open", "hungup"}
    /\ part \in 0..Fail
    /\ got \in [{"BACKTRACE", "REASON"} -> {"not", "whole", "unterminated", "cut"}]
    /\ sigpipe \in {"default", "ignored"}
    /\ death \in {"no", "sigpipe", "segv"}

AbrtInit ==
    /\ abrt \in {"up", "down"} /\ sock = "closed" /\ part = 0 /\ got = Nothing
    /\ sigpipe \in {"default", "ignored"} /\ death = "no"

-----------------------------------------------------------------------------
(* setup_report_socket: a socket that cannot connect is closed again.      *)
setup_report_socket ==
    /\ part = 0 /\ abrt = "up"
    /\ sock' = "open" /\ part' = 1 /\ got' = Nothing
    /\ UNCHANGED <<abrt, sigpipe, death>>

setup_fails == part = 0 /\ got' = Nothing /\ UNCHANGED <<abrt, sock, part, sigpipe, death>>

Reach(how) == got' = IF Parts[part] \in DOMAIN got THEN [got EXCEPT ![Parts[part]] = how] ELSE got

IsBacktrace == part \in 1..Len(Parts) /\ Parts[part] = "BACKTRACE"

(* write() takes it all.                                                   *)
write_whole ==
    /\ sock = "open" /\ part \in 1..Len(Parts)
    /\ Reach("whole") /\ part' = part + 1
    /\ UNCHANGED <<abrt, sock, sigpipe, death>>

(* write() takes a part of it, the text included: every caller gives up.   *)
write_short ==
    /\ sock = "open" /\ part \in 1..Len(Parts)
    /\ Reach("cut") /\ part' = Fail
    /\ UNCHANGED <<abrt, sock, sigpipe, death>>

(* write() takes all but the NUL.  The last write of the backtrace is      *)
(* compared with buf_len and passes; the others are compared with their    *)
(* whole length.  PUT is written without one.                              *)
write_unterminated ==
    /\ sock = "open" /\ part \in 2..Len(Parts)
    /\ Reach("unterminated")
    /\ part' = IF IsBacktrace THEN part + 1 ELSE Fail
    /\ UNCHANGED <<abrt, sock, sigpipe, death>>

\* Mutant: the backtrace's writes are compared like the others.
write_fails_Unsigned ==
    /\ part \in 1..Len(Parts)
    /\ \/ sock = "open"
       \/ sock = "hungup" /\ sigpipe = "ignored"
    /\ part' = part + 1
    /\ UNCHANGED <<abrt, sock, got, sigpipe, death>>

(* write() returns -1: the peer is gone and SIGPIPE is ignored, or the     *)
(* kernel has no memory for it.  Only the backtrace's caller sees it.      *)
write_fails ==
    /\ part \in 1..Len(Parts)
    /\ \/ sock = "open"
       \/ sock = "hungup" /\ sigpipe = "ignored"
    /\ part' = IF IsBacktrace THEN Fail ELSE part + 1
    /\ UNCHANGED <<abrt, sock, got, sigpipe, death>>

(* write() after the peer hung up ends the daemon.                         *)
write_sigpipe ==
    /\ part \in 1..Len(Parts) /\ sock = "hungup" /\ sigpipe = "default"
    /\ death' = "sigpipe"
    /\ UNCHANGED <<abrt, sock, part, got, sigpipe>>

(* commit_report_backtrace has no case for the type: it returns -1.        *)
backtrace_unknown ==
    /\ IsBacktrace
    /\ part' = Fail
    /\ UNCHANGED <<abrt, sock, got, sigpipe, death>>

(* The end of every report function.                                       *)
report_close ==
    /\ part = Fail
    /\ part' = 0 /\ sock' = "closed"
    /\ UNCHANGED <<abrt, got, sigpipe, death>>

-----------------------------------------------------------------------------
(* abrtd ends or hangs up on us; it comes back.                            *)
AbrtDown ==
    /\ abrt = "up"
    /\ abrt' = "down"
    /\ sock' = IF sock = "open" THEN "hungup" ELSE sock
    /\ UNCHANGED <<part, got, sigpipe, death>>

AbrtUp ==
    /\ abrt = "down"
    /\ abrt' = "up"
    /\ UNCHANGED <<sock, part, got, sigpipe, death>>

-----------------------------------------------------------------------------
(* A problem abrtd has the REASON of carries the text of the event's       *)
(* backtrace: a report that lost its backtrace, or a piece of it, stops    *)
(* before its last part, and abrtd has nothing to file.  Parts of the      *)
(* prologue may be missing from it.  (commit_report_backtrace)             *)
FiledIsWhole == got["REASON"] # "not" => got["BACKTRACE"] \in {"whole", "unterminated"}
=============================================================================
