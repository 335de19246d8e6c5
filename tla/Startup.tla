------------------------------ MODULE Startup -------------------------------
(***************************************************************************)
(* boardproxy.cpp: from the command line to the daemon, the client or the  *)
(* command that arrived over SSH.                                          *)
(***************************************************************************)
EXTENDS Integers, Sequences, SequencesExt

CONSTANTS
    Dir,      \* directories on the command line; may have the empty string
    File,     \* File[f]: what Config makes of file f, [status, sock_dir]
    Command,  \* values of SSH_ORIGINAL_COMMAND besides "set-authorized-keys"
    Unset,    \* the variable is not in the environment
    MaxArgs   \* options and arguments on the command line

VARIABLES
    given,    \* the command line: [kind, value] of each option or argument
    todo,     \* what argp has still to hand to parse_opt
    opt,      \* the global variable opt
    phase,    \* "shell", "options", "arguments", "main" or the way main ended
    ssh,      \* SSH_ORIGINAL_COMMAND
    started,  \* [role, sock_dir] of the daemon or client that runs
    keys,     \* authorized_keys has been replaced
    status    \* exit status of the process

vars == <<given, todo, opt, phase, ssh, started, keys, status>>

NotStarted == [role |-> "none", sock_dir |-> ""]
NoFile == [status |-> "ok", sock_dir |-> ""]

Init ==
    /\ given = <<>> /\ todo = <<>>
    /\ opt = [config |-> "", daemon |-> FALSE, name |-> "", sock_dir |-> "", list |-> FALSE,
              allow |-> FALSE, no_wait |-> FALSE]
    /\ phase = "shell" /\ ssh = Unset
    /\ started = NotStarted /\ keys = FALSE /\ status = 0

Exit(how, code) == phase' = how /\ status' = code

-----------------------------------------------------------------------------
(* The command line, and argp_parse: the options come first, in their      *)
(* order, then the arguments, wherever they were written                   *)

Flag == {"daemon", "list", "allow", "no_wait"}

Item ==
    [kind : Flag, value : {""}]
        \cup [kind : {"config"}, value : DOMAIN File \cup {""}]
        \cup [kind : {"name"}, value : {"n", ""}]
        \cup [kind : {"sock_dir", "argument"}, value : Dir]

Write(item) ==
    /\ phase = "shell" /\ Len(given) < MaxArgs
    /\ given' = Append(given, item)
    /\ UNCHANGED <<todo, opt, phase, ssh, started, keys, status>>

exec(command) ==
    /\ phase = "shell" /\ phase' = "options"
    /\ ssh' = command
    /\ todo' = SelectSeq(given, LAMBDA i : i.kind # "argument")
                  \o SelectSeq(given, LAMBDA i : i.kind = "argument")
    /\ UNCHANGED <<given, opt, started, keys, status>>

-----------------------------------------------------------------------------
(* parse_opt                                                               *)

Arrives(kinds) == todo # <<>> /\ Head(todo).kind \in kinds /\ todo' = Tail(todo)

option ==
    /\ phase = "options" /\ Arrives(Flag \cup {"config", "name", "sock_dir"})
    /\ opt' = [opt EXCEPT ![Head(todo).kind] =
                  IF Head(todo).kind \in Flag THEN TRUE ELSE Head(todo).value]
    /\ UNCHANGED <<given, phase, ssh, started, keys, status>>

\* The second argument is refused (exit status of argp: 64).
argument ==
    /\ phase \in {"options", "arguments"} /\ Arrives({"argument"})
    /\ IF phase = "options"
       THEN phase' = "arguments" /\ opt' = [opt EXCEPT !.sock_dir = Head(todo).value] /\ UNCHANGED status
       ELSE Exit("usage", 64) /\ UNCHANGED opt
    /\ UNCHANGED <<given, ssh, started, keys>>

\* Faulty variant: the option to list sessions is not looked at.
excluded_incomplete(o) == o.daemon /\ (o.name # "" \/ o.allow \/ o.no_wait)

excluded(o) == o.daemon /\ (o.name # "" \/ o.list \/ o.allow \/ o.no_wait)

key_end ==
    /\ phase \in {"options", "arguments"} /\ todo = <<>>
    /\ IF excluded(opt) THEN Exit("usage", 64) ELSE phase' = "main" /\ UNCHANGED status
    /\ UNCHANGED <<given, todo, opt, ssh, started, keys>>

-----------------------------------------------------------------------------
(* main                                                                    *)

is_ssh_command(o) == o.allow /\ ssh # Unset

\* handle_ssh_command.  system() returns -1, or the wait status of the shell,
\* which has the exit status in its higher byte; main returns that number, of
\* which the lower byte is the exit status of the process.
handle_ssh_command ==
    /\ phase = "main" /\ is_ssh_command(opt)
    /\ \/ /\ ssh = "set-authorized-keys"
          /\ \/ keys' = TRUE /\ Exit("command", 0)
             \/ keys' = FALSE /\ \E code \in 1..2 : Exit("command", (256 * code) % 256)
             \/ keys' = FALSE /\ Exit("command", 1)
       \/ ssh # "set-authorized-keys" /\ UNCHANGED keys /\ Exit("command", 1)
    /\ UNCHANGED <<given, todo, opt, ssh, started>>

Contents(f) == IF f = "" THEN NoFile ELSE File[f]

choose_sock_dir(o, cfg) == IF o.sock_dir # "" THEN o.sock_dir ELSE cfg.sock_dir

\* The rest of main: the file is read, the directory chosen, and the daemon or
\* the client constructed, which may throw too.
main ==
    LET cfg == Contents(opt.config)
        sock_dir == choose_sock_dir(opt, cfg)
    IN  /\ phase = "main" /\ ~is_ssh_command(opt)
        /\ \/ cfg.status = "undefined" /\ Exit("crash", 139) /\ UNCHANGED started
           \/ (cfg.status = "exception" \/ sock_dir = "") /\ cfg.status # "undefined"
              /\ Exit("error", 1) /\ UNCHANGED started
           \/ /\ cfg.status = "ok" /\ sock_dir # ""
              /\ \/ Exit("error", 1) /\ UNCHANGED started
                 \/ /\ phase' = "running" /\ UNCHANGED status
                    /\ started' = [role |-> IF opt.daemon THEN "daemon"
                                            ELSE IF opt.list THEN "list_sessions" ELSE "connect",
                                   sock_dir |-> sock_dir]
        /\ UNCHANGED <<given, todo, opt, ssh, keys>>

Next ==
    \/ \E item \in Item : Write(item)
    \/ \E command \in Command \cup {"set-authorized-keys", Unset} : exec(command)
    \/ option \/ argument \/ key_end \/ handle_ssh_command \/ main

Spec == Init /\ [][Next]_vars

-----------------------------------------------------------------------------
(* Properties                                                              *)

AllGiven(kind) == SelectSeq(given, LAMBDA i : i.kind = kind)
Gave(kind) == AllGiven(kind) # <<>>

\* The value that counts: that of the last such option, empty without one.
Wanted(kind) == IF Gave(kind) THEN Last(AllGiven(kind)).value ELSE ""

WantedDir ==
    LET dir == IF Gave("argument") THEN Wanted("argument") ELSE Wanted("sock_dir")
    IN  IF dir # "" THEN dir ELSE Contents(Wanted("config")).sock_dir

\* A command line that makes no sense.
Contradictory ==
    \/ Len(AllGiven("argument")) > 1
    \/ Gave("daemon") /\ (Wanted("name") # "" \/ Gave("list") \/ Gave("allow") \/ Gave("no_wait"))

\* What runs is what was asked for, in whatever order the options and arguments
\* were written: in the directory given as an argument, otherwise in that of the
\* last -s, otherwise, if these are missing or empty, in that of the file; with
\* the last file named, which could be used; as a daemon if and only if that was
\* asked for, and then without an option that is meant for clients.  Exactly the
\* contradictory command lines are refused as such.  A command that arrived over
\* SSH is handled only where that was allowed, and is then the only thing done.
StartedAsAsked ==
    /\ started.role # "none" =>
          /\ started.sock_dir = WantedDir /\ WantedDir # ""
          /\ Contents(Wanted("config")).status = "ok"
          /\ (started.role = "daemon") = Gave("daemon")
          /\ (started.role = "list_sessions") = Gave("list")
    /\ phase \notin {"shell", "options", "arguments"} => (phase = "usage") = Contradictory
    /\ phase = "command" => Gave("allow") /\ started = NotStarted
    /\ Gave("allow") /\ ssh # Unset => started = NotStarted
=============================================================================
