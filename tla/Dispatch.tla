------------------------------ MODULE Dispatch ------------------------------
(***************************************************************************)
(* How LibSocket tells its user what became of a system call: every method *)
(* of Socket.h keeps errno and runs, from a map of handlers, the one of    *)
(* that errno if the call failed and it is in the map, else the one of     *)
(* SUCCESS if that is.  The keys are the enumerators of Errors.h: errno    *)
(* values, and behind the last of them, one by one, enumerators the        *)
(* compiler numbers: INVALID_ADDRESS, DISCONNECTING, ..., SUCCESS.         *)
(***************************************************************************)
EXTENDS Naturals, Sequences

CONSTANT Platform     (* the <errno.h> of each platform: names to values *)

ASSUME PlatformAssumption ==
    \A P \in Platform : \A e, f \in DOMAIN P :
        P[e] \in Nat \ {0} /\ (P[e] = P[f] => e = f)

VARIABLES Errno,      (* the platform this was compiled for                   *)
          errno,      (* the thread's errno, which successful calls leave     *)
          last,       (* the call made last: socket, call and outcome         *)
          ran         (* the key of the handler it ran                        *)

dispatchVars == <<Errno, errno, last, ran>>

(* Outside the repository: what the manual pages of the calls add to the   *)
(* lists of Errors.h.                                                      *)
Unlisted == [
    create |-> {"EMFILE"}, accept |-> {"EMFILE"}, connect |-> {"EHOSTUNREACH"},
    listen |-> {}, receive |-> {"ECONNRESET", "ETIMEDOUT"},
    send |-> {"ETIMEDOUT", "EHOSTUNREACH"}, bind |-> {}, select |-> {}, close |-> {}]

-----------------------------------------------------------------------------
(* The enumerators of Errors.h with a value: the all_*_errors.             *)
all_create_errors == {"EACCES", "EAFNOSUPPORT", "EINVAL", "ENFILE", "ENOBUFS", "ENOMEM",
    "EPROTONOSUPPORT"}
all_accept_errors == {"EAGAIN", "EBADF", "ECONNABORTED", "EFAULT", "EINTR", "EINVAL", "ENFILE",
    "ENOBUFS", "ENOMEM", "ENOTSOCK", "EOPNOTSUPP", "EPERM", "EPROTO"}
all_bind_errors == {"EACCES", "EADDRINUSE", "EBADF", "EINVAL", "ENOTSOCK", "EADDRNOTAVAIL",
    "EFAULT", "ELOOP", "ENAMETOOLONG", "ENOENT", "ENOMEM", "ENOTDIR", "EROFS"}
all_close_errors == {"EBADF", "EINTR", "EIO", "ENOSPC", "EDQUOT"}
all_connect_errors == {"EACCES", "EPERM", "EADDRINUSE", "EADDRNOTAVAIL", "EAFNOSUPPORT",
    "EAGAIN", "EALREADY", "EBADF", "ECONNREFUSED", "EFAULT", "EINPROGRESS", "EINTR", "EISCONN",
    "ENETUNREACH", "ENOTSOCK", "EPROTOTYPE", "ETIMEDOUT"}
all_listen_errors == {"EBADF", "EADDRINUSE", "ENOTSOCK", "EOPNOTSUPP"}
all_receive_errors == {"EAGAIN", "EBADF", "ECONNREFUSED", "EFAULT", "EINTR", "EINVAL", "ENOMEM",
    "ENOTCONN", "ENOTSOCK"}
all_select_errors == {"EBADF", "EINTR", "EINVAL", "ENOMEM"}
all_send_errors == {"EAGAIN", "EACCES", "EALREADY", "EBADF", "ECONNRESET", "EDESTADDRREQ",
    "EFAULT", "EINTR", "EINVAL", "EISCONN", "EMSGSIZE", "ENOBUFS", "ENOMEM", "ENOTCONN",
    "ENOTSOCK", "EOPNOTSUPP", "EPIPE"}
Listed == [create |-> all_create_errors, accept |-> all_accept_errors,
           connect |-> all_connect_errors, listen |-> all_listen_errors,
           receive |-> all_receive_errors, send |-> all_send_errors,
           bind |-> all_bind_errors, select |-> all_select_errors, close |-> all_close_errors]

(* The enumerators without a value, and the one before them. *)
Numbered == [
    create |-> <<"SUCCESS">>, accept |-> <<"SUCCESS">>, listen |-> <<"SUCCESS">>,
    connect |-> <<"INVALID_ADDRESS", "INVALID_PORT", "SUCCESS">>,
    receive |-> <<"DISCONNECTING", "SUCCESS">>, send |-> <<"SUCCESS">>,
    bind |-> <<"INVALID_ADDRESS", "INVALID_PORT", "SUCCESS">>,
    select |-> <<"SUCCESS">>, close |-> <<"SUCCESS">>]

LastValued == [
    create |-> "EPROTONOSUPPORT", accept |-> "EPROTO", listen |-> "EOPNOTSUPP",
    connect |-> "ETIMEDOUT", receive |-> "ENOTSOCK", send |-> "EPIPE",
    bind |-> "EROFS", select |-> "ENOMEM", close |-> "EDQUOT"]

Call == DOMAIN Listed
Key(call, e) ==
    IF e \in Listed[call] THEN Errno[e]
    ELSE Errno[LastValued[call]] + (CHOOSE n \in DOMAIN Numbered[call] : Numbered[call][n] = e)

(* The handlers that run_server and run_client install: on the listening   *)
(* socket, on the sockets it accepts, and on the client's.  Then what      *)
(* Socket.h offers: a handler for every enumerator.                        *)
Everything(call) == Listed[call] \cup {Numbered[call][n] : n \in DOMAIN Numbered[call]}
Errors(call) == Everything(call) \ {"SUCCESS", "DISCONNECTING"}
Installed == [
    server |-> [create |-> Everything("create"), accept |-> Everything("accept"),
                listen |-> Everything("listen"), send |-> {"SUCCESS", "EPIPE"},
                bind |-> {}, select |-> {}, close |-> {}],
    accepted |-> [receive |-> Everything("receive"), send |-> {}, close |-> {}],
    client |-> [create |-> Everything("create"), connect |-> Everything("connect"),
                receive |-> Everything("receive"), send |-> Errors("send"), close |-> {}],
    thorough |-> [call \in Call |-> Everything(call)]]
Socket == DOMAIN Installed
Keys(s, call) == {Key(call, e) : e \in Installed[s][call]}
NoHandler == 0

DispatchInit ==
    /\ Errno \in Platform
    /\ errno = 0 /\ ran = NoHandler
    /\ last = [socket |-> "server", call |-> "create", outcome |-> "none"]

Failure(call) == Listed[call] \cup Unlisted[call]
Outcome(call) == {"ok"} \cup Failure(call) \cup (IF call = "receive" THEN {"eof"} ELSE {})

(* Fault: errno is looked at although the call did not fail. *)
Run_StaleErrno(s, call, outcome) ==
    CASE errno' \in Keys(s, call) -> errno'
      [] outcome = "eof" /\ Key(call, "DISCONNECTING") \in Keys(s, call) -> Key(call, "DISCONNECTING")
      [] OTHER -> IF Key(call, "SUCCESS") \in Keys(s, call) THEN Key(call, "SUCCESS") ELSE NoHandler

(* Fault: result <= 0 is the end of the stream, and looked at first. *)
Run_EndFirst(s, call, outcome) ==
    CASE call = "receive" /\ outcome # "ok" /\ Key(call, "DISCONNECTING") \in Keys(s, call) ->
            Key(call, "DISCONNECTING")
      [] OTHER -> IF outcome \in Failure(call) /\ errno' \in Keys(s, call) THEN errno' ELSE NoHandler

(* The if ... else if of all of them. *)
Run(s, call, outcome) ==
    CASE outcome \in Failure(call) /\ errno' \in Keys(s, call) -> errno'
      [] outcome = "eof" /\ Key(call, "DISCONNECTING") \in Keys(s, call) -> Key(call, "DISCONNECTING")
      [] OTHER -> IF Key(call, "SUCCESS") \in Keys(s, call) THEN Key(call, "SUCCESS") ELSE NoHandler

Invoke(s, call, outcome) ==
    /\ errno' = IF outcome \in Failure(call) THEN Errno[outcome] ELSE errno
    /\ last' = [socket |-> s, call |-> call, outcome |-> outcome]
    /\ ran' = Run(s, call, outcome)

(* receive_str reads the size itself: an error that has no handler sends   *)
(* it on to receive, with a size of 0, which finds the stream at its end.  *)
ReceiveSize(s) ==
    \E outcome \in Outcome("receive") \ {"ok"} :
        /\ "receive" \in DOMAIN Installed[s]
        /\ errno' = IF outcome = "eof" THEN errno ELSE Errno[outcome]
        /\ last' = [socket |-> s, call |-> "receive", outcome |-> outcome]
        /\ ran' = IF outcome \in Failure("receive") /\ errno' \in Keys(s, "receive")
                  THEN errno' ELSE Run(s, "receive", "eof")

(* bind_v4, connect_v4 and their like refuse an address or a port that     *)
(* does not match, without a call, if there is a handler for that.         *)
Refuse(s, call) ==
    \E e \in {"INVALID_ADDRESS", "INVALID_PORT"} \cap Installed[s][call] :
        /\ last' = [socket |-> s, call |-> call, outcome |-> e]
        /\ ran' = Key(call, e)
        /\ UNCHANGED errno

DispatchNext ==
    \E s \in Socket :
        /\ UNCHANGED Errno
        /\ \/ ReceiveSize(s)
           \/ \E call \in {"bind", "connect"} \cap DOMAIN Installed[s] : Refuse(s, call)
           \/ \E call \in DOMAIN Installed[s] : \E outcome \in Outcome(call) : Invoke(s, call, outcome)

DispatchSpec == DispatchInit /\ [][DispatchNext]_dispatchVars

-----------------------------------------------------------------------------
(* What the enumerators take for granted of an <errno.h>: it has all the   *)
(* names, and none of those listed for a call has the number that the      *)
(* compiler gives to SUCCESS or DISCONNECTING of that call.                *)
Portable(P) ==
    \A call \in Call :
        /\ Failure(call) \subseteq DOMAIN P
        /\ \A e \in Listed[call] : \A n \in DOMAIN Numbered[call] :
              Numbered[call][n] \in {"SUCCESS", "DISCONNECTING"} => P[e] # P[LastValued[call]] + n

Handled == ran \in {Key(last.call, e) : e \in Errors(last.call)}

(* A call that succeeds after others have failed is not taken for a        *)
(* failure: no method looks at the errno they left.                        *)
NoFalseAlarm == last.outcome = "ok" => ~Handled

(* The numbers the compiler gives to SUCCESS and DISCONNECTING are none    *)
(* that a listed error has, nor are those of INVALID_ADDRESS and its like: *)
(* what is reported runs its handler, not the one of a success or of the   *)
(* end of a stream (Errors.h:387).                                         *)
ListedErrorIsReported ==
    last.outcome \in Installed[last.socket][last.call] =>
        /\ ran = Key(last.call, last.outcome)
        /\ \A e \in {"SUCCESS", "DISCONNECTING"} \cap Everything(last.call) : ran # Key(last.call, e)
=============================================================================
