----------------------------- MODULE MCDispatch -----------------------------
(***************************************************************************)
(* Instances of Dispatch for TLC: the errno values of two platforms.       *)
(***************************************************************************)
EXTENDS Dispatch

Linux == [
    EPERM |-> 1, ENOENT |-> 2, EINTR |-> 4, EIO |-> 5, EBADF |-> 9, EAGAIN |-> 11,
    ENOMEM |-> 12, EACCES |-> 13, EFAULT |-> 14, ENOTDIR |-> 20, EINVAL |-> 22, ENFILE |-> 23,
    EMFILE |-> 24, ENOSPC |-> 28, EROFS |-> 30, EPIPE |-> 32, ENAMETOOLONG |-> 36,
    ELOOP |-> 40, EPROTO |-> 71, ENOTSOCK |-> 88, EDESTADDRREQ |-> 89, EMSGSIZE |-> 90,
    EPROTOTYPE |-> 91, EPROTONOSUPPORT |-> 93, EOPNOTSUPP |-> 95, EAFNOSUPPORT |-> 97,
    EADDRINUSE |-> 98, EADDRNOTAVAIL |-> 99, ENETUNREACH |-> 101, ECONNABORTED |-> 103,
    ECONNRESET |-> 104, ENOBUFS |-> 105, EISCONN |-> 106, ENOTCONN |-> 107,
    ETIMEDOUT |-> 110, ECONNREFUSED |-> 111, EHOSTUNREACH |-> 113, EALREADY |-> 114,
    EINPROGRESS |-> 115, EDQUOT |-> 122]

Darwin == [
    EPERM |-> 1, ENOENT |-> 2, EINTR |-> 4, EIO |-> 5, EBADF |-> 9, EAGAIN |-> 35,
    ENOMEM |-> 12, EACCES |-> 13, EFAULT |-> 14, ENOTDIR |-> 20, EINVAL |-> 22, ENFILE |-> 23,
    EMFILE |-> 24, ENOSPC |-> 28, EROFS |-> 30, EPIPE |-> 32, ENAMETOOLONG |-> 63,
    ELOOP |-> 62, EPROTO |-> 100, ENOTSOCK |-> 38, EDESTADDRREQ |-> 39, EMSGSIZE |-> 40,
    EPROTOTYPE |-> 41, EPROTONOSUPPORT |-> 43, EOPNOTSUPP |-> 102, EAFNOSUPPORT |-> 47,
    EADDRINUSE |-> 48, EADDRNOTAVAIL |-> 49, ENETUNREACH |-> 51, ECONNABORTED |-> 53,
    ECONNRESET |-> 54, ENOBUFS |-> 55, EISCONN |-> 56, ENOTCONN |-> 57,
    ETIMEDOUT |-> 60, ECONNREFUSED |-> 61, EHOSTUNREACH |-> 65, EALREADY |-> 37,
    EINPROGRESS |-> 36, EDQUOT |-> 69]

Platforms == {Linux, Darwin}

ASSUME PlatformsArePortable == \A P \in Platforms : Portable(P)
=============================================================================
