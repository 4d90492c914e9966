----------------------------- MODULE WasiRights -----------------------------
(***************************************************************************)
(* The capability bits of wasi_snapshot_preview1 and the two groups of     *)
(* them that memfs.cc keeps apart: what may be done to a path below a      *)
(* directory, and what may be done to an open file.                        *)
(*                                                                         *)
(* A __wasi_rights_t is the set of the names of its bits.                  *)
(***************************************************************************)

(* Directory descriptors carry these, file descriptors lose them.          *)
WASI_PATH_RIGHTS ==
  { "PATH_CREATE_DIRECTORY", "PATH_CREATE_FILE", "PATH_LINK_SOURCE",
    "PATH_LINK_TARGET", "PATH_OPEN", "PATH_RENAME_SOURCE",
    "PATH_RENAME_TARGET", "PATH_FILESTAT_GET", "PATH_FILESTAT_SET_SIZE",
    "PATH_FILESTAT_SET_TIMES", "PATH_SYMLINK", "PATH_REMOVE_DIRECTORY",
    "PATH_UNLINK_FILE" }

(* File descriptors carry these, directory descriptors lose them.          *)
WASI_FD_RIGHTS ==
  { "FD_DATASYNC", "FD_READ", "FD_SEEK", "FD_FDSTAT_SET_FLAGS", "FD_SYNC",
    "FD_TELL", "FD_WRITE", "FD_ADVISE", "FD_ALLOCATE", "FD_READDIR",
    "FD_FILESTAT_GET", "FD_FILESTAT_SET_SIZE", "FD_FILESTAT_SET_TIMES" }

(* Every bit of the interface: three of them are in neither group.         *)
Right ==
  WASI_PATH_RIGHTS \cup WASI_FD_RIGHTS
    \cup { "PATH_READLINK", "POLL_FD_READWRITE", "SOCK_SHUTDOWN" }
=============================================================================
