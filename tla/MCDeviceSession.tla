-------------------------- MODULE MCDeviceSession --------------------------
(* Model-checking instance of DeviceSession: three open calls are enough  *)
(* for a failed stored attempt followed by an identified one, a direct    *)
(* open after a close, and a session opened after an earlier failure;     *)
(* two downloads let DEVINFO fire twice in one session.                    *)
EXTENDS DeviceSession

MCMaxCalls == 3
MCMaxDownloads == 2

=============================================================================
