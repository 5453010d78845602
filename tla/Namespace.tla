----------------------------- MODULE Namespace ------------------------------
(***************************************************************************)
(* Entering the namespaces, probing whether they can be entered, and the   *)
(* AppArmor profile that lets agentbox-exec do so (src/c/agentbox_ns.c).   *)
(*                                                                         *)
(* A machine is what decides the answers of the system calls those         *)
(* functions make:                                                         *)
(*   userns    unshare of the user, mount and pid namespaces               *)
(*   idmap     setgroups, uid_map, gid_map: "ok", "apparmor" (denied to    *)
(*             a program without a userns profile) or "denied"             *)
(*   private   the MS_PRIVATE remount of /                                 *)
(*   overlay   mounting an overlay: "ok", "perm" (EPERM, EINVAL), "other"  *)
(*   fuse      fuse-overlayfs works                                        *)
(*   apparmor  AppArmor is active                                          *)
(* A boolean profile tells whether the profile of agentbox-exec is loaded. *)
(*                                                                         *)
(* The answers need not stay the same: see Shortages.                      *)
(***************************************************************************)

Machine == {m \in [userns : BOOLEAN, idmap : {"ok", "apparmor", "denied"},
                   private : BOOLEAN, overlay : {"ok", "perm", "other"},
                   fuse : BOOLEAN, apparmor : BOOLEAN] :
              m.idmap = "apparmor" => m.apparmor}

(* A call that the machine grants may still fail once, for want of memory  *)
(* or of a namespace or mount (ENOMEM, ENOSPC).                            *)
Shortages(m) ==
  {m, [m EXCEPT !.userns = FALSE], [m EXCEPT !.idmap = "denied"],
   [m EXCEPT !.private = FALSE], [m EXCEPT !.overlay = "other"]}

ProbeCodes == {"OK", "UNSHARE_FAILED", "ID_MAP_DENIED", "MOUNT_PERM_DENIED",
               "MOUNT_OTHER_FAILED", "FORK_FAILED"}

(* setgroups, uid_map and gid_map, with the ids read before unshare. *)
IdMapped(m, profile) == m.idmap = "ok" \/ (m.idmap = "apparmor" /\ profile)

probe_child_body(m, profile) ==
  IF ~m.userns THEN "UNSHARE_FAILED"
  ELSE IF ~IdMapped(m, profile) THEN "ID_MAP_DENIED"
  ELSE IF ~m.private THEN "MOUNT_OTHER_FAILED"
  ELSE IF m.overlay = "other" THEN "MOUNT_OTHER_FAILED"
  ELSE IF m.overlay = "perm" /\ ~m.fuse THEN "MOUNT_PERM_DENIED"
  ELSE "OK"

(* The pipe or the fork may fail, or the child be killed.  Where SIGCHLD   *)
(* is ignored waitpid leaves the status at 0, whatever the child found.    *)
agentbox_ns_probe(m, profile, sigchld) ==
  {IF sigchld THEN "OK" ELSE probe_child_body(m, profile), "FORK_FAILED"}

agentbox_ns_enter(m, profile) ==
  IF ~m.userns \/ ~IdMapped(m, profile) THEN "NAMESPACE_UNAVAILABLE"
  ELSE IF ~m.private THEN "MOUNT_FAILED"
  ELSE "OK"

(* What the installer leaves of the profile's text: fopen failed, the text *)
(* was cut short (fprintf and fclose are not looked at), or all of it.     *)
Texts == {"none", "cut", "whole"}

(* Mutant: apparmor_parser's exit status is not looked at. *)
InstallUnchecked(m, root, text, status) ==
  IF ~root THEN "PERMISSION_DENIED"
  ELSE IF m.apparmor /\ text = "none" THEN "IO"
  ELSE "OK"

(* The installer's answer: root, the text written and status, whether      *)
(* apparmor_parser was started and its exit status read as 0.  The path is *)
(* that of the installed binary, so INVALID_ARGUMENT is not answered.      *)
agentbox_ns_install_apparmor_profile(m, root, text, status) ==
  IF ~root THEN "PERMISSION_DENIED"
  ELSE IF ~m.apparmor THEN "OK"
  ELSE IF text = "none" THEN "IO"
  ELSE IF ~status THEN "GENERIC"
  ELSE "OK"

(* Only a whole profile that was parsed is loaded: a cut one is refused by *)
(* the parser, or declares nothing.  Neither unloads the one that was.     *)
ProfileLoaded(m, root, text, parsed, profile) ==
  profile \/ (root /\ m.apparmor /\ text = "whole" /\ parsed)

(* The file in /etc/apparmor.d, which fopen empties first. *)
ProfileFile(m, root, text, file) ==
  IF root /\ m.apparmor /\ text # "none" THEN text ELSE file
=============================================================================
