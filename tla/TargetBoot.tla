----------------------------- MODULE TargetBoot -----------------------------
(***************************************************************************)
(* The target's user space in vexpress_tools/rootfs: BusyBox init reads    *)
(* etc/inittab, runs etc/init.d/rcS to its end, then offers a shell on the *)
(* console. The power may go at any moment; what had not reached the card  *)
(* is lost, and rcS meets what is left of it at the next boot.             *)
(*                                                                         *)
(* pc is the line of rcS the shell executes next; 0 is "rcS is not running".*)
(* rcS has no `set -e': a command that fails is passed over.               *)
(***************************************************************************)
EXTENDS Naturals, Sequences, FiniteSets

CONSTANT MaxFailures   \* bound: lines of rcS that fail in one boot

ASSUME FailureAssumption == MaxFailures \in Nat

VARIABLES
  init,       \* "off", "sysinit" (rcS runs), "askfirst" or "shell"
  pc,         \* line of rcS
  disk,       \* the files of /etc as they are on the card
  cache,      \* the same files as processes see them
  kernelHost, \* the kernel's host name
  mounted,    \* the file systems of lines 6-9 that are mounted
  failed      \* the lines of rcS that have failed in this boot

Identity == {"passwd", "group", "shadow"}

(* root entries of an identity file, in order: "own" is an entry somebody   *)
(* chose (in etc/shadow: with a password), "default" the one rcS appends    *)
RootEntries == {<<>>, <<"own">>, <<"default">>}
Etc == [passwd : RootEntries, group : RootEntries, shadow : RootEntries,
        hostname : {"absent", "empty", "mmagdi"}, hosts : {"absent", "named"}]
FileSystem == {"proc", "sysfs", "devtmpfs", "tmpfs"}

Lines == {5, 6, 7, 8, 9, 12, 13, 16, 17, 18, 21}

ram == <<kernelHost, mounted, failed>>
vars == <<init, pc, disk, cache, ram>>

(* The state is well typed; above all, an identity file never has two root  *)
(* entries, however often rcS ran and wherever it was cut short.            *)
TypeOK ==
  /\ init \in {"off", "sysinit", "askfirst", "shell"}
  /\ pc \in {0} \cup Lines
  /\ pc # 0 <=> init = "sysinit"
  /\ disk \in Etc /\ cache \in Etc
  /\ kernelHost \in {"(none)", "empty", "mmagdi"}
  /\ mounted \subseteq FileSystem
  /\ failed \subseteq Lines

PoweredDown ==
  /\ init' = "off" /\ pc' = 0
  /\ kernelHost' = "(none)" /\ mounted' = {} /\ failed' = {}

(* a root file system as shipped, or one that lacks what rcS provides       *)
Init ==
  /\ init = "off" /\ pc = 0
  /\ disk \in {e \in Etc : /\ \A f \in Identity : e[f] # <<"default">>
                           /\ e.hostname # "empty" /\ e.hosts = "absent"}
  /\ cache = disk
  /\ kernelHost = "(none)" /\ mounted = {} /\ failed = {}

-----------------------------------------------------------------------------
(* inittab line 1: sysinit. A kernel built with CONFIG_DEVTMPFS_MOUNT has  *)
(* mounted /dev by itself.                                                  *)
PowerOn ==
  /\ init = "off"
  /\ init' = "sysinit" /\ pc' = 5
  /\ cache' = disk
  /\ mounted' \in {{}, {"devtmpfs"}}
  /\ UNCHANGED <<disk, kernelHost, failed>>

Goto(from, to) == pc = from /\ pc' = to /\ UNCHANGED init

MakeDirs == Goto(5, 6) /\ UNCHANGED <<disk, cache, ram>>

(* mount is refused where the same file system is mounted: nothing changes  *)
MountFs(from, to, fs) ==
  /\ Goto(from, to)
  /\ mounted' = mounted \cup {fs}
  /\ UNCHANGED <<disk, cache, kernelHost, failed>>

(* mutant: [ -f /etc/hostname ] || echo ...                                 *)
WriteMissingHostname ==
  /\ Goto(12, 13)
  /\ IF cache.hostname = "absent"
     THEN /\ cache' = [cache EXCEPT !.hostname = "mmagdi"]
          /\ disk' \in {disk, [disk EXCEPT !.hostname = "empty"]}
     ELSE UNCHANGED <<cache, disk>>
  /\ UNCHANGED ram

(* `>' empties the file, and that may reach the card before the new name    *)
WriteHostname ==
  /\ Goto(12, 13)
  /\ cache' = [cache EXCEPT !.hostname = "mmagdi"]
  /\ disk' \in {disk, [disk EXCEPT !.hostname = "empty"]}
  /\ UNCHANGED ram

SetHostname ==
  /\ Goto(13, 16)
  /\ kernelHost' = IF cache.hostname = "mmagdi" THEN "mmagdi" ELSE "empty"
  /\ UNCHANGED <<disk, cache, mounted, failed>>

(* mutant: append without looking                                           *)
AppendRoot(from, to, f) ==
  /\ Goto(from, to)
  /\ cache' = [cache EXCEPT ![f] = Append(@, "default")]
  /\ UNCHANGED <<disk, ram>>

(* mutant: `>' for `>>', and no grep                                        *)
OverwriteRoot(from, to, f) ==
  /\ Goto(from, to)
  /\ cache' = [cache EXCEPT ![f] = <<"default">>]
  /\ UNCHANGED <<disk, ram>>

(* grep -q '^root:' FILE || echo ... >> FILE                                *)
EnsureRoot(from, to, f) ==
  /\ Goto(from, to)
  /\ cache' = [cache EXCEPT ![f] = IF @ = <<>> THEN Append(@, "default") ELSE @]
  /\ UNCHANGED <<disk, ram>>

(* The file ends inside the `if' of line 21: the shell gets no further, and *)
(* writes nothing to /etc/hosts. init waits for rcS to end, not to succeed. *)
EndOfFile ==
  /\ pc = 21 /\ pc' = 0
  /\ init' = "askfirst"
  /\ UNCHANGED <<disk, cache, ram>>

Failing == Cardinality(failed) < MaxFailures /\ failed' = failed \cup {pc}

(* a command fails, a write finds the card full: on with the next line      *)
CommandFails(from, to) ==
  /\ Goto(from, to)
  /\ Failing
  /\ UNCHANGED <<disk, cache, kernelHost, mounted>>

(* on a full card `>' still empties /etc/hostname, on one mounted read-only *)
(* it does not                                                              *)
WriteHostnameFails ==
  /\ Goto(12, 13)
  /\ Failing
  /\ cache' \in {cache, [cache EXCEPT !.hostname = "empty"]}
  /\ UNCHANGED <<disk, kernelHost, mounted>>

-----------------------------------------------------------------------------
(* inittab line 4: askfirst, a shell *)
Enter ==
  /\ init = "askfirst" /\ init' = "shell"
  /\ UNCHANGED <<pc, disk, cache, ram>>

ShellExits ==
  /\ init = "shell" /\ init' = "askfirst"
  /\ UNCHANGED <<pc, disk, cache, ram>>

(* `passwd' typed in the shell *)
SetPassword ==
  /\ init = "shell" /\ cache.shadow # <<>>
  /\ cache' = [cache EXCEPT !.shadow = <<"own">>]
  /\ UNCHANGED <<init, pc, disk, ram>>

Writeback(f) ==
  /\ init # "off"
  /\ disk' = [disk EXCEPT ![f] = cache[f]]
  /\ UNCHANGED <<init, pc, cache, ram>>

PowerCut ==
  /\ init # "off"
  /\ PoweredDown
  /\ cache' = disk
  /\ UNCHANGED disk

(* `poweroff' in the shell: init syncs first *)
PowerOff ==
  /\ init = "shell"
  /\ PoweredDown
  /\ disk' = cache
  /\ UNCHANGED cache

-----------------------------------------------------------------------------
RcS ==
  \/ MakeDirs
  \/ MountFs(6, 7, "proc") \/ MountFs(7, 8, "sysfs")
  \/ MountFs(8, 9, "devtmpfs") \/ MountFs(9, 12, "tmpfs")
  \/ WriteHostname \/ SetHostname
  \/ EnsureRoot(16, 17, "passwd") \/ EnsureRoot(17, 18, "group")
  \/ EnsureRoot(18, 21, "shadow")
  \/ EndOfFile

Failures ==
  \/ CommandFails(5, 6) \/ CommandFails(6, 7) \/ CommandFails(7, 8)
  \/ CommandFails(8, 9) \/ CommandFails(9, 12) \/ WriteHostnameFails \/ CommandFails(13, 16)
  \/ CommandFails(16, 17) \/ CommandFails(17, 18) \/ CommandFails(18, 21)

Console == Enter \/ ShellExits \/ SetPassword \/ PowerOff

Next == \/ PowerOn \/ RcS \/ Failures \/ Console \/ PowerCut
        \/ \E f \in DOMAIN disk : Writeback(f)

Spec == Init /\ [][Next]_vars

-----------------------------------------------------------------------------
AtConsole == init \in {"askfirst", "shell"}

(* There is no `set -e': by the time the console is offered, every line     *)
(* that did not fail itself has had its effect, whichever others failed and *)
(* wherever earlier boots were cut off. Only line 13 builds on another one. *)
ConsoleReady ==
  AtConsole =>
    /\ 6 \notin failed => "proc" \in mounted
    /\ 7 \notin failed => "sysfs" \in mounted
    /\ 8 \notin failed => "devtmpfs" \in mounted
    /\ 9 \notin failed => "tmpfs" \in mounted
    /\ failed \cap {12, 13} = {} => kernelHost = "mmagdi"
    /\ 16 \notin failed => cache.passwd # <<>>
    /\ 17 \notin failed => cache.group # <<>>
    /\ 18 \notin failed => cache.shadow # <<>>

(* A root entry somebody chose, once on the card, is never replaced by the  *)
(* default of lines 16-18 (for etc/shadow: root without a password).        *)
OwnEntriesStay ==
  [][\A f \in Identity : disk[f] = <<"own">> => disk'[f] = <<"own">>]_disk

(* rcS:20, /etc/hosts makes prompts nicer                                   *)
HostsNamed == AtConsole /\ failed = {} => cache.hosts = "named"
=============================================================================
