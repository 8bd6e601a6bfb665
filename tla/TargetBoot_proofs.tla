------------------------- MODULE TargetBoot_proofs -------------------------
(***************************************************************************)
(* Theorems about TargetBoot: what the console finds, by what each line of *)
(* rcS has established, and not by visiting states.                        *)
(***************************************************************************)
EXTENDS TargetBoot, TLAPS

(* rcS has executed the lines before n in this boot, or all of them *)
Past(n) == AtConsole \/ (init = "sysinit" /\ n <= pc)

(* What each line of rcS has established unless it failed itself. The host  *)
(* name set at line 13 is the one line 12 has written in this boot.         *)
FilesystemsInv ==
  /\ 6 \notin failed /\ Past(7) => "proc" \in mounted
  /\ 7 \notin failed /\ Past(8) => "sysfs" \in mounted
  /\ 8 \notin failed /\ Past(9) => "devtmpfs" \in mounted
  /\ 9 \notin failed /\ Past(12) => "tmpfs" \in mounted
HostnameInv ==
  /\ 12 \notin failed /\ Past(13) => cache["hostname"] = "mmagdi"
  /\ 12 \notin failed /\ 13 \notin failed /\ Past(16) => kernelHost = "mmagdi"
EntriesInv ==
  /\ 16 \notin failed /\ Past(17) => cache["passwd"] # <<>>
  /\ 17 \notin failed /\ Past(18) => cache["group"] # <<>>
  /\ 18 \notin failed /\ Past(21) => cache["shadow"] # <<>>
BootInv == FilesystemsInv /\ HostnameInv /\ EntriesInv

(* What somebody chose and is on the card, is not hidden by anything in the *)
(* page cache that could overwrite it.                                      *)
OwnInv == \A f \in Identity : disk[f] = <<"own">> => cache[f] = <<"own">>

IInv == TypeOK /\ BootInv /\ OwnInv

(* an identity file with no root entry gets one, any other keeps its own *)
LEMMA AppendDefault == Append(<<>>, "default") = <<"default">>
  OBVIOUS

(* the three entries of an identity file are different *)
LEMMA EntriesDiffer ==
  <<"own">> # <<"default">> /\ <<"own">> # <<>> /\ <<"default">> # <<>>
  OBVIOUS

(* the files as records: which fields they have, and of what type *)
LEMMA EtcFields ==
  ASSUME NEW e \in Etc
  PROVE  /\ DOMAIN e = {"passwd", "group", "shadow", "hostname", "hosts"}
         /\ e["hostname"] \in {"absent", "empty", "mmagdi"}
         /\ e["hosts"] \in {"absent", "named"}
         /\ \A f \in Identity : e[f] \in RootEntries
  BY DEF Etc, Identity

(* a file replaced by one of its type *)
LEMMA EtcUpdate ==
  ASSUME NEW e \in Etc
  PROVE  /\ \A f \in Identity, r \in RootEntries : [e EXCEPT ![f] = r] \in Etc
         /\ \A h \in {"absent", "empty", "mmagdi"} : [e EXCEPT !["hostname"] = h] \in Etc
         /\ \A h \in {"absent", "named"} : [e EXCEPT !["hosts"] = h] \in Etc
  BY DEF Etc, Identity

(* lines 16-18: a file without a root entry gets the default one, nothing   *)
(* else changes                                                             *)
LEMMA RootEnsured ==
  ASSUME cache \in Etc, NEW f \in Identity, NEW from, NEW to,
         EnsureRoot(from, to, f)
  PROVE  /\ cache' \in Etc /\ cache'[f] # <<>>
         /\ cache[f] # <<>> => cache' = cache
         /\ \A g \in DOMAIN cache \ {f} : cache'[g] = cache[g]
<1>1. cache[f] \in RootEntries /\ f \in DOMAIN cache
  BY EtcFields DEF Identity
<1>2. CASE cache[f] = <<>>
  <2>1. cache' = [cache EXCEPT ![f] = <<"default">>]
    BY <1>2, AppendDefault DEF EnsureRoot
  <2>2. cache' \in Etc
    BY <2>1, EtcUpdate DEF RootEntries
  <2> QED
    BY <1>1, <1>2, <2>1, <2>2, EntriesDiffer
<1>3. CASE cache[f] # <<>>
  <2>1. cache' = [cache EXCEPT ![f] = cache[f]]
    BY <1>3 DEF EnsureRoot
  <2>2. cache' = cache
    BY <2>1, EtcFields DEF Etc
  <2> QED
    BY <1>3, <2>2
<1> QED
  BY <1>2, <1>3

(* line 12: only the host name's file changes, in the cache as on the card  *)
LEMMA HostnameWritten ==
  ASSUME cache \in Etc, disk \in Etc, WriteHostname \/ WriteHostnameFails
  PROVE  /\ cache' \in Etc /\ disk' \in Etc
         /\ WriteHostname => cache'["hostname"] = "mmagdi"
         /\ \A f \in Identity : cache'[f] = cache[f] /\ disk'[f] = disk[f]
<1>1. /\ WriteHostname => cache' = [cache EXCEPT !["hostname"] = "mmagdi"]
      /\ WriteHostnameFails => cache' \in {cache, [cache EXCEPT !["hostname"] = "empty"]}
      /\ disk' \in {disk, [disk EXCEPT !["hostname"] = "empty"]}
  BY DEF WriteHostname, WriteHostnameFails
<1>2. cache' \in Etc /\ disk' \in Etc
  BY <1>1, EtcUpdate
<1>3. /\ DOMAIN cache = {"passwd", "group", "shadow", "hostname", "hosts"}
      /\ DOMAIN disk = {"passwd", "group", "shadow", "hostname", "hosts"}
  BY EtcFields
<1> QED
  BY <1>1, <1>2, <1>3 DEF Identity

(* write-back: one file of the card becomes what the cache has              *)
LEMMA FileWritten ==
  ASSUME cache \in Etc, disk \in Etc, NEW f \in DOMAIN disk, Writeback(f)
  PROVE  /\ disk' \in Etc
         /\ \A g \in Identity : disk'[g] = disk[g] \/ disk'[g] = cache[g]
<1>1. disk' = [disk EXCEPT ![f] = cache[f]]
  BY DEF Writeback
<1>2. f \in {"hostname", "hosts"} \cup Identity
  BY EtcFields DEF Identity
<1>3. disk' \in Etc
  BY <1>1, <1>2, EtcFields, EtcUpdate
<1>4. Identity \subseteq DOMAIN disk
  BY EtcFields DEF Identity
<1> QED
  BY <1>1, <1>3, <1>4

(* `passwd' gives etc/shadow an entry of its own                            *)
LEMMA PasswordSet ==
  ASSUME cache \in Etc, SetPassword
  PROVE  /\ cache' \in Etc /\ cache'["shadow"] = <<"own">>
         /\ \A g \in DOMAIN cache \ {"shadow"} : cache'[g] = cache[g]
<1>1. cache' = [cache EXCEPT !["shadow"] = <<"own">>] /\ "shadow" \in DOMAIN cache
  BY EtcFields DEF SetPassword
<1>2. cache' \in Etc
  BY <1>1, EtcUpdate DEF Identity, RootEntries
<1> QED
  BY <1>1, <1>2

(* before the first boot *)
LEMMA IInvInit == Init => IInv
  BY EtcFields, EntriesDiffer
  DEF Init, IInv, TypeOK, BootInv, FilesystemsInv, HostnameInv, EntriesInv, OwnInv,
      Past, AtConsole, FileSystem

-----------------------------------------------------------------------------
(* Each step keeps each part of IInv. *)

(* whatever rcS, the console or a power cut does, files have their types    *)
LEMMA TypeNext == IInv /\ [Next]_vars => TypeOK'
<1> SUFFICES ASSUME IInv, [Next]_vars PROVE TypeOK'
  OBVIOUS
<1>b. {"proc", "sysfs", "devtmpfs", "tmpfs"} = FileSystem /\ {} \subseteq FileSystem
  BY DEF FileSystem
<1>c. {"passwd", "group", "shadow"} = Identity
  BY DEF Identity
<1> USE DEF IInv, TypeOK, Goto, ram, Lines
<1>1. CASE PowerOn
  BY <1>1, <1>b DEF PowerOn
<1>2. CASE MakeDirs
  BY <1>2 DEF MakeDirs
<1>3. ASSUME NEW from \in {6, 7, 8, 9}, NEW to \in {7, 8, 9, 12},
             NEW fs \in FileSystem, MountFs(from, to, fs)
      PROVE  TypeOK'
  BY <1>3 DEF MountFs
<1>4. CASE WriteHostname
  <2>1. cache' \in Etc /\ disk' \in Etc
    BY <1>4, HostnameWritten
  <2>2. Goto(12, 13) /\ UNCHANGED ram
    BY <1>4 DEF WriteHostname
  <2> QED
    BY <2>1, <2>2
<1>5. CASE WriteHostnameFails
  <2>1. cache' \in Etc /\ disk' \in Etc
    BY <1>5, HostnameWritten
  <2>2. Goto(12, 13) /\ failed' = failed \cup {pc} /\ UNCHANGED <<kernelHost, mounted>>
    BY <1>5 DEF WriteHostnameFails, Failing
  <2> QED
    BY <2>1, <2>2
<1>6. CASE SetHostname
  BY <1>6 DEF SetHostname
<1>7. ASSUME NEW from \in {16, 17, 18}, NEW to \in {17, 18, 21}, NEW f \in Identity,
             EnsureRoot(from, to, f)
      PROVE  TypeOK'
  <2>1. cache' \in Etc
    BY <1>7, RootEnsured
  <2>2. Goto(from, to) /\ UNCHANGED <<disk, ram>>
    BY <1>7 DEF EnsureRoot
  <2> QED
    BY <2>1, <2>2
<1>8. ASSUME NEW from \in Lines, NEW to \in Lines, CommandFails(from, to)
      PROVE  TypeOK'
  <2>1. /\ Goto(from, to) /\ failed' = failed \cup {pc}
        /\ UNCHANGED <<disk, cache, kernelHost, mounted>>
    BY <1>8 DEF CommandFails, Failing
  <2> QED
    BY <2>1
<1>9. CASE EndOfFile
  BY <1>9 DEF EndOfFile
<1>10. CASE Enter \/ ShellExits
  BY <1>10 DEF Enter, ShellExits
<1>11. CASE SetPassword
  BY <1>11, PasswordSet DEF SetPassword
<1>12. CASE PowerOff
  BY <1>12, <1>b DEF PowerOff, PoweredDown
<1>13. CASE PowerCut
  BY <1>13, <1>b DEF PowerCut, PoweredDown
<1>14. ASSUME NEW f \in DOMAIN disk, Writeback(f) PROVE TypeOK'
  BY <1>14, FileWritten DEF Writeback
<1>15. CASE UNCHANGED vars
  BY <1>15 DEF vars
<1> HIDE DEF IInv, TypeOK
<1>d. CASE RcS
  BY <1>2, <1>3, <1>4, <1>6, <1>7, <1>9, <1>b, <1>c, <1>d DEF RcS
<1>e. CASE Failures
  BY <1>5, <1>8, <1>e DEF Failures
<1> QED
  BY <1>1, <1>10, <1>11, <1>12, <1>13, <1>14, <1>15, <1>d, <1>e DEF Next, Console

(* each line of rcS adds to what the ones before have established, or it is *)
(* among those that failed                                                  *)
LEMMA BootNext == IInv /\ [Next]_vars => BootInv'
<1> SUFFICES ASSUME IInv, [Next]_vars PROVE BootInv'
  OBVIOUS
<1>a. {"passwd", "group", "shadow"} = Identity
  BY DEF Identity
<1>b. DOMAIN cache = {"passwd", "group", "shadow", "hostname", "hosts"}
  BY EtcFields DEF IInv, TypeOK
<1>c. pc # 0 <=> init = "sysinit"
  BY DEF IInv, TypeOK
<1>d. BootInv
  BY DEF IInv
<1> USE DEF BootInv, FilesystemsInv, HostnameInv, EntriesInv, Past, AtConsole, Goto, ram
<1>1. CASE PowerOn
  BY <1>1 DEF PowerOn
<1>2. CASE MakeDirs
  BY <1>2, <1>d DEF MakeDirs
<1>3. CASE \/ MountFs(6, 7, "proc") \/ MountFs(7, 8, "sysfs")
           \/ MountFs(8, 9, "devtmpfs") \/ MountFs(9, 12, "tmpfs")
  <2>1. CASE MountFs(6, 7, "proc")
    BY <2>1, <1>c, <1>d DEF MountFs
  <2>2. CASE MountFs(7, 8, "sysfs")
    BY <2>2, <1>c, <1>d DEF MountFs
  <2>3. CASE MountFs(8, 9, "devtmpfs")
    BY <2>3, <1>c, <1>d DEF MountFs
  <2>4. CASE MountFs(9, 12, "tmpfs")
    BY <2>4, <1>c, <1>d DEF MountFs
  <2> QED
    BY <1>3, <2>1, <2>2, <2>3, <2>4
<1>4. CASE WriteHostname
  <2>1. Goto(12, 13) /\ UNCHANGED ram /\ cache'["hostname"] = "mmagdi"
    BY <1>4, HostnameWritten DEF WriteHostname, IInv, TypeOK
  <2> QED
    BY <2>1, <1>c, <1>d
<1>5. CASE SetHostname
  BY <1>5, <1>c, <1>d DEF SetHostname
<1>6. ASSUME NEW from, NEW to, NEW f \in Identity, EnsureRoot(from, to, f)
      PROVE  /\ Goto(from, to) /\ UNCHANGED ram
             /\ cache'[f] # <<>> /\ cache'["hostname"] = cache["hostname"]
             /\ \A g \in Identity \ {f} : cache'[g] = cache[g]
  BY <1>6, <1>a, <1>b, RootEnsured DEF EnsureRoot, IInv, TypeOK
<1>7. CASE EnsureRoot(16, 17, "passwd")
  <2>1. /\ Goto(16, 17) /\ UNCHANGED ram /\ cache'["passwd"] # <<>>
        /\ cache'["hostname"] = cache["hostname"]
    BY <1>6, <1>7, <1>a
  <2> QED
    BY <2>1, <1>c, <1>d
<1>8. CASE EnsureRoot(17, 18, "group")
  <2>1. /\ Goto(17, 18) /\ UNCHANGED ram /\ cache'["group"] # <<>>
        /\ cache'["hostname"] = cache["hostname"] /\ cache'["passwd"] = cache["passwd"]
    BY <1>6, <1>8, <1>a
  <2> QED
    BY <2>1, <1>c, <1>d
<1>9. CASE EnsureRoot(18, 21, "shadow")
  <2>1. /\ Goto(18, 21) /\ UNCHANGED ram /\ cache'["shadow"] # <<>>
        /\ cache'["hostname"] = cache["hostname"]
        /\ cache'["passwd"] = cache["passwd"] /\ cache'["group"] = cache["group"]
    BY <1>6, <1>9, <1>a
  <2> QED
    BY <2>1, <1>c, <1>d
<1>10. CASE Failures
  <2>1. CASE WriteHostnameFails
    <3>1. /\ Goto(12, 13) /\ failed' = failed \cup {12}
          /\ UNCHANGED <<kernelHost, mounted>>
      BY <2>1 DEF WriteHostnameFails, Failing
    <3> QED
      BY <3>1, <1>c, <1>d
  <2>2. ASSUME NEW from, NEW to, CommandFails(from, to)
        PROVE  /\ pc = from /\ pc' = to /\ UNCHANGED init
               /\ failed' = failed \cup {from}
               /\ UNCHANGED <<cache, kernelHost, mounted>>
    BY <2>2 DEF CommandFails, Failing
  <2>3. CASE CommandFails(5, 6) \/ CommandFails(6, 7) \/ CommandFails(7, 8)
    BY <2>2, <2>3, <1>c, <1>d
  <2>4. CASE CommandFails(8, 9) \/ CommandFails(9, 12) \/ CommandFails(13, 16)
    BY <2>2, <2>4, <1>c, <1>d
  <2>5. CASE CommandFails(16, 17) \/ CommandFails(17, 18) \/ CommandFails(18, 21)
    BY <2>2, <2>5, <1>c, <1>d
  <2> QED
    BY <1>10, <2>1, <2>3, <2>4, <2>5 DEF Failures
<1>11. CASE EndOfFile
  BY <1>11, <1>c, <1>d DEF EndOfFile
<1>12. CASE Enter \/ ShellExits
  BY <1>12, <1>c, <1>d DEF Enter, ShellExits
<1>13. CASE SetPassword
  <2>1. /\ UNCHANGED <<init, pc, ram>> /\ cache'["shadow"] # <<>>
        /\ cache'["hostname"] = cache["hostname"]
        /\ cache'["passwd"] = cache["passwd"] /\ cache'["group"] = cache["group"]
    BY <1>13, <1>b, PasswordSet, EntriesDiffer DEF SetPassword, IInv, TypeOK
  <2> QED
    BY <2>1, <1>d
<1>14. CASE PowerOff \/ PowerCut
  BY <1>14 DEF PowerOff, PowerCut, PoweredDown
<1>15. ASSUME NEW f \in DOMAIN disk, Writeback(f) PROVE BootInv'
  BY <1>15, <1>d DEF Writeback
<1>16. CASE UNCHANGED vars
  BY <1>16, <1>d DEF vars
<1> HIDE DEF BootInv, FilesystemsInv, HostnameInv, EntriesInv
<1> QED
  BY <1>1, <1>2, <1>3, <1>4, <1>5, <1>7, <1>8, <1>9, <1>10, <1>11, <1>12,
     <1>13, <1>14, <1>15, <1>16
  DEF Next, RcS, Console

(* an entry of the card reaches the page cache at power-on, and from then   *)
(* on only `passwd' replaces it, by one of the same kind                    *)
LEMMA OwnNext ==
  IInv /\ [Next]_vars =>
    /\ OwnInv'
    /\ \A f \in Identity : disk[f] = <<"own">> => disk'[f] = <<"own">>
<1> DEFINE Kept == /\ OwnInv'
                   /\ \A f \in Identity : disk[f] = <<"own">> => disk'[f] = <<"own">>
<1> SUFFICES ASSUME IInv, [Next]_vars PROVE Kept
  OBVIOUS
<1>a. /\ DOMAIN cache = {"passwd", "group", "shadow", "hostname", "hosts"}
      /\ \A f \in Identity : f \in DOMAIN cache
  BY EtcFields DEF IInv, TypeOK, Identity
<1>b. {"passwd", "group", "shadow"} = Identity
  BY DEF Identity
<1> USE DEF IInv, TypeOK, OwnInv, Goto, ram
<1>1. CASE PowerOn \/ MakeDirs \/ SetHostname \/ EndOfFile
  BY <1>1, <1>a DEF PowerOn, MakeDirs, SetHostname, EndOfFile
<1>2. CASE \/ MountFs(6, 7, "proc") \/ MountFs(7, 8, "sysfs")
           \/ MountFs(8, 9, "devtmpfs") \/ MountFs(9, 12, "tmpfs")
  BY <1>2 DEF MountFs
<1>3. CASE WriteHostname \/ WriteHostnameFails
  BY <1>3, <1>a, <1>b, HostnameWritten DEF WriteHostname, WriteHostnameFails
<1>4. CASE \/ EnsureRoot(16, 17, "passwd") \/ EnsureRoot(17, 18, "group")
           \/ EnsureRoot(18, 21, "shadow")
  BY <1>4, <1>a, <1>b, RootEnsured, EntriesDiffer DEF EnsureRoot
<1>5. CASE \/ CommandFails(5, 6) \/ CommandFails(6, 7) \/ CommandFails(7, 8) \/ CommandFails(8, 9)
           \/ CommandFails(9, 12) \/ CommandFails(13, 16) \/ CommandFails(16, 17)
           \/ CommandFails(17, 18) \/ CommandFails(18, 21)
  BY <1>5 DEF CommandFails
<1>6. CASE Enter \/ ShellExits \/ SetPassword
  BY <1>6, <1>a, <1>b, PasswordSet, EntriesDiffer
  DEF Enter, ShellExits, SetPassword
<1>7. CASE PowerOff \/ PowerCut
  BY <1>7 DEF PowerOff, PowerCut, PoweredDown
<1>8. ASSUME NEW f \in DOMAIN disk, Writeback(f) PROVE Kept
  BY <1>8, FileWritten DEF Writeback
<1>9. CASE UNCHANGED vars
  BY <1>9 DEF vars
<1> HIDE DEF IInv, Kept
<1> QED
  BY <1>1, <1>2, <1>3, <1>4, <1>5, <1>6, <1>7, <1>8, <1>9
  DEF Next, RcS, Failures, Console

(* the parts together *)
LEMMA IInvNext == IInv /\ [Next]_vars => IInv'
  BY TypeNext, BootNext, OwnNext DEF IInv

-----------------------------------------------------------------------------
(* Wherever boots are cut off, no identity file gets two root entries.      *)
THEOREM TypeCorrect == Spec => []TypeOK
<1>1. IInv => TypeOK
  BY DEF IInv
<1> QED
  BY <1>1, IInvInit, IInvNext, PTL DEF Spec

(* Whichever lines of rcS fail, the console comes with what the others do:  *)
(* a file system for each mount, a root entry for each file, the host name. *)
THEOREM BootsToConsole == Spec => []ConsoleReady
<1>1. IInv => ConsoleReady
  <2> SUFFICES ASSUME IInv, AtConsole PROVE ConsoleReady
    BY DEF ConsoleReady
  <2>1. Past(7) /\ Past(8) /\ Past(9) /\ Past(12) /\ Past(16) /\ Past(17)
        /\ Past(18) /\ Past(21)
    BY DEF Past
  <2>2. FilesystemsInv /\ HostnameInv /\ EntriesInv
    BY DEF IInv, BootInv
  <2>3. failed \cap {12, 13} = {} => 12 \notin failed /\ 13 \notin failed
    OBVIOUS
  <2> QED
    BY <2>1, <2>2, <2>3 DEF FilesystemsInv, HostnameInv, EntriesInv, ConsoleReady
<1> QED
  BY <1>1, IInvInit, IInvNext, PTL DEF Spec

(* A root entry somebody chose, once on the card, is there for good: rcS    *)
(* finds it in the page cache and appends nothing.                          *)
THEOREM KeepsOwnEntries == Spec => OwnEntriesStay
<1>1. IInv /\ [Next]_vars =>
        [\A f \in Identity : disk[f] = <<"own">> => disk'[f] = <<"own">>]_disk
  BY OwnNext
<1> QED
  BY <1>1, IInvInit, IInvNext, PTL DEF Spec, OwnEntriesStay
=============================================================================
