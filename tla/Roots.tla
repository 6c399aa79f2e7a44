------------------------------- MODULE Roots -------------------------------
(***************************************************************************)
(* Where a peer's files come from: the thread of its handler looks for a   *)
(* remote root among the configuration files (open_nbd_root, NBDConfig and *)
(* Mount), then answers each request from the first of its roots that has  *)
(* the file (schedule_task): the peer's own directory, the remote disk, if *)
(* one was connected, and the `default' directory.                         *)
(*                                                                         *)
(* A configuration file is named after an address, with or without an      *)
(* extension; Prefixes says which addresses are, as text, prefixes of      *)
(* which.  A dot sorts before the characters of an address, so that the    *)
(* files of an address sort before those of the addresses it begins.  To   *)
(* connect a disk, an appliance of guestfs is set up and launched; it runs *)
(* until its handle is dropped.                                            *)
(***************************************************************************)
EXTENDS Integers, Sequences, FiniteSetsExt

CONSTANTS
    Peer,         \* address of the peer
    Names,        \* files of tftp_root, sorted: the address each is named after
    Prefixes,     \* pairs of addresses, the first a proper prefix of the second
    Configs,      \* contents a file may have
    Partitions,   \* number of partitions of the remote disks
    MaxListed     \* partitions that are listed at most, 100 in the code

(***************************************************************************)
(* kind is "other" when the file is not JSON or not an NBDConfig, and      *)
(* "bad url" when its url is not an nbd:// one.  mounts lists partitions.  *)
(***************************************************************************)
ConfigType == [kind: {"other", "bad url", "nbd"}, mounts: Seq(Nat)]

ASSUME RootsAssumption ==
    /\ Names \in Seq(STRING)
    /\ \A f, g \in 1 .. Len(Names) : <<Names[f], Names[g]>> \in Prefixes => f < g
    /\ Configs \subseteq ConfigType
    /\ Partitions \in Nat /\ MaxListed \in Nat

Files == 1 .. Len(Names)

VARIABLES
    pc,        \* "scan", "attach", "mount", "serve"
    content,   \* content of the configuration files
    file,      \* the configuration file being looked at
    appliance, \* the file an appliance runs for, 0 for none
    calls,     \* calls of the appliance's setup made so far
    mounted,   \* partitions mounted so far on the disk being connected
    failed,    \* history: configuration files that were given up
    remote,    \* the file whose disk is connected, 0 for none
    state,     \* what each root holds under the requested path
    answer     \* what the last request was answered with

disk    == <<appliance, calls, mounted>>
request == <<state, answer>>
vars    == <<pc, content, file, disk, failed, remote, request>>

\* The calls of attach_nbd_disk and the one that follows it in connect.
SetupCalls == <<"set_append", "add_disk", "device", "drive", "launch", "list_partitions">>

\* GuestFS::list_partitions: the partitions a mount may name.
list_partitions == 1 .. Min({Partitions, MaxListed})

RootNames == {"own", "remote", "default"}
States    == {"file", "missing", "denied", "broken"}
Answers   == RootNames \cup {"none", "access_violation", "Server Error", "file_not_found"}

TypeOK ==
    /\ pc \in {"scan", "attach", "mount", "serve"}
    /\ content \in [Files -> Configs]
    /\ file \in 1 .. Len(Names) + 1
    /\ appliance \in 0 .. Len(Names)
    /\ calls \in 0 .. Len(SetupCalls)
    /\ mounted \in Seq(list_partitions)
    /\ failed \subseteq Files
    /\ remote \in 0 .. Len(Names)
    /\ state \in [RootNames -> States]
    /\ answer \in Answers

Init ==
    /\ pc = "scan"
    /\ content \in [Files -> Configs]
    /\ file = 1
    /\ appliance = 0
    /\ calls = 0
    /\ mounted = << >>
    /\ failed = {}
    /\ remote = 0
    /\ state = [r \in RootNames |-> "missing"]
    /\ answer = "none"
-----------------------------------------------------------------------------
(* open_nbd_root *)

\* file_name.starts_with(ip)
match_ip(f) == Names[f] = Peer \/ <<Peer, Names[f]>> \in Prefixes

\* GuestFS::new
Create == appliance' = file /\ UNCHANGED <<calls, mounted>>

\* The handle of the appliance is dropped, which closes it and its mounts.
Drop ==
    /\ appliance' = 0
    /\ calls' = 0
    /\ mounted' = << >>

\* Mutants: the disk keeps its mounts; its appliance; the scan ends with the
\* first failure; the file is tried again.
GiveUpKeepsMounts ==
    /\ pc' = "scan"
    /\ file' = file + 1
    /\ failed' = failed \cup {file}
    /\ appliance' = 0 /\ calls' = 0
    /\ UNCHANGED <<content, mounted, remote, request>>

GiveUpKeepsAppliance ==
    /\ pc' = "scan"
    /\ file' = file + 1
    /\ failed' = failed \cup {file}
    /\ calls' = 0 /\ mounted' = << >>
    /\ UNCHANGED <<content, appliance, remote, request>>

GiveUpScan ==
    /\ pc' = "scan"
    /\ file' = Len(Names) + 1
    /\ failed' = failed \cup {file}
    /\ Drop
    /\ UNCHANGED <<content, remote, request>>

GiveUpRetries ==
    /\ pc' = "scan"
    /\ failed' = failed \cup {file}
    /\ Drop
    /\ UNCHANGED <<content, file, remote, request>>

\* The file is given up, and the loop goes on with the next one.
GiveUp ==
    /\ pc' = "scan"
    /\ file' = file + 1
    /\ failed' = failed \cup {file}
    /\ Drop
    /\ UNCHANGED <<content, remote, request>>

SkipFile ==
    /\ pc = "scan"
    /\ file \in Files
    /\ ~match_ip(file)
    /\ file' = file + 1
    /\ UNCHANGED <<pc, content, disk, failed, remote, request>>

\* read_json, NBDConfig::from_json, the check of the url and GuestFS::new.
ReadConfig ==
    /\ pc = "scan"
    /\ file \in Files
    /\ match_ip(file)
    /\ IF content[file].kind = "nbd"
         THEN /\ pc' = "attach"
              /\ Create
              /\ UNCHANGED <<content, file, failed, remote, request>>
         ELSE GiveUp

\* The next call of the setup.
SetupCall ==
    /\ pc = "attach"
    /\ calls' = calls + 1
    /\ pc' = IF calls' = Len(SetupCalls) THEN "mount" ELSE "attach"
    /\ UNCHANGED <<content, file, appliance, mounted, failed, remote, request>>

SetupFails ==
    /\ pc = "attach"
    /\ GiveUp

Pending == Len(mounted) < Len(content[file].mounts)

\* Mutant: the partition is not looked up.
MountAny ==
    /\ pc = "mount" /\ Pending
    /\ mounted' = Append(mounted, content[file].mounts[Len(mounted) + 1])
    /\ UNCHANGED <<pc, content, file, appliance, calls, failed, remote, request>>

\* mount_suitable for the next entry; partitions count from 1, and 0 - 1, which
\* wraps around, is the index of none.
MountNext ==
    /\ pc = "mount" /\ Pending
    /\ LET partition == content[file].mounts[Len(mounted) + 1]
       IN  IF partition \in list_partitions
             THEN /\ mounted' = Append(mounted, partition)
                  /\ UNCHANGED <<pc, content, file, appliance, calls, failed, remote, request>>
             ELSE GiveUp

MountFails ==
    /\ pc = "mount" /\ Pending
    /\ content[file].mounts[Len(mounted) + 1] \in list_partitions
    /\ GiveUp

Connected ==
    /\ pc = "mount" /\ ~Pending
    /\ remote' = file
    /\ pc' = "serve"
    /\ UNCHANGED <<content, file, disk, failed, request>>

NoRemote ==
    /\ pc = "scan"
    /\ file \notin Files
    /\ pc' = "serve"
    /\ UNCHANGED <<content, file, disk, failed, remote, request>>
-----------------------------------------------------------------------------
(* schedule_task *)

\* Mutant: the remote disk before the peer's own directory.
RemoteFirst ==
    IF remote = 0 THEN <<"own", "default">> ELSE <<"remote", "own", "default">>

\* PeerHandler::new: available_roots
available_roots ==
    IF remote = 0 THEN <<"own", "default">> ELSE <<"own", "remote", "default">>

\* Root::open.  The appliance reports its errors as text: all but a missing
\* file are errors of another kind, a lack of permission included.
open(root, s) ==
    CASE s[root] = "file"    -> "Ok"
      [] s[root] = "missing" -> "NotFound"
      [] s[root] = "denied"  -> IF root = "remote" THEN "Other" ELSE "PermissionDenied"
      [] s[root] = "broken"  -> "Other"

\* The loop over the roots stops at the first one that has an answer.
Tried(s) ==
    LET roots == available_roots
        found == {i \in 1 .. Len(roots) : open(roots[i], s) # "NotFound"}
        first == roots[Min(found)]
    IN  IF found = {} THEN "file_not_found"
        ELSE CASE open(first, s) = "Ok"               -> first
               [] open(first, s) = "PermissionDenied" -> "access_violation"
               [] open(first, s) = "Other"            -> "Server Error"

\* A request; the roots may hold anything under its path.
schedule_task ==
    /\ pc = "serve"
    /\ state' \in [RootNames -> States]
    /\ answer' = Tried(state')
    /\ UNCHANGED <<pc, content, file, disk, failed, remote>>

Scan == SkipFile \/ ReadConfig \/ SetupCall \/ SetupFails \/ MountNext \/ MountFails
        \/ Connected \/ NoRemote

Next == Scan \/ schedule_task

\* The appliance answers, with success or an error.
Spec == Init /\ [][Next]_vars /\ WF_vars(Scan)
-----------------------------------------------------------------------------
(* Properties *)

\* A disk is served only from an appliance that was set up by every call, with
\* all mounts of the configuration in place and in order: a call or a mount
\* that fails drops the whole disk.
FullyMounted ==
    remote # 0 =>
        /\ content[remote].kind = "nbd"
        /\ calls = Len(SetupCalls)
        /\ mounted = content[remote].mounts

\* No appliance is left behind: one runs for the file being looked at or for
\* the disk that is served, whichever call made the others fail.
NoApplianceLeft ==
    /\ appliance \in {0, file}
    /\ pc = "scan" => appliance = 0
    /\ pc = "serve" => appliance = remote

\* The disk of another address is served only to a peer none of whose own
\* configurations could be used: match_ip takes the files of every address that
\* begins with the peer's, but the peer's own sort first, and the scan goes on
\* after one that fails.
OwnDiskFirst ==
    pc = "serve" =>
        \A f \in Files : Names[f] = Peer /\ f \notin failed => remote # 0 /\ Names[remote] = Peer

\* "The local file takes precedence": a request is answered from another root
\* than the peer's own directory only when that has nothing under the path, not
\* even a file that cannot be opened; and a file is called missing only when no
\* root of the peer has it.
LocalTakesPrecedence ==
    /\ answer \in {"remote", "default", "file_not_found"} => state["own"] = "missing"
    /\ answer = "file_not_found" =>
           state["default"] = "missing" /\ (remote # 0 => state["remote"] = "missing")

\* Whatever the files contain, the handler comes to serve requests.
ScanEnds == <>(pc = "serve")
=============================================================================
