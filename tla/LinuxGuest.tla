----------------------------- MODULE LinuxGuest -----------------------------
(***************************************************************************)
(* LinuxInspector (parsers/linux.rs): the ext partition whose superblock   *)
(* can be read, the largest first, its os-release, hostname and dpkg       *)
(* database, and the files by which integration tools are known.           *)
(*                                                                         *)
(* An ext volume is [osRelease, hostname, dpkg, toolFiles]: osRelease is   *)
(* the two files of that name, each a sequence of lines [name, text] and   *)
(* empty where the file is missing, dpkg the lines [key, value] of the     *)
(* status file, of which only Package, Status, Version and Section and     *)
(* blank ones count, toolFiles the kinds of tools that have a file.        *)
(***************************************************************************)
EXTENDS GuestAnalysis

\* A status file is a sequence of lines, and the name of a package a number.
IsLinuxVolume(v) ==
  /\ Len(v.dpkg) \in Nat /\ DOMAIN v.dpkg = 1 .. Len(v.dpkg)
  /\ \A i \in DOMAIN v.dpkg :
       /\ v.dpkg[i].key = "package" => v.dpkg[i].value \in Nat
       /\ v.dpkg[i].key = "status" => v.dpkg[i].value \in BOOLEAN

ASSUME LinuxAssumption ==
  \A d \in Disks : \A x \in DOMAIN d.fs :
    d.fs[x] \in ExtFs => x \in DOMAIN d.guest /\ IsLinuxVolume(d.guest[x])

VARIABLE
  stanza  \* the package whose lines are being read

NoStanza == [name |-> 0, version |-> "", section |-> "", installed |-> FALSE]

LinuxInit == stanza = NoStanza

-----------------------------------------------------------------------------
(* The volume and its small files. *)

\* SuperBlock::new for the next partition; the first that can be read is taken,
\* whatever it holds.
ReadSuperBlock ==
  /\ gpc = "superblock"
  /\ \/ /\ candidates = <<>>
        /\ gpc' = "done"
        /\ info' = IF System THEN [NoInfo EXCEPT !.name = "no_rootfs"] ELSE info
        /\ UNCHANGED <<candidates, volume, refused>>
     \/ /\ candidates # <<>>
        /\ Mount(/\ volume' = Head(candidates).start \div Sector
                 /\ gpc' = IF System THEN "os_release" ELSE "dpkg"
                 /\ UNCHANGED candidates,
                 candidates' = Tail(candidates) /\ UNCHANGED <<gpc, volume>>)
        /\ UNCHANGED info
  /\ UNCHANGED <<request, programs, warnings, scanVars, stanza>>

\* parse_os_release: PRETTY_NAME wins over NAME in any order, and the first
\* VERSION_ID is kept.
OsName(name, line) ==
  IF line.name = "PRETTY_NAME" \/ (line.name = "NAME" /\ name = "")
  THEN line.text ELSE name
OsVersion(version, line) ==
  IF line.name = "VERSION_ID" /\ version = "" THEN line.text ELSE version
ParseOsRelease(lines) ==
  [info EXCEPT !.name = FoldLeft(OsName, @, lines),
               !.build = FoldLeft(OsVersion, @, lines)]

NextPath == list' = list + 1 /\ UNCHANGED <<gpc, info>>

\* /etc/os-release, or else /usr/lib/os-release, or neither.
ReadOsRelease ==
  /\ gpc = "os_release"
  /\ \/ /\ list > Len(Contents.osRelease)
        /\ gpc' = "hostname" /\ UNCHANGED <<list, info, refused>>
     \/ /\ list <= Len(Contents.osRelease)
        /\ Access(\/ /\ Contents.osRelease[list] # <<>>
                     /\ info' = ParseOsRelease(Contents.osRelease[list])
                     /\ gpc' = "hostname" /\ UNCHANGED list
                  \/ Contents.osRelease[list] = <<>> /\ NextPath,
                  NextPath)
  /\ UNCHANGED <<request, candidates, volume, programs, warnings, cursor, stanza>>

ReadHostname ==
  /\ gpc = "hostname" /\ gpc' = "dpkg"
  /\ Access(info' = [info EXCEPT !.edition = Contents.hostname], UNCHANGED info)
  /\ UNCHANGED <<request, candidates, volume, programs, warnings, scanVars, stanza>>

-----------------------------------------------------------------------------
(* The packages. *)

ToToolFiles ==
  gpc' = (IF System /\ info'.tools = NoTools THEN "tool_files" ELSE "sort")
    /\ list' = 1 /\ UNCHANGED cursor

ReadDpkg ==
  /\ gpc = "dpkg"
  /\ Access(\/ /\ Contents.dpkg # <<>>
               /\ gpc' = "lines" /\ UNCHANGED <<scanVars, info>>
            \/ Contents.dpkg = <<>> /\ UNCHANGED info /\ ToToolFiles,
            UNCHANGED info /\ ToToolFiles)
  /\ UNCHANGED <<request, candidates, volume, programs, warnings, stanza>>

\* process_package: only what is installed is a program or a tool.
ProcessPackage ==
  LET counts == stanza.installed /\ stanza.name # 0 IN
  /\ programs' = IF counts /\ Apps
                 THEN Append(programs,
                        [name |-> stanza.name, version |-> stanza.version,
                         publisher |-> stanza.section, source |-> "dpkg"])
                 ELSE programs
  /\ info' = IF /\ counts /\ System /\ info.tools = NoTools
                /\ stanza.name \in DOMAIN ToolNames
             THEN [info EXCEPT !.tools = [kind |-> ToolNames[stanza.name],
                                          version |-> stanza.version]]
             ELSE info

\* Mutant of WithLine: a blank line leaves the status as it is.
WithLineKeepingStatus(line) ==
  CASE line.key = "package" -> [stanza EXCEPT !.name = line.value]
    [] line.key = "status"  -> [stanza EXCEPT !.installed = line.value]
    [] line.key = "version" -> [stanza EXCEPT !.version = line.value]
    [] line.key = "section" -> [stanza EXCEPT !.section = line.value]
    [] line.key = "blank"   -> [NoStanza EXCEPT !.installed = stanza.installed]
    [] OTHER                -> stanza

\* What a line makes of the stanza; a blank one ends it.
WithLine(line) ==
  CASE line.key = "package" -> [stanza EXCEPT !.name = line.value]
    [] line.key = "status"  -> [stanza EXCEPT !.installed = line.value]
    [] line.key = "version" -> [stanza EXCEPT !.version = line.value]
    [] line.key = "section" -> [stanza EXCEPT !.section = line.value]
    [] line.key = "blank"   -> NoStanza
    [] OTHER                -> stanza

\* The package without a blank line behind it, or cut short by a stop.
LastPackage == ProcessPackage /\ ToToolFiles /\ stanza' = NoStanza

\* One line of parse_dpkg_status.
ParseDpkgStatus ==
  /\ gpc = "lines"
  /\ \/ cursor > Len(Contents.dpkg) /\ LastPackage /\ UNCHANGED refused
     \/ /\ cursor <= Len(Contents.dpkg)
        /\ LET line == Contents.dpkg[cursor] IN
           Scan(LastPackage,
                /\ stanza' = WithLine(line)
                /\ \/ line.key = "blank" /\ ProcessPackage
                   \/ line.key # "blank" /\ UNCHANGED <<programs, info>>
                /\ cursor' = cursor + 1 /\ UNCHANGED <<gpc, list>>)
  /\ UNCHANGED <<request, candidates, volume, warnings>>

\* detect_guest_tools_linux_files: the paths of one kind; a path that cannot be
\* resolved is as one that does not exist.
DetectToolFiles ==
  /\ gpc = "tool_files"
  /\ \/ /\ list > Len(Kinds)
        /\ gpc' = "sort" /\ UNCHANGED <<list, info, refused>>
     \/ /\ list <= Len(Kinds)
        /\ Access(\/ /\ Kinds[list] \in Contents.toolFiles
                     /\ info' = [info EXCEPT !.tools = [kind |-> Kinds[list],
                                                        version |-> ""]]
                     /\ gpc' = "sort" /\ UNCHANGED list
                  \/ Kinds[list] \notin Contents.toolFiles /\ NextPath,
                  NextPath)
  /\ UNCHANGED <<request, candidates, volume, programs, warnings, cursor, stanza>>

SortPackages ==
  /\ gpc = "sort" /\ gpc' = "done"
  /\ programs' = IF Apps THEN SortedPrograms(programs) ELSE programs
  /\ UNCHANGED <<request, candidates, volume, info, warnings, scanVars, stanza,
                 refused>>

-----------------------------------------------------------------------------

LinuxStep ==
  \/ ReadSuperBlock \/ ReadOsRelease \/ ReadHostname
  \/ ReadDpkg \/ ParseDpkgStatus \/ DetectToolFiles \/ SortPackages

-----------------------------------------------------------------------------
(* The stanzas of the status file, as a reference. *)

\* First and last lines of the runs between blank lines.
Runs ==
  LET blank(i) == Contents.dpkg[i].key = "blank" IN
  {r \in (DOMAIN Contents.dpkg) \X (DOMAIN Contents.dpkg) :
     /\ \A i \in r[1] .. r[2] : ~blank(i)
     /\ r[1] <= r[2]
     /\ r[1] = 1 \/ blank(r[1] - 1)
     /\ r[2] = Len(Contents.dpkg) \/ blank(r[2] + 1)}

\* The last line of a kind in a run, or what stands for none.
LineOf(r, key, none) ==
  LET at == {i \in r[1] .. r[2] : Contents.dpkg[i].key = key}
  IN IF at = {} THEN none ELSE Contents.dpkg[Max(at)].value

Installed ==
  {[name |-> LineOf(r, "package", 0), version |-> LineOf(r, "version", ""),
    publisher |-> LineOf(r, "section", ""), source |-> "dpkg"] :
     r \in {x \in Runs : LineOf(x, "status", FALSE) /\ LineOf(x, "package", 0) # 0}}

\* The Linux analyser never warns, so what it reports must be all or nothing: a
\* list of programs that is not empty is exactly the installed packages of the
\* chosen volume, each with the version and the section of its own stanza, and
\* tools with a version are one of them.
PackagesExact ==
  gpc = "done" /\ os = "linux" /\ ~refused =>
    /\ programs # <<>> => Apps /\ ListsExactly(Installed)
    /\ info.tools.version # "" =>
         \E p \in Installed : /\ p.name \in DOMAIN ToolNames
                             /\ ToolNames[p.name] = info.tools.kind
                             /\ p.version = info.tools.version
=============================================================================
