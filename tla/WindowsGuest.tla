---------------------------- MODULE WindowsGuest ----------------------------
(***************************************************************************)
(* WindowsInspector (parsers/windows.rs): the system volume is looked for, *)
(* the SOFTWARE and SYSTEM hives are read from it, parsed in memory, and   *)
(* when SOFTWARE cannot be parsed the file system is searched instead.     *)
(*                                                                         *)
(* An NTFS volume is [config, software, system, kernel, license, folders]: *)
(* config says that Windows\System32\config exists, kernel that            *)
(* ntoskrnl.exe has a PE header, folders are the entries [name, dir, dos]  *)
(* of the two Program Files directories.  A hive is [state, values, tools, *)
(* products, uninstall, services]: state is how nt_hive takes it (clean,   *)
(* dirty: only without validation, broken: not at all, poisoned: it        *)
(* panics), values are those of Windows NT\CurrentVersion in their order,  *)
(* tools and services kind -> version of the integration tools with keys   *)
(* of their own (services in the first control set that has any), products *)
(* and the two lists of uninstall are subkeys, each value name -> text,    *)
(* without the values that convert to no text and the cells that are       *)
(* damaged (both are passed over silently).                                *)
(***************************************************************************)
EXTENDS GuestAnalysis

CONSTANTS
  KernelDays  \* days since 1970 that the PE header of a kernel may carry

\* A hive's values and keys come in sequences, and the name of a program is a number.
IsList(s) == s \in Seq(ToSet(s))
IsKeys(s) ==
  /\ IsList(s)
  /\ \A k \in ToSet(s) : "DisplayName" \in DOMAIN k => k.DisplayName \in Nat
IsHive(h) ==
  /\ IsList(h.values) /\ IsKeys(h.products)
  /\ IsKeys(h.uninstall[1]) /\ IsKeys(h.uninstall[2])
  /\ DOMAIN h.tools \subseteq ToSet(Kinds)
  /\ DOMAIN h.services \subseteq ToSet(Kinds)

NoHive == [state |-> "missing"]

ASSUME WindowsAssumption ==
  /\ KernelDays \subseteq Nat
  /\ \A n \in DOMAIN ToolNames : ToolNames[n] \in ToSet(Kinds)
  /\ \A d \in Disks : \A x \in DOMAIN d.fs :
       d.fs[x] = "ntfs" =>
         /\ x \in DOMAIN d.guest
         /\ \A h \in {d.guest[x].software, d.guest[x].system} : h = NoHive \/ IsHive(h)

VARIABLES
  software,  \* Hives::software
  system,    \* Hives::system
  fallback,  \* requires_fs_fallback
  seen       \* names taken from the directory being scanned

hiveVars == <<software, system, fallback, seen>>

WindowsInit ==
  software = NoHive /\ system = NoHive /\ fallback = FALSE /\ seen = {}

Warn(about) == warnings' = warnings \cup about

\* degraded_result
Degraded(about) ==
  /\ gpc' = "done"
  /\ info' = [NoInfo EXCEPT !.name = "dirty"]
  /\ programs' = <<>> /\ warnings' = {about}

-----------------------------------------------------------------------------
(* Extraction from the file system. *)

IsSystemPartition(at) == disk.guest[at].config

\* The next NTFS partition is looked at.
FindSystem ==
  /\ gpc = "find_system"
  /\ \/ /\ candidates = <<>>
        /\ Degraded("no_system_volume")
        /\ UNCHANGED <<candidates, volume, refused>>
     \/ /\ candidates # <<>>
        /\ LET at == Head(candidates).start \div Sector IN
           Mount(IF IsSystemPartition(at)
                 THEN gpc' = "extract" /\ volume' = at /\ UNCHANGED candidates
                 ELSE candidates' = Tail(candidates) /\ UNCHANGED <<gpc, volume>>,
                 candidates' = Tail(candidates) /\ UNCHANGED <<gpc, volume>>)
        /\ UNCHANGED resultVars
  /\ UNCHANGED <<request, scanVars, hiveVars>>

\* extract_ntfs_hives up to SOFTWARE, on a view of its own.  The search for the
\* .LOG files behind it only changes the wording of a warning.
ExtractSoftware ==
  /\ gpc = "extract"
  /\ Mount(\/ /\ Contents.software # NoHive
              /\ software' = Contents.software
              /\ gpc' = IF request.includeSystem /\ System THEN "read_system"
                                                           ELSE "open_software"
              /\ UNCHANGED resultVars
           \/ /\ Contents.software = NoHive
              /\ Degraded("not_extracted") /\ UNCHANGED software,
           Degraded("not_extracted") /\ UNCHANGED software)
  /\ UNCHANGED <<request, candidates, volume, scanVars, system, fallback, seen>>

\* SYSTEM: a hive that is not there is not told, one that cannot be read is.
ReadSystem ==
  /\ gpc = "read_system" /\ gpc' = "open_software"
  /\ Access(system' = Contents.system /\ UNCHANGED warnings,
            Warn({"system_unread"}) /\ UNCHANGED system)
  /\ UNCHANGED <<request, candidates, volume, info, programs, scanVars, software,
                 fallback, seen>>

-----------------------------------------------------------------------------
(* The hives, in memory. *)

\* read_value_from_key with convert_value_to_string
Value(key, field) == IF field \in DOMAIN key THEN key[field] ELSE ""

\* The first text among the values of these names, or ""; no two values of a key
\* have the same name.
FirstText(values, fields) ==
  LET at == SelectInSeq(values, LAMBDA v : v.name \in fields /\ v.text # "")
  IN IF at = 0 THEN "" ELSE values[at].text

\* classify_guest_tools_key, and over subkeys in their order
NamesTools(k) == "DisplayName" \in DOMAIN k /\ k.DisplayName \in DOMAIN ToolNames
ClassifyKeys(keys) ==
  LET at == SelectInSeq(keys, NamesTools)
  IN IF at = 0 THEN NoTools
     ELSE [kind |-> ToolNames[keys[at].DisplayName],
           version |-> Value(keys[at], "DisplayVersion")]

\* The first kind with a key of its own.
ToolKey(keys) ==
  LET at == SelectInSeq(Kinds, LAMBDA k : k \in DOMAIN keys)
  IN IF at = 0 THEN NoTools ELSE [kind |-> Kinds[at], version |-> keys[Kinds[at]]]

FirstTools(found) ==
  LET at == SelectInSeq(found, LAMBDA t : t # NoTools)
  IN IF at = 0 THEN NoTools ELSE found[at]

\* extract_guest_tools_software: keys of their own, installer, uninstall.
SoftwareTools(hive) ==
  FirstTools(<<ToolKey(hive.tools), ClassifyKeys(hive.products),
               ClassifyKeys(hive.uninstall[1]), ClassifyKeys(hive.uninstall[2])>>)

\* extract_guest_info; the service pack is as the product name and left out.
ExtractGuestInfo(hive) ==
  LET product == FirstText(hive.values, {"ProductName"}) IN
  [name    |-> IF product = "" THEN "unknown_edition" ELSE product,
   edition |-> FirstText(hive.values, {"DisplayVersion", "ReleaseId"}),
   build   |-> FirstText(hive.values, {"CurrentBuild", "CurrentBuildNumber"}),
   tools   |-> SoftwareTools(hive)]

\* open_hive_with_recovery: without validation when the header is dirty.
Opens(hive)     == hive.state \in {"clean", "dirty"}
Notice(hive, w) == IF hive.state = "dirty" THEN {w} ELSE {}

\* Mutant of OpenSoftware: recovery without validation is not told.
OpenSoftwareQuietly ==
  /\ gpc = "open_software"
  /\ \/ /\ Opens(software)
        /\ info' = IF System THEN ExtractGuestInfo(software) ELSE NoInfo
        /\ gpc' = IF Apps THEN "uninstall" ELSE "system"
        /\ UNCHANGED <<warnings, fallback>>
     \/ /\ ~Opens(software)
        /\ info' = [NoInfo EXCEPT !.name = "dirty"]
        /\ Warn({"software_lost"}) /\ fallback' = TRUE
        /\ gpc' = "system"
  /\ UNCHANGED <<request, candidates, volume, programs, scanVars, software,
                 system, seen, refused>>

\* try_analyze_software up to the programs, under catch_unwind.
OpenSoftware ==
  /\ gpc = "open_software"
  /\ \/ /\ Opens(software)
        /\ info' = IF System THEN ExtractGuestInfo(software) ELSE NoInfo
        /\ Warn(Notice(software, "software_recovered"))
        /\ gpc' = IF Apps THEN "uninstall" ELSE "system"
        /\ UNCHANGED fallback
     \/ /\ ~Opens(software)
        /\ info' = [NoInfo EXCEPT !.name = "dirty"]
        /\ Warn({"software_lost"}) /\ fallback' = TRUE
        /\ gpc' = "system"
  /\ UNCHANGED <<request, candidates, volume, programs, scanVars, software,
                 system, seen, refused>>

ProgramsOf(key) ==
  IF "DisplayName" \notin DOMAIN key THEN <<>>
  ELSE <<[name |-> key.DisplayName, version |-> Value(key, "DisplayVersion"),
          publisher |-> Value(key, "Publisher"), source |-> "registry"]>>

NextList == list' = list + 1 /\ cursor' = 1

\* search_programs_in_registry: one subkey of the two trees, and the order at
\* the end.  A stop ends the tree it meets only.
SearchPrograms ==
  /\ gpc = "uninstall"
  /\ \/ /\ list > 2
        /\ programs' = SortedPrograms(programs)
        /\ gpc' = "system" /\ UNCHANGED <<scanVars, refused>>
     \/ /\ list <= 2 /\ cursor > Len(software.uninstall[list])
        /\ NextList /\ UNCHANGED <<gpc, programs, refused>>
     \/ /\ list <= 2 /\ cursor <= Len(software.uninstall[list])
        /\ Scan(NextList /\ UNCHANGED programs,
                /\ programs' = programs
                                 \o ProgramsOf(software.uninstall[list][cursor])
                /\ cursor' = cursor + 1 /\ UNCHANGED list)
        /\ UNCHANGED gpc
  /\ UNCHANGED <<request, candidates, volume, info, warnings, hiveVars>>

\* The SYSTEM hive, for the tools that SOFTWARE did not name.
AnalyzeSystem ==
  /\ gpc = "system" /\ gpc' = IF fallback THEN "remount" ELSE "done"
  /\ \/ /\ System /\ info.tools = NoTools /\ Opens(system)
        /\ info' = [info EXCEPT !.tools = ToolKey(system.services)]
        /\ Warn(Notice(system, "system_recovered"))
     \/ /\ System /\ info.tools = NoTools
        /\ system # NoHive /\ ~Opens(system)
        /\ Warn({"system_lost"}) /\ UNCHANGED info
     \/ /\ ~System \/ info.tools # NoTools \/ system = NoHive
        /\ UNCHANGED <<info, warnings>>
  /\ list' = 1 /\ cursor' = 1
  /\ UNCHANGED <<request, candidates, volume, programs, hiveVars, refused>>

-----------------------------------------------------------------------------
(* The fallback to the file system. *)

\* apply_fs_fallback on one more view of the volume.
Remount ==
  /\ gpc = "remount"
  /\ Mount(gpc' = (IF System THEN "kernel" ELSE "folders") /\ UNCHANGED warnings,
           gpc' = "done" /\ Warn({"not_remounted"}))
  /\ UNCHANGED <<request, candidates, volume, info, programs, scanVars, hiveVars>>

ToFolders == gpc' = IF Apps THEN "folders" ELSE "done"

\* The whole of guest_info is replaced, tools that SYSTEM named included.
Approximate(how, date) ==
  /\ info' = [NoInfo EXCEPT !.name = how, !.build = date]
  /\ Warn({how}) /\ ToFolders

\* civil_from_days: days since 1970 to year, month and day.
CivilFromDays(days) ==
  LET z == days + 719468
      era == z \div 146097
      doe == z - era * 146097
      yoe == (doe - doe \div 1460 + doe \div 36524 - doe \div 146096) \div 365
      doy == doe - (365 * yoe + yoe \div 4 - yoe \div 100)
      mp  == (5 * doy + 2) \div 153
      m   == IF mp < 10 THEN mp + 3 ELSE mp - 9
  IN <<yoe + era * 400 + (IF m <= 2 THEN 1 ELSE 0), m,
       doy - (153 * mp + 2) \div 5 + 1>>

\* extract_pe_timestamp, on the first 8 KiB of ntoskrnl.exe
PeTimestamps == IF Contents.kernel THEN KernelDays ELSE {}

\* detect_os_from_binaries: the PE timestamp of the kernel...
ReadKernel ==
  /\ gpc = "kernel"
  /\ Access(\/ \E day \in PeTimestamps :
                 Approximate("approximate", CivilFromDays(day))
            \/ PeTimestamps = {} /\ gpc' = "license" /\ UNCHANGED resultVars,
            gpc' = "license" /\ UNCHANGED resultVars)
  /\ UNCHANGED <<request, candidates, volume, programs, scanVars, hiveVars>>

\* ... or that license.rtf is there, or a warning that neither is.
CheckLicense ==
  /\ gpc = "license"
  /\ Access(\/ Contents.license /\ Approximate("license", "")
            \/ /\ ~Contents.license /\ Warn({"undetermined"}) /\ ToFolders
               /\ UNCHANGED info,
            Warn({"undetermined"}) /\ ToFolders /\ UNCHANGED info)
  /\ UNCHANGED <<request, candidates, volume, programs, scanVars, hiveVars>>

EndOfFolders ==
  /\ gpc' = "done"
  /\ Warn(IF programs = <<>> THEN {} ELSE {"from_folders"})

\* The next of the two directories: a stop here leaves both.
NextFolder ==
  /\ gpc = "folders"
  /\ \/ list > 2 /\ EndOfFolders /\ UNCHANGED refused
     \/ list <= 2 /\ Scan(EndOfFolders, gpc' = "folder" /\ UNCHANGED warnings)
  /\ UNCHANGED <<request, candidates, volume, info, programs, scanVars, hiveVars>>

OpenFolder ==
  /\ gpc = "folder"
  /\ Access(gpc' = "entries" /\ seen' = {} /\ UNCHANGED scanVars,
            gpc' = "folders" /\ NextList /\ UNCHANGED seen)
  /\ UNCHANGED <<request, candidates, volume, resultVars, software, system,
                 fallback>>

LeaveFolder == gpc' = "folders" /\ NextList /\ UNCHANGED <<programs, seen>>
SkipEntry == cursor' = cursor + 1 /\ UNCHANGED <<gpc, list, programs, seen>>
TakeEntry(e) ==
  /\ e.dir /\ ~e.dos /\ e.name \notin seen
  /\ programs' = Append(programs, [name |-> e.name, version |-> "",
                                   publisher |-> "", source |-> "folder"])
  /\ seen' = seen \cup {e.name}
  /\ cursor' = cursor + 1 /\ UNCHANGED <<gpc, list>>

\* scan_folders_as_programs: directories under their long name, each name once;
\* an entry that cannot be read is passed over as the others are.
ScanFolder ==
  /\ gpc = "entries"
  /\ Scan(LeaveFolder,
          \/ cursor > Len(Contents.folders[list]) /\ LeaveFolder
          \/ /\ cursor <= Len(Contents.folders[list])
             /\ SkipEntry \/ TakeEntry(Contents.folders[list][cursor]))
  /\ UNCHANGED <<request, candidates, volume, info, warnings, software, system,
                 fallback>>

-----------------------------------------------------------------------------

WindowsStep ==
  \/ FindSystem \/ ExtractSoftware \/ ReadSystem
  \/ OpenSoftware \/ SearchPrograms \/ AnalyzeSystem
  \/ Remount \/ ReadKernel \/ CheckLicense
  \/ NextFolder \/ OpenFolder \/ ScanFolder

-----------------------------------------------------------------------------
(* What the volume holds, as a reference. *)

KeysOf(hive)  == ToSet(hive.uninstall[1]) \cup ToSet(hive.uninstall[2])
EntriesOf(hive) == UNION {ToSet(ProgramsOf(k)) : k \in KeysOf(hive)}

\* The kinds of integration tools that a hive gives evidence of.
Evidence(hive) ==
  DOMAIN hive.tools
    \cup {ToolNames[k.DisplayName] :
             k \in {x \in KeysOf(hive) \cup ToSet(hive.products) : NamesTools(x)}}

\* The texts of a field; one that is empty is as none.
TextsOf(hive, field) ==
  {v.text : v \in {x \in ToSet(hive.values) : x.name = field /\ x.text # ""}}

InfoHeld ==
  LET own   == Evidence(software)
      other == IF system = NoHive THEN {} ELSE DOMAIN system.services
      names == TextsOf(software, "ProductName")
  IN /\ info.name \in IF names = {} THEN {"unknown_edition"} ELSE names
     /\ own # {} => info.tools.kind \in own
     /\ own = {} => IF other = {} THEN info.tools = NoTools
                                  ELSE info.tools.kind \in other

\* The number of a day, counted year by year.
Leap(y) == y % 4 = 0 /\ (y % 100 # 0 \/ y % 400 = 0)
DayNumber(date) ==
  LET y == date[1]
      before == <<0, 31, 59, 90, 120, 151, 181, 212, 243, 273, 304, 334>>
  IN 365 * (y - 1970) + Cardinality({x \in 1970 .. y - 1 : Leap(x)})
       + before[date[2]] + (IF Leap(y) /\ date[2] > 2 THEN 1 ELSE 0) + date[3] - 1

\* An analysis of Windows that nobody cancelled tells what it could not read.
\* Without a warning both hives were intact (SYSTEM as far as it was needed) and
\* the report is what they hold.  A SOFTWARE hive that opened, by recovery too,
\* gives exactly its programs; one that did not gives none of the registry's:
\* what is reported then comes from folders, says so, and carries a date that is
\* the kernel's.
RegistryExact ==
  gpc = "done" /\ os = "windows" /\ (System \/ Apps) /\ ~refused =>
    /\ warnings = {} =>
         /\ software.state = "clean"
         /\ System => InfoHeld
         /\ System /\ Evidence(software) = {} => system.state \in {"clean", "missing"}
    /\ Opens(software) => ListsExactly(IF Apps THEN EntriesOf(software) ELSE {})
    /\ ~Opens(software) =>
         /\ \A p \in ToSet(programs) : p.source = "folder"
         /\ programs # <<>> <=> "from_folders" \in warnings
         /\ info.name = "approximate" => DayNumber(info.build) \in KernelDays
=============================================================================
