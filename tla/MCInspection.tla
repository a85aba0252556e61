---------------------------- MODULE MCInspection ----------------------------
(* The disks an inspection meets and what their guests hold.  MaxEbr is 3, a *)
(* sector has 2 bytes and an offset is taken modulo 64.                      *)
EXTENDS Inspection

Empty == [kind |-> "empty", lba |-> 0, sectors |-> 0]
Data(at, n)     == [kind |-> "data", lba |-> at, sectors |-> n]
Extend(at, n)   == [kind |-> "extended", lba |-> at, sectors |-> n]
Record(r, n, x) == [kind |-> "data", rel |-> r, sectors |-> n, next |-> x]
Entry(a, b)     == [used |-> TRUE, first |-> a, last |-> b]
NoTable         == <<Empty, Empty, Empty, Empty>>

Blank == [gpt |-> FALSE, valid |-> TRUE, table |-> <<>>, boot |-> FALSE,
          mbr |-> NoTable, ebr |-> <<>>, fs |-> <<>>, size |-> 30,
          guest |-> <<>>]

-----------------------------------------------------------------------------
(* Guests.  Program 3 is VMware Tools, 4 the QEMU agent. *)

MCToolNames == (3 :> "vmware") @@ (4 :> "qemu")
Key(name, version, by) ==
  [DisplayName |-> name, DisplayVersion |-> version, Publisher |-> by]
Text(name, text) == [name |-> name, text |-> text]

\* The same program in both trees, with another version between, a key without
\* a name and one without a version.
Clean == [state |-> "clean",
  values |-> <<Text("ReleaseId", "2009"), Text("ProductName", "w10"),
               Text("DisplayVersion", "22H2"), Text("CurrentBuild", "19045")>>,
  tools |-> <<>>, products |-> <<>>, services |-> <<>>,
  uninstall |-> << <<Key(2, "v1", "a"), [Publisher |-> "b"], Key(1, "v1", "a")>>,
                   <<Key(2, "v2", "a"), [DisplayName |-> 4], Key(2, "v1", "c")>> >>]
Dirty    == [Clean EXCEPT !.state = "dirty", !.values = <<>>,
             !.uninstall = << <<Key(1, "v1", "a")>>, <<Key(1, "v1", "b")>> >>]
Broken   == [Clean EXCEPT !.state = "broken"]
Poisoned == [Clean EXCEPT !.state = "poisoned"]
Services == [Dirty EXCEPT !.services = ("hyper-v" :> "10") @@ ("qemu" :> "5")]

Windows == [config |-> TRUE, software |-> Clean, system |-> Broken,
            kernel |-> FALSE, license |-> FALSE, folders |-> << <<>>, <<>> >>]
NoWindows == [Windows EXCEPT !.config = FALSE]
Folder(n) == [name |-> n, dir |-> TRUE, dos |-> FALSE]
MCKernelDays == {0, 10956, 11016, 19782, 47541}

\* Two volumes of NTFS, of which the second is the system's.
TwoNtfs == [Blank EXCEPT !.gpt = TRUE, !.boot = TRUE,
  !.table = <<Entry(2, 5), Entry(6, 12)>>, !.fs = (2 :> "ntfs") @@ (6 :> "ntfs"),
  !.guest = (2 :> NoWindows) @@ (6 :> Windows)]
Ntfs(guest) == [Blank EXCEPT !.fs = (0 :> "ntfs"), !.guest = (0 :> guest)]
WindowsDisks ==
  {TwoNtfs,
   Ntfs([Windows EXCEPT !.software = Dirty, !.system = Services]),
   Ntfs([Windows EXCEPT !.software = [Dirty EXCEPT !.state = "clean",
                                         !.products = <<Key(3, "12", "v")>>]]),
   Ntfs([Windows EXCEPT !.software = [Dirty EXCEPT !.state = "clean"],
                        !.system = NoHive]),
   Ntfs([Windows EXCEPT !.software = NoHive]),
   Ntfs([Windows EXCEPT !.software = Broken, !.system = Services, !.kernel = TRUE,
           !.folders = << <<Folder(2), [Folder(7) EXCEPT !.dos = TRUE], Folder(2)>>,
                          <<Folder(2), [Folder(1) EXCEPT !.dir = FALSE]>> >>]),
   Ntfs([Windows EXCEPT !.software = Poisoned, !.license = TRUE])}

Line(key, value) == [key |-> key, value |-> value]
Blanks == Line("blank", 0)
Linux == [osRelease |-> << <<Text("NAME", "d"), Text("VERSION_ID", "12"),
                             Text("PRETTY_NAME", "d12")>>, <<Text("NAME", "u")>> >>,
          hostname |-> "h", toolFiles |-> {"virtualbox", "qemu"},
          dpkg |-> <<Line("package", 4), Line("status", TRUE), Line("version", "8"),
                     Line("section", "admin"), Blanks,
                     Line("package", 3), Line("version", "9"), Blanks, Blanks,
                     Line("status", TRUE), Line("package", 1)>>]
Home == [Linux EXCEPT !.osRelease = << <<>>, <<>> >>, !.hostname = "", !.dpkg = <<>>]
LinuxDisks ==
  {[Blank EXCEPT !.fs = (0 :> "ext4"), !.guest = (0 :> Linux)],
   [TwoNtfs EXCEPT !.fs = (2 :> "ext4") @@ (6 :> "ext2"),
                   !.guest = (2 :> Linux) @@ (6 :> Home)]}

-----------------------------------------------------------------------------
(* Tables. *)

Volume     == [Blank EXCEPT !.fs = (0 :> "btrfs")]
BootVolume == [Blank EXCEPT !.boot = TRUE, !.fs = (0 :> "fat")]
NoVolume   == [Blank EXCEPT !.boot = TRUE]

\* A chain of exactly MaxEbr records, an empty one among them, behind an entry
\* without sectors, and an extended partition that holds nothing.
Chain == [Blank EXCEPT !.boot = TRUE,
  !.mbr = <<Data(1, 0), Extend(10, 9), Data(2, 3), Extend(25, 2)>>,
  !.ebr = (10 :> Record(1, 2, 4)) @@ (14 :> Record(1, 0, 6))
            @@ (16 :> Record(1, 2, 0)),
  !.fs = (2 :> "ntfs") @@ (11 :> "ext4") @@ (17 :> "swap"),
  !.guest = (2 :> NoWindows) @@ (11 :> Home)]

\* A chain that is longer than MaxEbr, and one that runs in a circle.
Crooked == [Blank EXCEPT !.boot = TRUE,
  !.mbr = <<Extend(4, 9), Extend(20, 9), Empty, Data(28, 2)>>,
  !.ebr = (4 :> Record(1, 1, 2)) @@ (6 :> Record(1, 1, 4)) @@ (8 :> Record(1, 1, 6))
            @@ (10 :> Record(1, 1, 0)) @@ (20 :> Record(1, 1, 2))
            @@ (22 :> Record(1, 1, 2)),
  !.fs = (5 :> "xfs") @@ (23 :> "ext3"),
  !.guest = (23 :> Home)]

\* Entries that are unused, reversed, beyond the disk and beyond 2^64 bytes.
Gpt == [Blank EXCEPT !.gpt = TRUE, !.boot = TRUE,
  !.table = <<Entry(2, 5), [Entry(6, 7) EXCEPT !.used = FALSE], Entry(9, 8),
              Entry(29, 31), Entry(34, 35)>>,
  !.fs = (2 :> "lvm2")]
BadGpt == [Gpt EXCEPT !.valid = FALSE]

MCDisks == {Volume, BootVolume, NoVolume, Chain, Crooked, Gpt, BadGpt}
             \cup WindowsDisks \cup LinuxDisks

Ask(nbd, noApps, noSystem, include) ==
  [forceNbd |-> nbd, noApps |-> noApps, noSystem |-> noSystem,
   includeSystem |-> include]
MCRequests == {Ask(FALSE, FALSE, FALSE, TRUE), Ask(TRUE, FALSE, FALSE, FALSE),
               Ask(FALSE, FALSE, TRUE, TRUE)}
=============================================================================
