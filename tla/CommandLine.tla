---------------------------- MODULE CommandLine -----------------------------
(***************************************************************************)
(* The vmspect command (bin/vmspect.rs): its arguments are parsed one by   *)
(* one, a file is inspected, a directory is walked (module Discovery) and  *)
(* its images are inspected as a batch, and the answer is printed as JSON  *)
(* or for a reader.                                                        *)
(*                                                                         *)
(* inspect_batch appears by what it promises (module BatchEngine proves    *)
(* and checks it): without a cancellation every image has a report or an   *)
(* error, save those whose inspection panicked and those that are left in  *)
(* the queue when every worker died so.  Nothing cancels the command.      *)
(*                                                                         *)
(* An argument is a record [text, number, kind, exclusion]: number is what *)
(* it parses to or None, kind is what is at the path it names, and         *)
(* exclusion what it means behind --exclude.                               *)
(***************************************************************************)
EXTENDS Discovery, EngineOps

CONSTANTS
  CommandLines,  \* the sequences of arguments the command is called with
  MaxPool        \* the largest pool of inspect_batch (32)

Arguments == UNION {{line[i] : i \in DOMAIN line} : line \in CommandLines}

ASSUME CommandAssumption ==
  /\ CommandLines \subseteq Seq(Arguments)
  /\ \A arg \in Arguments : arg.number \in Nat \cup {None}
  /\ MaxPool \in Nat \ {0}

VARIABLES
  stage,     \* where the command stands
  args,      \* arguments that are still to be parsed
  config,    \* CliConfig
  reports,   \* images with a report
  failures,  \* images with an error
  panicked,  \* images whose inspection panicked
  told,      \* images that the output names
  warned,    \* unreadable directories that the output names
  exit       \* exit status, or None while the command runs

outputVars == <<told, warned>>
batchVars  == <<reports, failures, panicked>>
commandVars == <<discoveryVars, stage, args, config, batchVars, outputVars, exit>>

Flags == [json |-> "--json", concurrent |-> "--concurrent",
          recursive |-> "--recursive", full |-> "--full-report",
          quiet |-> "--quiet-discovery"]
Silent == {"--force-nbd", "--no-apps", "--no-system", "--include-system"}
Valued == {"--exclude", "--max-depth", "--workers"}

NoTarget == [kind |-> "none"]

CommandInit ==
  /\ DiscoveryInit
  /\ stage = "parse" /\ args \in CommandLines
  /\ config = [json |-> FALSE, concurrent |-> FALSE, recursive |-> FALSE,
               full |-> FALSE, quiet |-> FALSE, workers |-> None,
               maxDepth |-> None, excluded |-> {}, target |-> NoTarget]
  /\ reports = {} /\ failures = {} /\ panicked = {}
  /\ told = {} /\ warned = {} /\ exit = None

Exit(status) == stage' = "exit" /\ exit' = status
To(next)     == stage' = next /\ UNCHANGED exit

-----------------------------------------------------------------------------
(* parse_args_from.  Errors, --help and --version end it where they stand. *)

Parse(n) == args' = SubSeq(args, n + 1, Len(args)) /\ UNCHANGED <<stage, exit>>

\* Options without a value; those in Silent go to the Options of the inspections,
\* which are not told apart here.
ParseFlag ==
  /\ stage = "parse" /\ args # <<>>
  /\ \/ /\ \E f \in DOMAIN Flags :
             args[1].text = Flags[f] /\ config' = [config EXCEPT ![f] = TRUE]
        /\ Parse(1)
     \/ args[1].text \in Silent /\ Parse(1) /\ UNCHANGED config
     \/ /\ args[1].text \in {"--help", "--version"}
        /\ Exit(0) /\ UNCHANGED <<args, config>>
  /\ UNCHANGED <<discoveryVars, batchVars, outputVars>>

\* A number of workers is given behind the option or in it.
SetWorkers(n, used) ==
  \/ /\ n # None /\ n # 0
     /\ config' = [config EXCEPT !.workers = n] /\ Parse(used)
  \/ /\ n = None \/ n = 0
     /\ Exit(1) /\ UNCHANGED <<args, config>>

\* Options that take the next argument, whatever that is.
ParseValue ==
  /\ stage = "parse" /\ args # <<>>
  /\ \/ /\ args[1].text \in Valued /\ Len(args) = 1
        /\ Exit(1) /\ UNCHANGED <<args, config>>
     \/ /\ args[1].text = "--exclude" /\ Len(args) > 1
        /\ config' = [config EXCEPT !.excluded = @ \cup {args[2].exclusion}]
        /\ Parse(2)
     \/ /\ args[1].text = "--max-depth" /\ Len(args) > 1
        /\ \/ /\ args[2].number # None
              /\ config' = [config EXCEPT !.maxDepth = args[2].number]
              /\ Parse(2)
           \/ args[2].number = None /\ Exit(1) /\ UNCHANGED <<args, config>>
     \/ /\ args[1].text = "--workers" /\ Len(args) > 1
        /\ SetWorkers(args[2].number, 2)
     \/ args[1].text = "--workers=" /\ SetWorkers(args[1].number, 1)
  /\ UNCHANGED <<discoveryVars, batchVars, outputVars>>

\* The path, which is given once, or an option that does not exist.
ParseOther ==
  /\ stage = "parse" /\ args # <<>>
  /\ \/ /\ args[1].text = "path" /\ config.target = NoTarget
        /\ config' = [config EXCEPT !.target = [kind |-> args[1].kind]]
        /\ Parse(1)
     \/ /\ args[1].text = "path" /\ config.target # NoTarget
        /\ Exit(1) /\ UNCHANGED <<args, config>>
     \/ /\ args[1].text = "--unknown"
        /\ Exit(1) /\ UNCHANGED <<args, config>>
  /\ UNCHANGED <<discoveryVars, batchVars, outputVars>>

-----------------------------------------------------------------------------
(* main *)

\* The path may have changed between exists(), is_file() and is_dir().
Main ==
  /\ stage = "parse" /\ args = <<>>
  /\ \/ config.target.kind = "file" /\ To("file")
     \/ config.target.kind = "directory" /\ To("directory")
     \/ Exit(1)
  /\ UNCHANGED <<discoveryVars, args, config, batchVars, outputVars>>

\* run_file: a report; an error, of the inspection or because JSON cannot carry
\* the path; or a panic.
RunFile ==
  /\ stage = "file"
  /\ \E status \in {0, 1, 101} : Exit(status)
  /\ UNCHANGED <<discoveryVars, args, config, batchVars, outputVars>>

-----------------------------------------------------------------------------
(* run_directory *)

Listing ==
  /\ stage = "directory" /\ To("listing")
  /\ CallListVms(config.recursive, config.excluded, config.maxDepth)
  /\ UNCHANGED <<args, config, batchVars, outputVars>>

Walk ==
  /\ stage = "listing" /\ WalkStep
  /\ warned' = IF config.quiet THEN warned ELSE inaccessible'
  /\ UNCHANGED <<stage, args, config, batchVars, told, exit>>

ListingReturns ==
  /\ stage = "listing" /\ wpc = "done"
  /\ \/ answer # "report" /\ Exit(1)
     \/ answer = "report" /\ To(IF found = {} THEN "print" ELSE "batch")
  /\ UNCHANGED <<discoveryVars, args, config, batchVars, outputVars>>

Workers ==
  IF config.workers # None THEN config.workers
  ELSE IF config.concurrent THEN 2 ELSE 1

\* inspect_batch: an error when a worker could not be started, else the outcomes.
RunBatch ==
  /\ stage = "batch"
  /\ \/ Exit(1) /\ UNCHANGED batchVars
     \/ /\ To("print")
        /\ \E P \in SUBSET found :
             LET pool == PoolSizeOf(Workers, Cardinality(found), MaxPool) IN
             /\ Cardinality(P) <= pool
             /\ \E D \in SUBSET (found \ P) :
                  /\ Cardinality(P) < pool => D = found \ P
                  /\ \E R \in SUBSET D : reports' = R /\ failures' = D \ R
             /\ panicked' = P
  /\ UNCHANGED <<discoveryVars, args, config, outputVars>>

\* Mutant of PrintJson: an error is not part of the object.
PrintReportsOnly ==
  /\ stage = "print" /\ config.json
  /\ told' = reports /\ warned' = inaccessible /\ Exit(0)
  /\ UNCHANGED <<discoveryVars, args, config, batchVars>>

\* The object of reports, errors, warnings and directories, or nothing of it.  A
\* path that is not UTF-8 cannot be part of it: the json! macro panics.  println!
\* panics when nobody reads the output any more.
Unprintable ==
  \E n \in reports \cup failures \cup inaccessible :
    ({n} \cup Above[n]) \cap NotUtf8 # {}
PrintJson ==
  /\ stage = "print" /\ config.json
  /\ \/ Exit(101) /\ UNCHANGED outputVars
     \/ /\ ~Unprintable
        /\ told' = reports \cup failures /\ warned' = inaccessible
        /\ Exit(0)
  /\ UNCHANGED <<discoveryVars, args, config, batchVars>>

\* A report per image, the errors, and the count of both.  The output may be closed
\* at any line, and println! panics there.
PrintHuman ==
  /\ stage = "print" /\ ~config.json
  /\ \/ told' = reports \cup failures /\ Exit(0)
     \/ /\ \E lines \in SUBSET (reports \cup failures) :
             /\ lines \cap failures # {} => reports \subseteq lines
             /\ told' = lines
        /\ Exit(101)
  /\ UNCHANGED <<discoveryVars, args, config, batchVars, warned>>

-----------------------------------------------------------------------------

CommandStep ==
  \/ ParseFlag \/ ParseValue \/ ParseOther \/ Main \/ RunFile
  \/ Listing \/ Walk \/ ListingReturns \/ RunBatch \/ PrintJson \/ PrintHuman

CommandSpec == CommandInit /\ [][CommandStep]_commandVars

\* The command is one thread, and the calls it makes return (inspect_batch:
\* BatchReturns).
FairCommandSpec == CommandSpec /\ WF_commandVars(CommandStep)

-----------------------------------------------------------------------------
(* Properties. *)

\* What a directory holds for the walk that was made, and what is lost of it.
Reachable == {f \in (Images \ Empty) \ skipped : Walked(Parent[f])}
Dropped   == Reachable \ told

\* A directory whose run ends with status 0 is answered for: every image that
\* the walk could reach is in the output, as a report or as an error.  One is
\* dropped only when an inspection panicked, and more than those that panicked
\* only when no worker was left.  An unreadable directory is in the output too,
\* unless a reader asked for quiet.  With another status no image is named, save
\* by an output for a reader that was cut short (status 101).
CommandTruthful ==
  stage = "exit" /\ wpc = "done" =>
    /\ exit = 0 =>
         /\ answer = "report"
         /\ Dropped # {} => panicked # {}
         /\ Dropped \ panicked # {} =>
              Cardinality(panicked) = PoolSizeOf(Workers, Cardinality(Reachable),
                                                 MaxPool)
         /\ inaccessible \subseteq warned \/ (config.quiet /\ ~config.json)
    /\ exit # 0 => told = {} \/ (exit = 101 /\ ~config.json)

\* The command ends, whatever the arguments, the tree and its failures.
CommandEnds == <>(stage = "exit")
=============================================================================
