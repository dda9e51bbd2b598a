---------------------------------- MODULE MCParts --------------------------------
(***************************************************************************)
(* The small components in one run: the three exercises of dsa/, and the   *)
(* parts of the server that share no state with the others.  In each       *)
(* behaviour one part moves, from any of its inputs, and the others stay   *)
(* at their smallest.                                                      *)
(***************************************************************************)
EXTENDS RepeatedSubarray, GrayCode, SumOfDistances, Validation, Configuration,
        MigrationFiles, HealthCheck, TLC

VARIABLE part

\* Two files of one version and one of a later version, in the form the guide has,
\* without a Down part, in the reverse order, and without markers.
MCFiles  == {[version |-> v, name |-> n] : <<v, n>> \in {<<1, 1>>, <<1, 2>>, <<2, 1>>}}
MCBodies == {<<Up, "create", Down, "drop">>,
             <<Up, "create">>,
             <<Down, "drop", Up, "create">>,
             <<"create">>}

\* Texts that time.ParseDuration takes; "1d" it does not.
MCParsed    == "-1h" :> -1 @@ "0s" :> 0 @@ "12h" :> 12 @@ "24h" :> 24
MCPoolSizes == -1 .. 1

subarrayVars == vars
allVars == <<part, subarrayVars, grayVars, treeVars, validVars, configVars, dirVars,
             healthVars>>

SampleName     == <<"a", "1">>
SamplePassword == <<"A", "a", "1", "a">>

\* A smallest input is assigned before Init chooses one.
MCInit ==
    /\ part \in {"subarray", "gray", "tree", "validation", "configuration", "directory",
                 "health"}
    /\ part = "subarray" \/ (len1 = 0 /\ len2 = 0)
    /\ part = "gray" \/ bits = 0
    /\ part = "tree" \/ nodes = 1
    /\ \/ username = SampleName /\ password = SamplePassword
       \/ part = "validation" /\ (username = SampleName \/ password = SamplePassword)
    /\ part = "configuration" \/ (file = <<>> /\ found = FALSE /\ key = "" /\ open = 0)
    /\ Init
    /\ GrayInit
    /\ TreeInit
    /\ ValidInit
    /\ ConfigInit
    /\ DirInit
    /\ HealthInit

MCNext ==
    /\ UNCHANGED part
    /\ \/ /\ part = "subarray" /\ Next
          /\ UNCHANGED <<grayVars, treeVars, validVars, configVars, dirVars, healthVars>>
       \/ /\ part = "gray" /\ Step
          /\ UNCHANGED <<subarrayVars, treeVars, validVars, configVars, dirVars, healthVars>>
       \/ /\ part = "tree" /\ TreeNext
          /\ UNCHANGED <<subarrayVars, grayVars, validVars, configVars, dirVars, healthVars>>
       \/ /\ part = "validation" /\ Register
          /\ UNCHANGED <<subarrayVars, grayVars, treeVars, configVars, dirVars, healthVars>>
       \/ /\ part = "configuration" /\ ConfigNext
          /\ UNCHANGED <<subarrayVars, grayVars, treeVars, validVars, dirVars, healthVars>>
       \/ /\ part = "directory" /\ DirNext
          /\ UNCHANGED <<subarrayVars, grayVars, treeVars, validVars, configVars, healthVars>>
       \/ /\ part = "health" /\ HealthNext
          /\ UNCHANGED <<subarrayVars, grayVars, treeVars, validVars, configVars, dirVars>>

MCSpec == MCInit /\ [][MCNext]_allVars

================================================================================
