--------------------------------- MODULE Toolchain ---------------------------------
(***************************************************************************)
(* The programs around the library: the splitter of names (Naming), the    *)
(* generators of stubs (Codegen), the build script (BuildScript) and the   *)
(* maintenance commands (Xtask, which runs the build script). They meet in *)
(* the files they leave, not in a process, so a behaviour follows one.     *)
(***************************************************************************)
EXTENDS Naming, Codegen, Xtask

CONSTANT OneFeature   \* the target and features the maintenance commands build for

ASSUME OneFeatureAssumption == OneFeature \in Features

VARIABLE part  \* names, stubs, build, core or generate

toolVars == <<part, nameVars, genVars, xtaskVars>>

ToolchainInit ==
  /\ part \in {"names", "stubs", "build", "core", "generate"}
  /\ NamingInit /\ (part # "names" => name = <<"l">>)
  /\ CodegenInit /\ (part # "stubs" => file.services = <<>> /\ file.package = "")
  /\ XtaskInit /\ (part # "build" => feat = OneFeature)

ToolchainNext ==
  \/ part = "names" /\ NamingNext /\ UNCHANGED <<part, genVars, xtaskVars>>
  \/ part = "stubs" /\ CodegenNext /\ UNCHANGED <<part, nameVars, xtaskVars>>
  \/ part = "build" /\ BuildNext /\ UNCHANGED <<part, nameVars, genVars, other, gen, health, x>>
  \/ part = "core" /\ CoreNext /\ UNCHANGED <<part, nameVars, genVars>>
  \/ part = "generate" /\ GenerateNext /\ UNCHANGED <<part, nameVars, genVars>>

ToolchainSpec == ToolchainInit /\ [][ToolchainNext]_toolVars
=============================================================================
