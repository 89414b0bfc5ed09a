------------------------------- MODULE Handlers -------------------------------
(***************************************************************************)
(* The actions that provision a machine, by the name they are registered   *)
(* under.                                                                  *)
(***************************************************************************)
EXTENDS
  ServiceActions, SystemActions, ToolsActions, ContainerActions,
  DirectoryActions, KerberosActions, LxdActions, AssertActions, NetworkActions

FileKinds == {"file", "file.touch", "file.render", "file.upload", "file.cache", "file.download"}

IsConfig(c) ==
  CASE c.kind \in FsKinds     -> IsFsConfig(c)
    [] c.kind \in FileKinds   -> IsFileConfig(c)
    [] c.kind \in FormatKinds -> IsFormatConfig(c)
    [] c.kind \in ServiceKinds -> IsServiceConfig(c)
    [] c.kind \in SystemKinds -> IsSystemConfig(c)
    [] c.kind \in ToolsKinds -> IsToolsConfig(c)
    [] c.kind \in DockerKinds -> IsDockerConfig(c)
    [] c.kind \in DbKinds -> IsDbConfig(c)
    [] c.kind \in DirectoryKinds -> IsDirectoryConfig(c)
    [] c.kind \in KerberosKinds -> IsKerberosConfig(c)
    [] c.kind \in LxdKinds -> IsLxdConfig(c)
    [] c.kind \in AssertKinds -> IsAssertConfig(c)
    [] c.kind \in NetworkKinds -> IsNetworkConfig(c)

\* The effect of the action a user calls.
Handler(c, m) ==
  CASE c.kind \in FsKinds   -> FsHandler(c, m)
    [] c.kind \in FileKinds -> FileHandler(c, m)
    [] c.kind \in FormatKinds -> FormatHandler(c, m)
    [] c.kind \in ServiceKinds -> ServiceHandler(c, m)
    [] c.kind \in SystemKinds -> SystemHandler(c, m)
    [] c.kind \in ToolsKinds -> ToolsHandler(c, m)
    [] c.kind \in DockerKinds -> DockerHandler(c, m)
    [] c.kind \in DbKinds -> DbHandler(c, m)
    [] c.kind \in DirectoryKinds -> DirectoryHandler(c, m)
    [] c.kind \in KerberosKinds -> KerberosHandler(c, m)
    [] c.kind \in LxdKinds -> LxdHandler(c, m)
    [] c.kind \in AssertKinds -> AssertHandler(c, m)
    [] c.kind \in NetworkKinds -> NetworkHandler(c, m)

\* What it promises.
Goal(c, was, m) ==
  CASE c.kind \in FsKinds   -> FsGoal(c, was, m)
    [] c.kind \in FileKinds -> FileGoal(c, was, m)
    [] c.kind \in FormatKinds -> FormatGoal(c, was, m)
    [] c.kind \in ServiceKinds -> ServiceGoal(c, was, m)
    [] c.kind \in SystemKinds -> SystemGoal(c, was, m)
    [] c.kind \in ToolsKinds -> ToolsGoal(c, was, m)
    [] c.kind \in DockerKinds -> DockerGoal(c, was, m)
    [] c.kind \in DbKinds -> DbGoal(c, was, m)
    [] c.kind \in DirectoryKinds -> DirectoryGoal(c, was, m)
    [] c.kind \in KerberosKinds -> KerberosGoal(c, was, m)
    [] c.kind \in LxdKinds -> LxdGoal(c, was, m)
    [] c.kind \in AssertKinds -> AssertGoal(c, m)
    [] c.kind \in NetworkKinds -> NetworkGoal(c, m)

\* What it leaves as it was.
Spares(c, was, m) ==
  CASE c.kind \in FsKinds \cup AssertKinds -> TRUE
    [] c.kind \in FileKinds -> FileSpares(c, was, m)
    [] c.kind \in FormatKinds -> FormatSpares(c, was, m)
    [] c.kind \in ServiceKinds -> ServiceSpares(c, was, m)
    [] c.kind \in SystemKinds -> SystemSpares(c, was, m)
    [] c.kind \in ToolsKinds -> ToolsSpares(c, was, m)
    [] c.kind \in DockerKinds -> DockerSpares(c, was, m)
    [] c.kind \in DbKinds -> DbSpares(c, was, m)
    [] c.kind \in DirectoryKinds -> DirectorySpares(c, was, m)
    [] c.kind \in KerberosKinds -> KerberosSpares(c, was, m)
    [] c.kind \in LxdKinds -> LxdSpares(c, was, m)
    [] c.kind \in NetworkKinds -> NetworkSpares(c, was, m)

\* The properties the code does not give it.
Except(c, was) ==
  CASE c.kind \in FsKinds   -> FsExcept(c, was)
    [] c.kind \in FileKinds -> FileExcept(c, was)
    [] c.kind \in FormatKinds -> FormatExcept(c)
    [] c.kind \in ServiceKinds -> ServiceExcept(c, was)
    [] c.kind \in SystemKinds -> SystemExcept(c, was)
    [] c.kind \in ToolsKinds -> ToolsExcept(c, was)
    [] c.kind \in DockerKinds -> DockerExcept(c, was)
    [] c.kind \in DbKinds -> DbExcept(c, was)
    [] c.kind \in DirectoryKinds -> DirectoryExcept(c, was)
    [] c.kind \in KerberosKinds -> KerberosExcept(c, was)
    [] c.kind \in LxdKinds -> LxdExcept(c, was)
    [] c.kind \in AssertKinds -> AssertExcept(c, was)
    [] c.kind \in NetworkKinds -> NetworkExcept(c, was)
=============================================================================
