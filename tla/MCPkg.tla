-------------------------------- MODULE MCPkg --------------------------------
(* Instances of PkgGeneric: an application that needs a library, built     *)
(* with or without a compiler cache that every package waits for.          *)
EXTENDS PkgGeneric

MCDeps == [p \in Pkg |-> IF p = "app" THEN Pkg \cap {"lib"} ELSE {}]

MCInstall ==
    [p \in Pkg |-> CASE p = "app" -> {"target_installed", "images_installed"}
                     [] p = "lib" -> {"staging_installed", "target_installed"}
                     [] OTHER -> {"host_installed"}]
===============================================================================
