----------------------------- MODULE BuildConfig -----------------------------
(***************************************************************************)
(* Which build a host and a project configuration resolve to, and whether  *)
(* the backend it selects can run it.  A repository is [name, arches], the *)
(* name "" when it is missing or malformed; "" and 0 are unset.            *)
(***************************************************************************)
EXTENDS Naturals, Sequences, SequencesExt, FiniteSets

CONSTANTS HostConfigs, Projects, BuildArches, DefaultTimeout, Microarches

VARIABLE configCase

ConfigInit == configCase = [kind |-> "none"]

BackendKinds == {"chroot", "container", "bwrap"}

\* An error is a record of its own; everything else is a result.
NoConfig == [ok |-> FALSE]

ValidateRepositories(repos) ==
  /\ \A i \in DOMAIN repos : repos[i].name # ""
  /\ IsInjective([i \in DOMAIN repos |-> repos[i].name])

\* enabledFor and reposFor.
ReposFor(repos, arch) == SelectSeq(repos, LAMBDA r : r.arches = {} \/ arch \in r.arches)

\* What a project may ask for: an architecture it names, with that one's timeout.
Overrides(project, arch) ==
  IF (project.arches # {} /\ arch \notin project.arches) \/ ~ValidateRepositories(project.repos)
  THEN NoConfig
  ELSE [ok |-> TRUE,
        timeout |-> IF arch \in project.arches /\ project.archTimeout # 0 THEN project.archTimeout ELSE project.timeout,
        repos |-> ReposFor(project.repos, arch),
        microarch |-> project.microarch,
        image |-> project.image]

ValidMicroarch(tier) == tier = "" \/ tier \in Microarches

HostValid(host) ==
  /\ host.backend \in BackendKinds \cup {""}
  /\ ValidateRepositories(host.repos)
  /\ host.backend = "bwrap" => host.rootfs # ""

\* ResolvedConfig.Validate, which the factory asks again.
Validate(c) ==
  /\ c.backend \in BackendKinds /\ ValidateRepositories(c.repos) /\ ValidMicroarch(c.microarch)
  /\ c.backend = "container" => c.image # "" /\ c.timeout # 0
  /\ c.backend = "bwrap" => c.rootfs # ""
  /\ c.backend = "chroot" => c.repos # <<>> \/ c.microarch # "" \/ c.archbuild # ""

OrElse(value, fallback) == IF value \notin {"", 0} THEN value ELSE fallback

\* Deviation: the project's repositories come first.
ResolvedReposProjectFirst(host, over) == over.repos \o host.repos

\* Host repositories keep their precedence in pacman.conf.
ResolvedRepos(host, over) == host.repos \o over.repos

\* Deviation: the defaults of the container backend are left to the backend.
ResolvedTimeoutBare(backend, host, over) == IF over.timeout > 0 THEN over.timeout ELSE host.timeout

ResolvedTimeout(backend, host, over) ==
  LET asked == IF over.timeout > 0 THEN over.timeout ELSE host.timeout
  IN IF asked = 0 /\ backend = "container" THEN DefaultTimeout ELSE asked

ResolveConfig(host, over, arch) ==
  LET backend == IF host.backend = "" THEN "chroot" ELSE host.backend
      image == IF over.image # "" THEN over.image ELSE host.image
      c == [ok |-> TRUE, backend |-> backend,
            timeout |-> ResolvedTimeout(backend, host, over),
            repos |-> ResolvedRepos(host, over),
            microarch |-> over.microarch,
            image |-> IF image = "" /\ backend = "container" THEN "default" ELSE image,
            dockerHost |-> host.dockerHost,
            rootfs |-> host.rootfs,
            archbuild |-> IF host.archbuild = "" THEN host.template ELSE host.archbuild]
  IN IF /\ HostValid(host) /\ ValidMicroarch(over.microarch)
        /\ over.microarch # "" => arch = "x86_64"
        /\ Validate(c)
     THEN c ELSE NoConfig

\* What the backends themselves need to start a build.
Runs(c) ==
  CASE c.backend = "container" -> c.image # "" /\ c.timeout > 0
    [] c.backend = "bwrap" -> c.rootfs # ""
    [] OTHER -> c.repos # <<>> \/ c.microarch # "" \/ c.archbuild # ""

SourceBuildCase(host, project, arch) ==
  LET over == Overrides(project, arch)
  IN configCase' = [kind |-> "build", host |-> host, project |-> project, arch |-> arch,
                    c |-> IF over.ok THEN ResolveConfig(host, over, arch) ELSE NoConfig]

\* A direct package build: its PKGBUILD is evaluated in a container only, and its
\* repositories come from a pacman.conf of its own.
DirectCase(host, backend, image, arch) ==
  LET chosen == IF backend # "" THEN backend ELSE IF host.backend = "" THEN "container" ELSE host.backend
      over == [ok |-> TRUE, timeout |-> 0, repos |-> <<>>, microarch |-> "",
               image |-> IF image = "" /\ host.image = "" THEN "direct" ELSE image]
  IN configCase' = [kind |-> "direct", host |-> host, arch |-> arch,
                    c |-> IF host.repos = <<>> /\ chosen = "container"
                          THEN ResolveConfig([host EXCEPT !.backend = chosen], over, arch) ELSE NoConfig]

ConfigNext ==
  /\ configCase.kind = "none"
  /\ \E host \in HostConfigs, arch \in BuildArches :
       \/ \E project \in Projects : SourceBuildCase(host, project, arch)
       \/ \E backend \in BackendKinds \cup {""}, image \in {"", "own"} : DirectCase(host, backend, image, arch)

\* Resolution and the backends agree: what was resolved, no backend refuses;
\* and a container or bwrap build is refused only for what the configuration
\* says wrongly, never for what it leaves to the defaults.
ResolvedRuns ==
  configCase.kind = "build" =>
    LET host == configCase.host
        over == Overrides(configCase.project, configCase.arch)
    IN /\ configCase.c.ok => Runs(configCase.c)
       /\ (/\ over.ok /\ HostValid(host) /\ host.backend \in {"container", "bwrap"}
           /\ ValidateRepositories(host.repos \o over.repos)
           /\ over.microarch = "" \/ (over.microarch \in Microarches /\ configCase.arch = "x86_64"))
          => configCase.c.ok

\* A project cannot take the host over: it chooses neither the backend nor the
\* daemon nor the rootfs nor the wrapper, it cannot shadow a repository of the
\* host or come before one, and no repository of another architecture is used.
HostDecides ==
  (configCase.kind = "build" /\ configCase.c.ok) =>
    LET c == configCase.c
        host == configCase.host
    IN /\ c.backend = (IF host.backend = "" THEN "chroot" ELSE host.backend)
       /\ c.dockerHost = host.dockerHost /\ c.rootfs = host.rootfs
       /\ c.archbuild \in {host.archbuild, host.template}
       /\ IsPrefix(host.repos, c.repos)
       /\ IsInjective([i \in DOMAIN c.repos |-> c.repos[i].name])
       /\ \A r \in ToSet(c.repos) \ ToSet(host.repos) : r.arches = {} \/ configCase.arch \in r.arches

\* Configuration, as a whole: what resolves runs, and the host's word is the last.
ConfigHolds == ResolvedRuns /\ HostDecides
=============================================================================
