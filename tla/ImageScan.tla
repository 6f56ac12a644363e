------------------------------ MODULE ImageScan ------------------------------
(***************************************************************************)
(* scan_image_index (scanners/image_scanner): an image is pulled as a      *)
(* tarball for one platform after the other, syft lists its packages,      *)
(* grype their vulnerabilities, and the tables images, packages, layers    *)
(* and their associations are filled.  Scanners run in directories of      *)
(* their own and share the tables; the files of a scan that fails, or is   *)
(* killed, stay in the directory for the scans that follow.                *)
(***************************************************************************)
EXTENDS Naturals, Sequences, FiniteSets

CONSTANTS
    Scanners,
    Images,           \* a name with its tag or digest
    Orgsre,           \* the images of the account that holds base images
    IndexNamed,       \* the images scanned by the digest of their index (ECR);
                      \* of the others, each platform's digest is looked up
    Packages, Vulnerabilities, Layers,
    Offers,           \* external: the content of an image for each platform
    Matches,          \* external: the vulnerabilities grype knows of a package
    IntegrityTries, OperationalTries,   \* counts of retry_on_exception
    MaxRows,          \* bound: the rows that fit into images
    MaxScans,         \* bound: the scans that are started
    NoContent, NoFile, NoImage, NoRow

\* get_platforms
Platforms == <<"linux/arm64", "linux/amd64">>

Contents == [packages: SUBSET Packages, layers: Seq(Layers)]
Pulled == [content: Contents, cut: BOOLEAN]

ASSUME ImageScanAssumption ==
    /\ Orgsre \subseteq Images /\ IndexNamed \subseteq Images
    /\ \A image \in Images : \A at \in 1..2 :
           Offers[image][at] \in Contents \union {NoContent}
    /\ Matches \in [Packages -> SUBSET Vulnerabilities]
    /\ IntegrityTries \in Nat \ {0} /\ OperationalTries \in Nat \ {0}
    /\ MaxRows \in Nat /\ MaxScans \in Nat
    /\ NoContent \notin Contents /\ NoFile \notin Pulled
    /\ NoImage \notin Images /\ NoRow \notin Nat

VARIABLES
    disk,        \* the files of each scanner's directory
    rows,        \* images, with their packages, layers and base image, by id
    packages,    \* the table packages
    vulnerable,  \* the associations of packages and vulnerabilities
    task,        \* what each scanner is at
    raced,       \* history: images that two scanners scanned at once
    failed,      \* history: of IndexNamed, the images a scan of which failed
    scans        \* the scans started, up to MaxScans

tables == <<rows, packages, vulnerable>>
history == <<raced, failed, scans>>
vars == <<disk, tables, task, history>>

\* The name of a tarball leaves out the platform.
FileOf(image, at) == IF image \in IndexNamed THEN <<image, 0>> ELSE <<image, at>>
Files == Images \X (0..2)

\* A layer with its place in the image.
Places(layers) == {<<n, layers[n]>> : n \in DOMAIN layers}

Row == [image: Images, at: 1..2, packages: SUBSET Packages,
        layers: SUBSET (Nat \X Layers), base: Nat \union {NoRow}]

\* at: the platform; row: the id of the image; todo, pending: the packages
\* left, and those whose association is not committed yet; integrity,
\* operational: the exceptions that each decorator caught; restarts: history,
\* how often the pass was started again.
Idle == [pc |-> "idle", image |-> NoImage, at |-> 1, row |-> NoRow,
         todo |-> {}, pending |-> {}, integrity |-> 0, operational |-> 0,
         restarts |-> 0]

TypeOK ==
    /\ disk \in [Scanners -> [tars: [Files -> Pulled \union {NoFile}],
                              sbom: (SUBSET Packages) \union {NoFile}]]
    /\ rows \in Seq(Row)
    /\ packages \subseteq Packages
    /\ vulnerable \subseteq packages \X Vulnerabilities
    /\ \A i \in DOMAIN rows : /\ rows[i].packages \subseteq packages
                              /\ rows[i].base \in DOMAIN rows \union {NoRow}
    /\ task \in [Scanners ->
           [pc: {"idle", "ended", "pull", "sbom", "look", "insert", "artifacts",
                 "layers", "base", "matches", "delete"},
            image: Images \union {NoImage}, at: 1..2,
            row: DOMAIN rows \union {NoRow},
            todo: SUBSET Packages, pending: SUBSET packages,
            integrity: 0..(IntegrityTries - 1),
            operational: 0..(OperationalTries - 1), restarts: Nat]]
    /\ raced \subseteq Images /\ failed \subseteq IndexNamed
    /\ scans \in 0..MaxScans

Init ==
    /\ disk = [s \in Scanners |-> [tars |-> [f \in Files |-> NoFile],
                                   sbom |-> NoFile]]
    /\ rows = <<>> /\ packages = {} /\ vulnerable = {}
    /\ task = [s \in Scanners |-> Idle]
    /\ raced = {} /\ failed = {} /\ scans = 0

-----------------------------------------------------------------------------
Busy(s) == task[s].pc \notin {"idle", "ended"}

\* A message, or a command, has an image scanned.
Start(s) ==
    /\ ~Busy(s)
    /\ scans < MaxScans /\ scans' = scans + 1
    /\ \E image \in Images :
        /\ task' = [task EXCEPT ![s] = [Idle EXCEPT !.pc = "pull", !.image = image]]
        /\ raced' = IF \E e \in Scanners : Busy(e) /\ task[e].image = image
                    THEN raced \union {image} ELSE raced
    /\ UNCHANGED <<disk, tables, failed>>

\* What is not committed is rolled back, the files stay.
Fails(s) ==
    /\ task' = [task EXCEPT ![s] = Idle]
    /\ failed' = failed \union ({task[s].image} \intersect IndexNamed)
    /\ UNCHANGED <<raced, scans>>

Goto(s, pc) ==
    /\ task' = [task EXCEPT ![s].pc = pc]
    /\ UNCHANGED history

\* The loop over the platforms goes on, or the scan has ended well.
NextPlatform(s) ==
    /\ task' = [task EXCEPT ![s] =
                   [Idle EXCEPT !.pc = IF task[s].at = 1 THEN "pull" ELSE "ended",
                                !.image = task[s].image, !.at = 2]]
    /\ UNCHANGED history

Tar(s) == FileOf(task[s].image, task[s].at)
Offered(s) == Offers[task[s].image][task[s].at]

\* A tarball that is there is not pulled again.
Reuse(s) ==
    /\ task[s].pc = "pull"
    /\ task[s].image \in IndexNamed \/ Offered(s) # NoContent
    /\ disk[s].tars[Tar(s)] # NoFile
    /\ Goto(s, "sbom")
    /\ UNCHANGED <<disk, tables>>

Pull(s) ==
    /\ task[s].pc = "pull"
    /\ Offered(s) # NoContent
    /\ disk[s].tars[Tar(s)] = NoFile
    /\ disk' = [disk EXCEPT ![s].tars[Tar(s)] =
                    [content |-> Offered(s), cut |-> FALSE]]
    /\ Goto(s, "sbom")
    /\ UNCHANGED tables

\* A pull ended by its timeout, or killed, leaves what it has written.
CutPull(s) ==
    /\ task[s].pc = "pull"
    /\ Offered(s) # NoContent
    /\ disk[s].tars[Tar(s)] = NoFile
    /\ disk' = [disk EXCEPT ![s].tars[Tar(s)] =
                    [content |-> Offered(s), cut |-> TRUE]]
    /\ Fails(s)
    /\ UNCHANGED tables

\* crane save answers that there is no such platform, and the next one is
\* tried; crane digest, asked first for the other images, ends the scan.
NotOffered(s) ==
    /\ task[s].pc = "pull"
    /\ Offered(s) = NoContent
    /\ IF task[s].image \in IndexNamed
       THEN disk[s].tars[Tar(s)] = NoFile /\ NextPlatform(s)
       ELSE Fails(s)
    /\ UNCHANGED <<disk, tables>>

\* syft; of half a tarball it may list some of the packages.
Sbom(s) ==
    LET tar == disk[s].tars[Tar(s)]
    IN  /\ task[s].pc = "sbom"
        /\ \E found \in SUBSET tar.content.packages :
            /\ tar.cut \/ found = tar.content.packages
            /\ disk' = [disk EXCEPT ![s].sbom = found]
        /\ Goto(s, "look")
        /\ UNCHANGED tables

\* (mutant) The rows joined with their layers.
RowsWithLayers(image, at) ==
    {i \in DOMAIN rows : /\ rows[i].image = image /\ rows[i].at = at
                         /\ rows[i].layers # {}}

RowsOf(image, at) == {i \in DOMAIN rows : rows[i].image = image /\ rows[i].at = at}

\* get_or_create(Image): with two rows one_or_none raises.
Look(s) ==
    LET found == RowsOf(task[s].image, task[s].at)
    IN  /\ task[s].pc = "look"
        /\ \/ /\ found = {}
              /\ Goto(s, "insert")
           \/ /\ Cardinality(found) = 1
              /\ \E i \in found :
                  task' = [task EXCEPT ![s].pc = "artifacts", ![s].row = i,
                                       ![s].todo = disk[s].sbom]
              /\ UNCHANGED history
           \/ /\ Cardinality(found) > 1
              /\ Fails(s)
        /\ UNCHANGED <<disk, tables>>

Insert(s) ==
    /\ task[s].pc = "insert"
    /\ Len(rows) < MaxRows
    /\ rows' = Append(rows, [image |-> task[s].image, at |-> task[s].at,
                             packages |-> {}, layers |-> {}, base |-> NoRow])
    /\ task' = [task EXCEPT ![s].pc = "artifacts", ![s].row = Len(rows'),
                            ![s].todo = disk[s].sbom]
    /\ UNCHANGED <<disk, packages, vulnerable, history>>

\* process_sbom_artifact_for_image, of a package that is known,
Associate(s) ==
    /\ task[s].pc = "artifacts"
    /\ \E p \in task[s].todo \intersect packages :
        task' = [task EXCEPT ![s].todo = @ \ {p}, ![s].pending = @ \union {p}]
    /\ UNCHANGED <<disk, tables, history>>

\* or of a new one, whose creation commits the associations before it.
NewPackage(s) ==
    /\ task[s].pc = "artifacts"
    /\ \E p \in task[s].todo \ packages :
        /\ packages' = packages \union {p}
        /\ task' = [task EXCEPT ![s].todo = @ \ {p}, ![s].pending = {p}]
    /\ rows' = [rows EXCEPT ![task[s].row].packages = @ \union task[s].pending]
    /\ UNCHANGED <<disk, vulnerable, history>>

\* A license that is new to its table, whose creation commits them too.
NewLicense(s) ==
    /\ task[s].pc = "artifacts"
    /\ task[s].pending # {}
    /\ rows' = [rows EXCEPT ![task[s].row].packages = @ \union task[s].pending]
    /\ task' = [task EXCEPT ![s].pending = {}]
    /\ UNCHANGED <<disk, packages, vulnerable, history>>

\* (mutant) The last commit forgotten.
AssociatedUncommitted(s) ==
    /\ task[s].pc = "artifacts"
    /\ task[s].todo = {}
    /\ task' = [task EXCEPT ![s].pc = "layers", ![s].pending = {}]
    /\ UNCHANGED <<disk, tables, history>>

Associated(s) ==
    /\ task[s].pc = "artifacts"
    /\ task[s].todo = {}
    /\ rows' = [rows EXCEPT ![task[s].row].packages = @ \union task[s].pending]
    /\ task' = [task EXCEPT ![s].pc = "layers", ![s].pending = {}]
    /\ UNCHANGED <<disk, packages, vulnerable, history>>

\* The pass over sbom.json, and the pass over sca.json, are retried.
FirstPc(pc) == IF pc = "matches" THEN "matches" ELSE "look"
Retried == {"look", "insert", "artifacts", "matches"}

Restart(t) == [t EXCEPT !.pc = FirstPc(@), !.todo = {}, !.pending = {},
                        !.restarts = @ + 1]

\* A deadlock or a lost connection: caught by the inner decorator, which
\* gives up with an exception that the outer one does not catch.
OperationalError(s) ==
    /\ task[s].pc \in Retried
    /\ IF task[s].operational + 1 < OperationalTries
       THEN /\ task' = [task EXCEPT ![s] =
                           [Restart(task[s]) EXCEPT !.operational = @ + 1]]
            /\ UNCHANGED history
       ELSE Fails(s)
    /\ UNCHANGED <<disk, tables>>

\* (mutant) One more try than the count says.
IntegrityErrorOnceMore(s) ==
    /\ task[s].pc \in Retried
    /\ \E e \in Scanners \ {s} : Busy(e)
    /\ IF task[s].integrity < IntegrityTries
       THEN /\ task' = [task EXCEPT ![s] =
                [Restart(task[s]) EXCEPT !.operational = 0, !.integrity = @ + 1]]
            /\ UNCHANGED history
       ELSE Fails(s)
    /\ UNCHANGED <<disk, tables>>

\* Two scanners insert the same package, association or vulnerability: the
\* outer decorator starts the inner one anew.
IntegrityError(s) ==
    /\ task[s].pc \in Retried
    /\ \E e \in Scanners \ {s} : Busy(e)
    /\ IF task[s].integrity + 1 < IntegrityTries
       THEN /\ task' = [task EXCEPT ![s] =
                [Restart(task[s]) EXCEPT !.operational = 0, !.integrity = @ + 1]]
            /\ UNCHANGED history
       ELSE Fails(s)
    /\ UNCHANGED <<disk, tables>>

\* The next pass has decorators of its own.
Fresh(t, pc) == [t EXCEPT !.pc = pc, !.integrity = 0, !.operational = 0,
                             !.restarts = 0]

\* save_layer_information_for_image, one commit: a place that has another
\* layer gets this one too, and with two one_or_none raises.  The manifest is
\* what crane writes last: half a tarball has none.
SaveLayers(s) ==
    LET tar == disk[s].tars[Tar(s)]
        new == Places(tar.content.layers)
        old == rows[task[s].row].layers
    IN  /\ task[s].pc = "layers"
        /\ IF tar.cut \/ \E x, y \in old : x # y /\ x[1] = y[1]
                                          /\ x[1] \in DOMAIN tar.content.layers
           THEN /\ Fails(s)
                /\ UNCHANGED rows
           ELSE /\ rows' = [rows EXCEPT ![task[s].row].layers =
                                @ \union new]
                /\ task' = [task EXCEPT ![s] = Fresh(@, "base")]
                /\ UNCHANGED history
        /\ UNCHANGED <<disk, packages, vulnerable>>

\* (mutant) A base image that shares the first layer is enough.
SharesFirst(base, layers) == \E x \in base \intersect layers : x[1] = 1

\* is_parent_image_of: the layers up to some place, and not all of them.
IsParent(base, layers) ==
    /\ base # layers
    /\ base = {x \in layers : \E y \in base : x[1] <= y[1]}

\* The base images that share the first layer and hold no other layers.
Parents(i) ==
    {j \in DOMAIN rows \ {i} :
        /\ rows[j].image \in Orgsre
        /\ \E x \in rows[j].layers \intersect rows[i].layers : x[1] = 1
        /\ IsParent(rows[j].layers, rows[i].layers)}

\* detect_and_update_base_image: the one of them with the most layers.
SetBase(i) ==
    \/ Parents(i) = {} /\ UNCHANGED rows
    \/ \E j \in Parents(i) :
        /\ \A k \in Parents(i) :
               Cardinality(rows[k].layers) <= Cardinality(rows[j].layers)
        /\ rows' = [rows EXCEPT ![i].base = j]

DetectBase(s) ==
    /\ task[s].pc = "base"
    /\ SetBase(task[s].row)
    /\ Goto(s, "matches")
    /\ UNCHANGED <<disk, packages, vulnerable>>

\* update-all-images-with-base-images, a session for each image.
UpdateBase ==
    /\ \E i \in DOMAIN rows : rows[i].image \notin Orgsre /\ SetBase(i)
    /\ UNCHANGED <<disk, packages, vulnerable, task, history>>

\* grype, and parse_sca_with_image with its one commit.  The packages are
\* known: nothing deletes a package, and the matches are of the sbom.json that
\* was just stored, so SCADependencyException, the third decorator, and
\* sca.json, which is read here only, are left out.
StoreMatches(s) ==
    /\ task[s].pc = "matches"
    /\ vulnerable' = vulnerable \union
           {x \in Packages \X Vulnerabilities :
               x[1] \in disk[s].sbom /\ x[2] \in Matches[x[1]]}
    /\ task' = [task EXCEPT ![s] = Fresh(@, "delete")]
    /\ UNCHANGED <<disk, rows, packages, history>>

\* (mutant) The tarball kept for the next platform.
DeleteReports(s) ==
    /\ task[s].pc = "delete"
    /\ disk' = [disk EXCEPT ![s].sbom = NoFile]
    /\ NextPlatform(s)
    /\ UNCHANGED tables

DeleteFiles(s) ==
    /\ task[s].pc = "delete"
    /\ disk' = [disk EXCEPT ![s].sbom = NoFile, ![s].tars[Tar(s)] = NoFile]
    /\ NextPlatform(s)
    /\ UNCHANGED tables

\* syft, grype, the registry or the database fails, or the process is killed.
Fail(s) ==
    /\ Busy(s)
    /\ Fails(s)
    /\ UNCHANGED <<disk, tables>>

Scan(s) ==
    \/ Reuse(s) \/ Pull(s) \/ CutPull(s) \/ NotOffered(s) \/ Sbom(s)
    \/ Look(s) \/ Insert(s) \/ Associate(s) \/ NewPackage(s) \/ NewLicense(s)
    \/ Associated(s) \/ OperationalError(s) \/ IntegrityError(s)
    \/ SaveLayers(s) \/ DetectBase(s) \/ StoreMatches(s) \/ DeleteFiles(s) \/ Fail(s)

Next == UpdateBase \/ \E s \in Scanners : Start(s) \/ Scan(s)

Spec == Init /\ [][Next]_vars

-----------------------------------------------------------------------------
(* Properties.                                                             *)

\* The tarball left by a failed scan is taken for another platform only if
\* both have the same name.
Trusted(image) == image \notin IndexNamed \/ image \notin failed

\* However scans of an image overlap, fail and reuse what is left of earlier
\* ones, its row for a platform shows no package and no layer of another
\* platform or image, unless a scan by the digest of the index failed before.
RowsAreOwn ==
    \A i \in DOMAIN rows : Trusted(rows[i].image) =>
        LET own == Offers[rows[i].image][rows[i].at]
        IN  /\ own # NoContent
            /\ rows[i].packages \subseteq own.packages
            /\ rows[i].layers \subseteq Places(own.layers)

Inventoried(image, at) ==
    LET own == Offers[image][at]
    IN  \E i \in RowsOf(image, at) :
            /\ own.packages \subseteq rows[i].packages
            /\ Places(own.layers) \subseteq rows[i].layers
            /\ \A p \in own.packages : {p} \X Matches[p] \subseteq vulnerable

\* And a scan that ends well has left nothing out, whatever was retried, cut
\* off or in the tables before: each platform the registry offers has a row
\* with all of its packages and layers, and their vulnerabilities.
EndMeansInventoried ==
    \A s \in Scanners : task[s].pc = "ended" /\ Trusted(task[s].image) =>
        \A at \in 1..2 : Offers[task[s].image][at] # NoContent =>
            Inventoried(task[s].image, at)

\* A platform of an image has one row as long as two scanners did not pick
\* the image at the same time: with two, every later scan of it fails.
OneRowPerPlatform ==
    \A i, j \in DOMAIN rows :
        /\ rows[i].image = rows[j].image /\ rows[i].at = rows[j].at
        /\ rows[i].image \notin raced
        => i = j

\* The base image of an image is one of the base images, and all its layers,
\* at their places, are the image's first, even if rows are added to since.
BaseIsAncestor ==
    \A i \in DOMAIN rows :
        LET base == rows[i].base
        IN  /\ base # NoRow
            /\ Trusted(rows[i].image) /\ Trusted(rows[base].image)
            => /\ rows[base].image \in Orgsre
               /\ \E n \in 1..(Cardinality(rows[i].layers) - 1) :
                      rows[base].layers = {x \in rows[i].layers : x[1] <= n}

\* However the two exceptions alternate, a pass is tried no more often than
\* the product of the counts of its decorators.
TriesAreBounded ==
    \A s \in Scanners : task[s].restarts < IntegrityTries * OperationalTries
=============================================================================
