----------------------------- MODULE StartWidget -----------------------------
(***************************************************************************)
(* The start page: the images the user has loaded, each with a check box,  *)
(* the button that selects all of them or none, and the check boxes of the *)
(* platforms, which are found again by the text of their box.              *)
(*                                                                         *)
(* A path is its place in the order of the file names; a picture is what a *)
(* file holds.  Loading, deleting and ticking an image changes imageVars,  *)
(* the platforms platformVars.                                             *)
(***************************************************************************)
EXTENDS Integers, Sequences, SequencesExt, TLC

CONSTANTS
  Paths,            (* the files the user may choose, numbers                 *)
  Pictures,         (* what a file may hold                                   *)
  NoPicture,        (* a file that is gone, or that QImage cannot load        *)
  Disks             (* what the files may hold at the start, functions        *)

ASSUME StartWidgetAssumption ==
  /\ Paths \subseteq Nat /\ IsFiniteSet(Paths) /\ NoPicture \notin Pictures
  /\ Disks \subseteq [Paths -> Pictures \cup {NoPicture}]

VARIABLES
  files,            (* what each file holds now                               *)
  touched,          (* history: paths whose file changed after it was loaded  *)
  images,           (* the loaded images and their check boxes                *)
  button,           (* the text of abortDeletionQPushButton                   *)
  description,      (* the text of each platform: constant                    *)
  boxes,            (* the check boxes of the platforms                       *)
  platformMap,      (* the platform of each text                              *)
  aggregate         (* aggregateResultsQCheckBox                              *)

diskVars == <<files, touched>>
imageVars == <<images, button>>
platformVars == <<description, boxes, platformMap>>
widgetVars == <<diskVars, imageVars, platformVars, aggregate>>

(* The numbers of a set in their order. *)
Ascending(S) ==
  CHOOSE s \in [1..Cardinality(S) -> S] : \A a, b \in DOMAIN s : a < b => s[a] < s[b]

FirstOf(platforms, text) == SelectInSeq(platforms, LAMBDA p : description[p] = text)

(* std::map::insert keeps an entry that is there, so the first platform of *)
(* a description has it.                                                   *)
Insert(map, platforms) ==
  [text \in DOMAIN map \cup {description[p] : p \in ToSet(platforms)} |->
     IF text \in DOMAIN map THEN map[text] ELSE platforms[FirstOf(platforms, text)]]
Boxes(platforms) == [i \in DOMAIN platforms |-> [platform |-> platforms[i], checked |-> FALSE]]

WidgetInit(platforms) ==
  /\ files \in Disks /\ touched = {}
  /\ images = <<>> /\ button = "Select all"
  /\ boxes = Boxes(platforms) /\ platformMap = Insert(<<>>, platforms)
  /\ aggregate = FALSE

-----------------------------------------------------------------------------
AreAllSelected(list) == \A i \in DOMAIN list : list[i].checked

(* fault: the button keeps its text. *)
TextKept(list) == button

CheckImageSelection(list) == IF AreAllSelected(list) THEN "Deselect all" ELSE "Select all"

RemoveDuplicateSelectedImages(chosen) == chosen \ {images[i].path : i \in DOMAIN images}

ProcessInputImageButton(chosen) ==
  LET loaded == {p \in RemoveDuplicateSelectedImages(chosen) : files[p] # NoPicture}
      sorted == Ascending(loaded)
  IN  /\ images' = images \o [k \in DOMAIN sorted |->
           [path |-> sorted[k], picture |-> files[sorted[k]], checked |-> FALSE]]
      /\ button' = CheckImageSelection(images')
      /\ touched' = touched \ loaded
      /\ UNCHANGED <<files, platformVars, aggregate>>

(* The check box of an image. *)
ClickImage(i) ==
  /\ images' = [images EXCEPT ![i].checked = ~ @]
  /\ button' = CheckImageSelection(images')
  /\ UNCHANGED <<diskVars, platformVars, aggregate>>

ProcessConfirmDeletionButton ==
  /\ LET kept == Ascending({i \in DOMAIN images : ~ images[i].checked})
     IN  images' = [k \in DOMAIN kept |-> images[kept[k]]]
  /\ button' = IF AreAllSelected(images') /\ images' # <<>> THEN "Deselect all" ELSE "Select all"
  /\ UNCHANGED <<diskVars, platformVars, aggregate>>

ProcessAbortDeletionQPushButton ==
  LET to == ~ AreAllSelected(images)
  IN  /\ images' = [i \in DOMAIN images |-> [images[i] EXCEPT !.checked = to]]
      /\ button' = IF images = <<>> THEN button
                   ELSE IF to THEN "Deselect all" ELSE "Select all"
      /\ UNCHANGED <<diskVars, platformVars, aggregate>>

ClickPlatform(i) ==
  /\ boxes' = [boxes EXCEPT ![i].checked = ~ @]
  /\ UNCHANGED <<diskVars, imageVars, description, platformMap, aggregate>>

ClickAggregate ==
  /\ aggregate' = ~ aggregate
  /\ UNCHANGED <<diskVars, imageVars, platformVars>>

(* Another program writes or removes a file.                               *)
FileChanges(p) ==
  /\ files' \in {[files EXCEPT ![p] = to] : to \in (Pictures \cup {NoPicture}) \ {files[p]}}
  /\ touched' = touched \cup {p}
  /\ UNCHANGED <<imageVars, platformVars, aggregate>>

(* fault: the new platforms are added, without deleting the old ones.      *)
OnlyAddPlatforms(platforms) ==
  /\ platformMap' = Insert(platformMap, platforms)
  /\ boxes' = boxes \o Boxes(platforms)
  /\ UNCHANGED <<diskVars, imageVars, description, aggregate>>

(* updatePlatforms erases the map through the iterator it then increments. *)
(* The first entry goes; the freed node may lead anywhere, so that others  *)
(* may stay, and keep their text from a new platform.                      *)
UpdatePlatforms(platforms) ==
  /\ \E kept \in SUBSET DOMAIN platformMap :
       /\ kept # DOMAIN platformMap
       /\ platformMap' = Insert(Restrict(platformMap, kept), platforms)
  /\ boxes' = Boxes(platforms)
  /\ UNCHANGED <<diskVars, imageVars, description, aggregate>>

(* getSelectedPlatforms, getSelectedImages: the check boxes of the images  *)
(* are for deleting only, every image is classified.                       *)
SelectedPlatforms ==
  {platformMap[description[boxes[i].platform]] : i \in {j \in DOMAIN boxes : boxes[j].checked}}

Position(p) == SelectInSeq(images, LAMBDA image : image.path = p)

SelectedImages ==
  [p \in {images[i].path : i \in DOMAIN images} |-> images[Position(p)].picture]

(* StartWidget.cpp:213, "Always say "Select all" unless all boxes are      *)
(* checked": the button says what a press would do, after every sequence   *)
(* of loading, ticking, deleting and pressing.  (Without an image it may   *)
(* say either, and a press does nothing.)                                  *)
ButtonSaysWhatItDoes ==
  images # <<>> => (button = "Deselect all" <=> \A i \in DOMAIN images : images[i].checked)
=============================================================================
