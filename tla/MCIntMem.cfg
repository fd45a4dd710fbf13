SPECIFICATION Spec
CONSTANTS
  RomWords = 4
  RamWords = 8
  FwWords = 2
  Rom <- MCRom
  Firmware <- MCFirmware
  Scratch = Scratch
  Unknown = Unknown
  r0 = r0
  r1 = r1
  r2 = r2
  r3 = r3
  f0 = f0
  f1 = f1
INVARIANTS
  ImageThere
PROPERTIES
  RunsItsProgram
  OldProgramStops
  Released
  Served
