SPECIFICATION Spec
CONSTANT FatWrites = 2
INVARIANTS TypeOK MountedIsWhole BootRecovers
PROPERTIES SparesFat32 StopsOnlyAfterFault
