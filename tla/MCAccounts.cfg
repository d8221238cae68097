CONSTANTS
  i1 = i1
  i2 = i2
  ann = ann
  ben = ben
  png = png
  gif = gif
  w1 = w1
  w2 = w2
  None = None
  Ids = {i1, i2}
  Names = {ann, ben}
  Formats = {png, gif}
  Workers = {w1, w2}
  MaxUploads = 3
SPECIFICATION Spec
SYMMETRY Interchangeable
INVARIANT TypeOK
INVARIANT AvatarServed
PROPERTY ImplementsDirectory
